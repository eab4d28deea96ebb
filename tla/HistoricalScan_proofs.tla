------------------------ MODULE HistoricalScan_proofs ------------------------
(***************************************************************************)
(* What the historical scan sends, and what the filter it shares with the    *)
(* emitter of the call matches, for any tree of blocks, any batch size, any  *)
(* requests and filters.                                                     *)
(***************************************************************************)
EXTENDS HistoricalScan, TLAPS, FiniteSetTheorems

\* Nothing is sent before the iterator reads its first batch.
Begun ==
  pc \in {"accept", "getBlockHash", "getBlock", "getBestBlockHeight", "iterator"} =>
    sent = << >> /\ pending = {} /\ batchIndex = 0

\* fromHeight is the height of the first block.
Located ==
  /\ pc \in {"getBestBlockHeight", "iterator"} =>
       hash \in Block /\ fromHeight = HeightOf[hash]
  /\ Iterating => fromHeight > 0

\* The batch is read from a block of its first height, once the one before
\* has been sent.
BatchRead ==
  /\ pc \in {"batch", "merkleBlocks", "memPool", "done"} => pending = {}
  /\ pc = "merkleBlocks" =>
       /\ MoreBatches(batchIndex)
       /\ blockHash \in Block /\ HeightOf[blockHash] = CurrentHeight(batchIndex)
       /\ ~ reorged => CurrentHeight(batchIndex) \in DOMAIN chain
                       /\ blockHash = chain[CurrentHeight(batchIndex)]

\* Tests only add to the filter.
FilterGrown ==
  pc # "done" => /\ ClientItems \subseteq filter.items
                 /\ filter = [items |-> filter.items, flag |-> filter.flag]

\* What is pending comes after what is sent and before the next batch.
Ordered ==
  /\ HeightsIncrease
  /\ \A i \in DOMAIN sent, m \in pending : HeightOf[sent[i].block] < HeightOf[m.block]
  /\ \A m, n \in pending : HeightOf[m.block] = HeightOf[n.block] => m = n
  /\ Iterating => \A m \in History : HeightOf[m.block] < CurrentHeight(batchIndex)

\* The range is part of the best chain until a reorganisation.
RangeKept ==
  /\ pc = "iterator" \/ Iterating
  /\ ~ reorged
  => fromHeight + count - 1 <= Len(chain)

IInv ==
  /\ TypeOK /\ Begun /\ Located /\ BatchRead /\ FilterGrown /\ Ordered /\ RangeKept
  /\ HistoryExact

---------------------------------------------------------------------------
\* The batches are adjacent.
LEMMA NextBatch ==
  ASSUME NEW i \in Nat
  PROVE  i * Batch \in Nat /\ (i + 1) * Batch = i * Batch + Batch /\ Batch > 0
  BY BatchAssumption

\* A larger filter matches more.
LEMMA TestMonotone ==
  ASSUME NEW f, NEW g, f.items \subseteq g.items, NEW tx, TestTransaction(f, tx)
  PROVE  TestTransaction(g, tx)
  BY DEF TestTransaction, CheckHash, MatchingOutputs, FilterContainsScript, CheckInputs

\* A test only adds items.
LEMMA FilterAfterGrows ==
  ASSUME NEW f, NEW tx, f = [items |-> f.items, flag |-> f.flag]
  PROVE  /\ f.items \subseteq FilterAfter(f, tx).items
         /\ FilterAfter(f, tx) =
              [items |-> FilterAfter(f, tx).items, flag |-> FilterAfter(f, tx).flag]
  <1>1. CASE FilterAfter(f, tx) = f
    BY <1>1
  <1>2. CASE \E item : FilterAfter(f, tx) = Insert(f, item)
    <2>1. PICK item : FilterAfter(f, tx) = Insert(f, item)
      BY <1>2
    <2>2. Insert(f, item) = [items |-> f.items \cup {item}, flag |-> f.flag]
      BY DEF Insert
    <2> QED
      BY <2>1, <2>2
  <1> QED
    BY <1>1, <1>2 DEF FilterAfter

\* The elements of a sequence.
LEMMA ElementsOfSequence ==
  ASSUME NEW R, NEW s \in Seq(R), NEW i \in DOMAIN s
  PROVE  s[i] \in R
  OBVIOUS

\* Blocks of the best chain are found at their heights.
LEMMA ChainFacts ==
  ASSUME chain \in Chains
  PROVE  /\ chain \in Seq(Block) /\ Len(chain) \in Nat \ {0}
         /\ \A h \in 1..Len(chain) : chain[h] \in Block /\ HeightOf[chain[h]] = h
         /\ \A b : InBestChain(b) => b \in Block /\ HeightOf[b] \in 1..Len(chain)
                                     /\ chain[HeightOf[b]] = b
  <1>1. chain \in Seq(Block) /\ chain # << >> /\ \A h \in DOMAIN chain : HeightOf[chain[h]] = h
    BY ChainsAssumption
  <1>2. Len(chain) \in Nat \ {0} /\ DOMAIN chain = 1..Len(chain)
    BY <1>1
  <1>3. \A h \in 1..Len(chain) : chain[h] \in Block /\ HeightOf[chain[h]] = h
    BY <1>1, <1>2
  <1> QED
    BY <1>1, <1>2, <1>3 DEF InBestChain

\* What getmerkleblocks returns from block b on.
LEMMA MerkleBlocksFacts ==
  ASSUME chain \in Chains, NEW b \in Block, NEW n \in Nat \ {0},
         NEW S \in MerkleBlocks(b, n)
  PROVE  /\ S \subseteq [block : Block, txs : SUBSET Tx]
         /\ \A m \in S : HeightOf[m.block] \in HeightOf[b]..(HeightOf[b] + n - 1)
         /\ \A m, k \in S : HeightOf[m.block] = HeightOf[k.block] => m = k
         /\ InBestChain(b) =>
              /\ \A m \in S : /\ InBestChain(m.block)
                              /\ Matched(m.block) \subseteq m.txs
                              /\ m.txs \subseteq TxsOf[m.block]
              /\ \A h \in 1..Len(chain) :
                   /\ h \in HeightOf[b]..(HeightOf[b] + n - 1)
                   /\ Matched(chain[h]) # {}
                   => \E m \in S : m.block = chain[h]
  <1> DEFINE blocks == BlocksFrom(b, n)
  <1>1. PICK m \in [blocks -> SUBSET Tx] :
          /\ \A c \in blocks : Matched(c) \subseteq m[c] /\ m[c] \subseteq Matched(c) \cup TxsOf[c]
          /\ S = {[block |-> c, txs |-> m[c]] : c \in {d \in blocks : m[d] # {}}}
    BY DEF MerkleBlocks
  <1>2. /\ blocks \subseteq Block
        /\ \A c \in blocks : HeightOf[c] \in HeightOf[b]..(HeightOf[b] + n - 1)
        /\ \A c, d \in blocks : HeightOf[c] = HeightOf[d] => c = d
        /\ InBestChain(b) => \A c \in blocks : InBestChain(c)
        /\ InBestChain(b) => \A h \in 1..Len(chain) :
             h \in HeightOf[b]..(HeightOf[b] + n - 1) => chain[h] \in blocks
    <2>1. HeightOf[b] \in Nat
      BY HeightAssumption
    <2>2. \A c : c \in ToSet(chain) <=> InBestChain(c)
      BY DEF ToSet, InBestChain
    <2>3. CASE InBestChain(b)
      <3>1. blocks = {c \in ToSet(chain) :
                        HeightOf[c] \in HeightOf[b]..(HeightOf[b] + n - 1)}
        BY <2>3 DEF BlocksFrom
      <3>2. \A h \in 1..Len(chain) : InBestChain(chain[h])
        BY ChainFacts DEF InBestChain
      <3>3. \A c \in blocks : InBestChain(c) /\ c \in Block /\ chain[HeightOf[c]] = c
        BY <3>1, <2>2, ChainFacts
      <3> QED
        BY <3>1, <3>2, <3>3, <2>2, ChainFacts
    <2>4. CASE ~ InBestChain(b)
      BY <2>1, <2>4 DEF BlocksFrom
    <2> QED
      BY <2>3, <2>4
  <1>3. \A c \in blocks : Matched(c) \subseteq TxsOf[c]
    BY DEF Matched
  <1> HIDE DEF blocks
  <1>4. \A k \in S : k.block \in blocks /\ k.txs = m[k.block]
                     /\ k = [block |-> k.block, txs |-> m[k.block]]
    BY <1>1
  <1>5. \A c \in blocks : m[c] # {} => [block |-> c, txs |-> m[c]] \in S
    BY <1>1
  <1>6. S \subseteq [block : Block, txs : SUBSET Tx]
    BY <1>1, <1>2
  <1>7. \A k, l \in S : HeightOf[k.block] = HeightOf[l.block] => k = l
    BY <1>2, <1>4
  <1>8. InBestChain(b) =>
          /\ \A k \in S : /\ InBestChain(k.block)
                          /\ Matched(k.block) \subseteq k.txs
                          /\ k.txs \subseteq TxsOf[k.block]
          /\ \A h \in 1..Len(chain) :
               /\ h \in HeightOf[b]..(HeightOf[b] + n - 1)
               /\ Matched(chain[h]) # {}
               => \E k \in S : k.block = chain[h]
    <2>1. \A k \in S : Matched(k.block) \subseteq k.txs /\ k.txs \subseteq TxsOf[k.block]
      BY <1>1, <1>3, <1>4
    <2>2. ASSUME NEW c \in blocks, Matched(c) # {}
          PROVE  \E k \in S : k.block = c
      <3>1. m[c] # {}
        BY <1>1, <2>2
      <3>2. [block |-> c, txs |-> m[c]] \in S
        BY <1>5, <3>1
      <3> QED
        BY <3>2
    <2>3. SUFFICES ASSUME InBestChain(b)
                   PROVE  /\ \A k \in S : InBestChain(k.block)
                          /\ \A h \in 1..Len(chain) :
                               /\ h \in HeightOf[b]..(HeightOf[b] + n - 1)
                               /\ Matched(chain[h]) # {}
                               => \E k \in S : k.block = chain[h]
      BY <2>1
    <2>4. \A h \in 1..Len(chain) :
            h \in HeightOf[b]..(HeightOf[b] + n - 1) => chain[h] \in blocks
      BY <1>2, <2>3
    <2>5. \A k \in S : InBestChain(k.block)
      BY <1>2, <1>4, <2>3
    <2> QED
      BY <2>2, <2>4, <2>5, Zenon
  <1> QED
    BY <1>2, <1>4, <1>6, <1>7, <1>8

---------------------------------------------------------------------------
\* Initially nothing is scanned.
LEMMA InitIInv == Init => IInv
  <1> SUFFICES ASSUME Init PROVE IInv
    OBVIOUS
  <1> USE DEF Init, DashdInit
  <1>1. TypeOK
    <2>1. known \subseteq Block
      BY ChainsAssumption DEF ToSet
    <2>2. request \in Requests /\ hash \in Block \cup {NoHash}
      BY RequestsAssumption
    <2>3. sent \in Seq([block : Block, txs : SUBSET Tx]) /\ ids \in Seq(Tx)
      OBVIOUS
    <2>4. chain \in Chains /\ mempool \subseteq Tx
      OBVIOUS
    <2>5. batchIndex \in Nat /\ ~ batchIndex > 0 /\ fromHeight \in Nat /\ count \in Int
      OBVIOUS
    <2> QED
      BY <2>1, <2>2, <2>3, <2>4, <2>5 DEF TypeOK
  <1>2. Begun /\ Located /\ BatchRead /\ FilterGrown /\ RangeKept /\ HistoryExact
    BY DEF Begun, Located, BatchRead, FilterGrown, RangeKept, HistoryExact, Iterating
  <1>3. Ordered
    BY DEF Ordered, HeightsIncrease, Iterating
  <1> QED
    BY <1>1, <1>2, <1>3 DEF IInv

\* The look-up of the range.
LEMMA LookUpStep ==
  ASSUME IInv, Accept \/ FromHeight \/ FromBlock \/ BestBlockHeight \/ IteratorFromBlock
  PROVE  IInv'
  <1>0. /\ sent' = sent /\ pending' = pending /\ batchIndex' = batchIndex
        /\ sent = << >> /\ pending = {} /\ batchIndex = 0
        /\ UNCHANGED <<dashd, request, blockHash, fetching, ids, filter, reorged>>
    BY DEF IInv, Begun, Accept, FromHeight, FromBlock, BestBlockHeight, IteratorFromBlock,
           scan, emitter, dashd
  <1>1. TypeOK'
    <2>1. CASE Accept
      BY <2>1, <1>0 DEF IInv, TypeOK, Accept, Goto, range, dashd
    <2>2. CASE FromHeight
      <3>1. hash' \in Block \cup {NoHash}
        BY <2>2, ChainFacts DEF IInv, TypeOK, FromHeight, GetBlockHash, Resolve, Reject
      <3> QED
        BY <2>2, <1>0, <3>1 DEF IInv, TypeOK, FromHeight, Goto, dashd
    <2>3. CASE FromBlock
      <3>1. fromHeight' \in Nat
        BY <2>3, HeightAssumption DEF IInv, TypeOK, FromBlock, GetBlock, Resolve, Reject
      <3> QED
        BY <2>3, <1>0, <3>1 DEF IInv, TypeOK, FromBlock, Goto, dashd
    <2>4. CASE BestBlockHeight
      <3>1. Len(chain) \in Nat /\ request.count \in Nat
        BY ChainFacts, RequestsAssumption DEF IInv, TypeOK
      <3>2. count' \in Int
        BY <2>4, <3>1 DEF IInv, TypeOK, BestBlockHeight, GetBestBlockHeight, Resolve
      <3> QED
        BY <2>4, <1>0, <3>2 DEF IInv, TypeOK, BestBlockHeight, Goto, dashd
    <2>5. CASE IteratorFromBlock
      <3>1. fromHeight' \in Nat
        BY <2>5, HeightAssumption DEF IInv, TypeOK, IteratorFromBlock, GetBlock, Resolve, Reject
      <3> QED
        BY <2>5, <1>0, <3>1 DEF IInv, TypeOK, IteratorFromBlock, Goto, dashd
    <2> QED
      BY <2>1, <2>2, <2>3, <2>4, <2>5
  <1>2. Begun'
    BY <1>0 DEF Begun
  <1>3. Located'
    <2>1. CASE Accept \/ FromHeight
      BY <2>1 DEF Accept, FromHeight, Goto, Located, Iterating
    <2>2. CASE FromBlock
      BY <2>2 DEF FromBlock, Goto, Located, Iterating, GetBlock, Resolve, Reject, IInv, TypeOK
    <2>3. CASE BestBlockHeight
      BY <2>3 DEF BestBlockHeight, Goto, Located, Iterating, IInv
    <2>4. CASE IteratorFromBlock
      <3>1. hash \in Block /\ HeightOf[hash] > 0
        BY <2>4, HeightAssumption DEF IteratorFromBlock, IInv, Located
      <3> QED
        BY <2>4, <3>1 DEF IteratorFromBlock, Goto, Located, Iterating, GetBlock, Resolve,
                          Reject
    <2> QED
      BY <2>1, <2>2, <2>3, <2>4
  <1>4. BatchRead' /\ FilterGrown' /\ Ordered'
    <2>1. pc' # "merkleBlocks" /\ pc # "done"
      BY DEF Accept, FromHeight, FromBlock, BestBlockHeight, IteratorFromBlock, Goto
    <2>2. BatchRead' /\ FilterGrown'
      BY <1>0, <2>1 DEF BatchRead, FilterGrown, IInv
    <2>3. Ordered'
      BY <1>0 DEF Ordered, HeightsIncrease, History, ToSet
    <2> QED
      BY <2>2, <2>3
  <1>5. RangeKept'
    <2>1. CASE Accept \/ FromHeight \/ FromBlock
      BY <2>1 DEF Accept, FromHeight, FromBlock, Goto, RangeKept, Iterating
    <2>2. CASE BestBlockHeight
      <3>1. Len(chain) \in Nat /\ request.count \in Nat /\ fromHeight \in Nat
        BY ChainFacts, RequestsAssumption DEF IInv, TypeOK
      <3>2. fromHeight' + count' - 1 <= Len(chain)
        BY <2>2, <3>1 DEF BestBlockHeight, GetBestBlockHeight, Resolve
      <3> QED
        BY <3>2, <1>0 DEF RangeKept, dashd
    <2>3. CASE IteratorFromBlock
      BY <2>3, <1>0 DEF IteratorFromBlock, GetBlock, Resolve, Reject, Goto, RangeKept, Iterating,
                        IInv, Located, dashd
    <2> QED
      BY <2>1, <2>2, <2>3
  <1>6. HistoryExact'
    <2>1. History' = {}
      BY <1>0 DEF History, ToSet
    <2>2. CASE Accept \/ FromHeight \/ FromBlock \/ BestBlockHeight
      BY <2>2 DEF Accept, FromHeight, FromBlock, BestBlockHeight, Goto, HistoryExact, Iterating
    <2>3. CASE IteratorFromBlock
      <3>1. CASE pc' = "failed"
        BY <3>1 DEF HistoryExact, Iterating
      <3>2. CASE fromHeight' = fromHeight
        <4>1. fromHeight \in Nat /\ count \in Int /\ batchIndex = 0 /\ count' = count
          BY <2>3, <1>0 DEF IInv, TypeOK, IteratorFromBlock
        <4>2. batchIndex * Batch = 0
          BY <4>1, BatchAssumption
        <4>3. ScannedTo \in Int /\ ScannedTo < fromHeight
          BY <4>1, <4>2 DEF ScannedTo, MoreBatches
        <4>4. fromHeight..ScannedTo = {}
          BY <4>1, <4>3
        <4>5. fromHeight'..ScannedTo' = {}
          BY <4>1, <4>4, <3>2, <1>0 DEF ScannedTo, MoreBatches
        <4> QED
          BY <2>1, <4>5 DEF HistoryExact
      <3> QED
        BY <2>3, <3>1, <3>2 DEF IteratorFromBlock, GetBlock, Resolve, Reject, Goto, IInv, Located
    <2> QED
      BY <2>2, <2>3
  <1> QED
    BY <1>1, <1>2, <1>3, <1>4, <1>5, <1>6 DEF IInv

\* A step that leaves the range, the batches and the best chain alone.
Aside ==
  /\ UNCHANGED <<chain, known, request, range, batchIndex, blockHash, pending, sent, reorged>>
  /\ \/ pc' = pc
     \/ pc' = "failed"
     \/ pc \in {"batch", "memPool"} /\ pc' \in {"memPool", "done"}

LEMMA AsideKeeps ==
  ASSUME IInv, Aside
  PROVE  Begun' /\ Located' /\ BatchRead' /\ Ordered' /\ RangeKept' /\ HistoryExact'
  <1> USE DEF Aside, range
  <1>1. Iterating' => Iterating
    BY DEF Iterating
  <1>2. Begun' /\ Located' /\ BatchRead' /\ RangeKept'
    BY <1>1 DEF IInv, Begun, Located, BatchRead, RangeKept, MoreBatches, CurrentHeight
  <1>3. History' = History /\ ScannedTo' = ScannedTo
    BY DEF History, ScannedTo, MoreBatches
  <1>4. Ordered'
    BY <1>1, <1>3 DEF IInv, Ordered, HeightsIncrease, CurrentHeight
  <1>5. HistoryExact'
    BY <1>1, <1>3 DEF IInv, HistoryExact
  <1> QED
    BY <1>2, <1>4, <1>5

\* Orders of a set of transactions are sequences.
LEMMA OrdersAreSequences ==
  ASSUME NEW S \in SUBSET Tx, NEW s \in SetToSeqs(S)
  PROVE  s \in Seq(Tx)
  <1>1. Cardinality(S) \in Nat
    BY TxAssumption, FS_Subset, FS_CardinalityType
  <1>2. s \in [1..Cardinality(S) -> S]
    BY DEF SetToSeqs
  <1> QED
    BY <1>1, <1>2

\* The steps of dashd's mempool, of the emitter, of failures and those that
\* wait for transactions.
LEMMA AsideStep ==
  ASSUME IInv,
         \/ \E tx \in Tx : FetchTransaction(tx) \/ MempoolChanges(tx) \/ LiveTest(tx)
         \/ EndHistoricalStream \/ ReadMemPool \/ ReadMemPoolTransaction \/ TestMemPool
         \/ RpcFails
  PROVE  IInv'
  <1> USE DEF range, scan, emitter, dashd, Goto
  <1>1. Aside /\ TypeOK' /\ FilterGrown'
    <2>1. ASSUME NEW tx \in Tx, FetchTransaction(tx) \/ MempoolChanges(tx) \/ LiveTest(tx)
          PROVE  Aside /\ TypeOK' /\ FilterGrown'
      <3>1. CASE FetchTransaction(tx)
        <4>1. Aside /\ mempool' = mempool /\ fetching' \subseteq fetching /\ ids' = ids
              /\ filter' = filter
          BY <3>1 DEF FetchTransaction, Aside
        <4> QED
          BY <3>1, <4>1 DEF FetchTransaction, Aside, IInv, TypeOK, FilterGrown
      <3>2. CASE MempoolChanges(tx)
        <4>1. Aside /\ mempool' \subseteq Tx /\ fetching' = fetching /\ ids' = ids
              /\ filter' = filter /\ pc' = pc
          BY <3>2 DEF MempoolChanges, EnterMempool, LeaveMempool, Aside, IInv, TypeOK
        <4> QED
          BY <4>1 DEF Aside, IInv, TypeOK, FilterGrown
      <3>3. CASE LiveTest(tx)
        <4>1. Aside /\ mempool' = mempool /\ fetching' = fetching /\ ids' = ids /\ pc' = pc
              /\ filter' = FilterAfter(filter, tx)
          BY <3>3 DEF LiveTest, Aside
        <4>2. FilterGrown'
          BY <4>1, FilterAfterGrows DEF IInv, FilterGrown
        <4> QED
          BY <4>1, <4>2 DEF Aside, IInv, TypeOK
      <3> QED
        BY <2>1, <3>1, <3>2, <3>3
    <2>2. CASE EndHistoricalStream
      BY <2>2 DEF EndHistoricalStream, Aside, IInv, TypeOK, FilterGrown
    <2>3. CASE ReadMemPool
      <3>1. /\ Aside /\ mempool' = mempool /\ fetching' = mempool /\ filter' = filter
            /\ ids' \in SetToSeqs(mempool) /\ pc' = "memPool" /\ pc = "batch"
        BY <2>3 DEF ReadMemPool, GetRawMemPool, Resolve, Aside
      <3>2. ids' \in Seq(Tx)
        BY <3>1, OrdersAreSequences DEF IInv, TypeOK
      <3> QED
        BY <3>1, <3>2 DEF Aside, IInv, TypeOK, FilterGrown
    <2>4. CASE ReadMemPoolTransaction
      <3>1. Aside /\ mempool' = mempool /\ fetching' \subseteq fetching /\ ids' = ids
            /\ filter' = filter /\ pc' \in {"memPool", "failed"} /\ pc = "memPool"
        BY <2>4 DEF ReadMemPoolTransaction, Aside
      <3> QED
        BY <3>1 DEF Aside, IInv, TypeOK, FilterGrown
    <2>5. CASE TestMemPool
      <3>1. Aside /\ mempool' = mempool /\ fetching' = fetching /\ ids' = ids /\ pc' = "done"
        BY <2>5 DEF TestMemPool, Aside
      <3> QED
        BY <3>1 DEF Aside, IInv, TypeOK, FilterGrown
    <2>6. CASE RpcFails
      BY <2>6 DEF RpcFails, Aside, IInv, TypeOK, FilterGrown
    <2> QED
      BY <2>1, <2>2, <2>3, <2>4, <2>5, <2>6
  <1> QED
    BY <1>1, AsideKeeps DEF IInv

\* A batch is begun at the block of its first height.
LEMMA BatchHashStep ==
  ASSUME IInv, BatchHash
  PROVE  IInv'
  <1> USE DEF Goto, dashd, range, emitter
  <1>1. UNCHANGED <<chain, known, mempool, request, hash, fromHeight, count, batchIndex, pending,
                    fetching, ids, filter, sent, reorged>>
    BY DEF BatchHash
  <1>2. \/ pc' = "failed" /\ blockHash' = blockHash
        \/ /\ pc' = "merkleBlocks" /\ MoreBatches(batchIndex)
           /\ CurrentHeight(batchIndex) \in 1..Len(chain)
           /\ blockHash' = chain[CurrentHeight(batchIndex)]
    <2>1. DOMAIN chain = 1..Len(chain)
      BY ChainFacts DEF IInv, TypeOK
    <2> QED
      BY <2>1 DEF BatchHash, GetBlockHash, Resolve, Reject
  <1>3. pc' = "merkleBlocks" => blockHash' \in Block /\ HeightOf[blockHash'] = CurrentHeight(batchIndex)
    BY <1>2, ChainFacts DEF IInv, TypeOK
  <1>4. Iterating
    BY DEF BatchHash, Iterating
  <1>5. TypeOK'
    BY <1>1, <1>2, <1>3 DEF IInv, TypeOK
  <1>6. Begun' /\ Located' /\ RangeKept' /\ FilterGrown'
    BY <1>1, <1>2, <1>4, BatchHash DEF BatchHash, IInv, Begun, Located, RangeKept, Iterating, FilterGrown
  <1>7. BatchRead'
    <2>1. pending' = {}
      BY <1>1 DEF BatchHash, IInv, BatchRead
    <2>2. DOMAIN chain = 1..Len(chain)
      BY ChainFacts DEF IInv, TypeOK
    <2> QED
      BY <1>1, <1>2, <1>3, <2>1, <2>2 DEF BatchRead, MoreBatches, CurrentHeight
  <1>8. History' = History /\ ScannedTo' = ScannedTo
    BY <1>1 DEF History, ScannedTo, MoreBatches
  <1>9. Ordered' /\ HistoryExact'
    BY <1>1, <1>4, <1>8 DEF IInv, Ordered, HeightsIncrease, HistoryExact, CurrentHeight
  <1> QED
    BY <1>5, <1>6, <1>7, <1>9 DEF IInv

\* The blocks asked for in a batch begin where the one before ended and end
\* where the next one begins.
LEMMA BatchArithmetic ==
  ASSUME TypeOK, MoreBatches(batchIndex)
  PROVE  /\ GetBlocksToScan(batchIndex) \in 1..Batch
         /\ CurrentHeight(batchIndex) \in Nat
         /\ CurrentHeight(batchIndex) >= fromHeight
         /\ CurrentHeight(batchIndex) <= fromHeight + count - 1
         /\ CurrentHeight(batchIndex + 1) = CurrentHeight(batchIndex) + Batch
         /\ ScannedTo = CurrentHeight(batchIndex) - 1
         /\ (IF MoreBatches(batchIndex + 1)
             THEN fromHeight + (batchIndex + 1) * Batch - 1
             ELSE fromHeight + count - 1)
            = CurrentHeight(batchIndex) + GetBlocksToScan(batchIndex) - 1
         /\ CurrentHeight(batchIndex) + GetBlocksToScan(batchIndex) - 1 <= fromHeight + count - 1
  <1> DEFINE p == batchIndex * Batch
             q == (batchIndex + 1) * Batch
  <1>1. fromHeight \in Nat /\ count \in Int /\ batchIndex \in Nat /\ Batch \in Nat \ {0}
    BY BatchAssumption DEF TypeOK
  <1>2. p \in Nat /\ q = p + Batch
    BY <1>1, NextBatch
  <1>3. p < count
    BY DEF MoreBatches
  <1>4. /\ CurrentHeight(batchIndex) = fromHeight + p
        /\ CurrentHeight(batchIndex + 1) = fromHeight + q
        /\ ScannedTo = fromHeight + p - 1
        /\ MoreBatches(batchIndex + 1) <=> q < count
        /\ GetBlocksToScan(batchIndex) = IF q >= count THEN count - p ELSE Batch
    BY DEF CurrentHeight, ScannedTo, MoreBatches, GetBlocksToScan
  <1> HIDE DEF p, q
  <1>5. CASE q < count
    BY <1>1, <1>2, <1>3, <1>4, <1>5 DEF q
  <1>6. CASE ~ q < count
    BY <1>1, <1>2, <1>3, <1>4, <1>6
  <1> QED
    BY <1>5, <1>6

\* A batch is read.
LEMMA MerkleBlocksStep ==
  ASSUME IInv, MerkleBlocksOfBatch
  PROVE  IInv'
  <1> DEFINE n   == GetBlocksToScan(batchIndex)
             cur == CurrentHeight(batchIndex)
  <1>1. PICK S \in MerkleBlocks(blockHash, n) : NextMerkleBlock(S)
    BY DEF MerkleBlocksOfBatch
  <1>2. /\ UNCHANGED <<chain, known, mempool, request, hash, fromHeight, count, blockHash, ids,
                       filter, sent, reorged>>
        /\ batchIndex' = batchIndex + 1 /\ pending' = S
        /\ (pc' = "batch" /\ S = {}) \/ pc' = "getTransactions"
    BY <1>1 DEF MerkleBlocksOfBatch, NextMerkleBlock, Goto, dashd, range, emitter
  <1>3. /\ pc = "merkleBlocks" /\ Iterating /\ Iterating' /\ pending = {}
        /\ MoreBatches(batchIndex) /\ blockHash \in Block /\ HeightOf[blockHash] = cur
        /\ ~ reorged => cur \in DOMAIN chain /\ blockHash = chain[cur]
    BY <1>2 DEF MerkleBlocksOfBatch, Iterating, IInv, BatchRead
  <1>4. /\ chain \in Chains /\ fromHeight \in Nat \ {0} /\ count \in Int /\ batchIndex \in Nat
        /\ Batch \in Nat \ {0}
    BY <1>3, BatchAssumption DEF IInv, TypeOK, Located
  <1>5. /\ n \in 1..Batch /\ cur \in Nat /\ cur >= fromHeight
        /\ CurrentHeight(batchIndex + 1) = cur + Batch
        /\ ScannedTo = cur - 1 /\ cur + n - 1 <= fromHeight + count - 1
        /\ ScannedTo' = cur + n - 1
    BY <1>2, <1>3, BatchArithmetic DEF IInv, ScannedTo, MoreBatches
  <1> HIDE DEF n, cur
  <1>6. n \in Nat \ {0}
    BY <1>4, <1>5
  <1>7. /\ S \subseteq [block : Block, txs : SUBSET Tx]
        /\ \A m \in S : HeightOf[m.block] \in cur..(cur + n - 1)
        /\ \A m, k \in S : HeightOf[m.block] = HeightOf[k.block] => m = k
    BY <1>1, <1>3, <1>4, <1>6, MerkleBlocksFacts DEF n
  <1>8. History = ToSet(sent) /\ History' = History \cup S
    BY <1>2, <1>3 DEF History
  <1>9. TypeOK'
    <2>1. fetching' \subseteq Tx
      BY <1>1, <1>7 DEF NextMerkleBlock
    <2>2. batchIndex' \in Nat /\ (batchIndex' - 1) * Batch < count
      BY <1>2, <1>3, <1>4 DEF MoreBatches
    <2> QED
      BY <1>2, <1>7, <2>1, <2>2 DEF IInv, TypeOK
  <1>10. Begun' /\ Located' /\ BatchRead' /\ FilterGrown' /\ RangeKept'
    BY <1>2, <1>3 DEF Begun, Located, BatchRead, FilterGrown, RangeKept, IInv
  <1>11. Ordered'
    <2>1. \A m \in History : HeightOf[m.block] < cur /\ HeightOf[m.block] \in Nat
      <3>1. \A m \in History : m.block \in Block
        <4>1. sent \in Seq([block : Block, txs : SUBSET Tx])
          BY DEF IInv, TypeOK
        <4>2. \A i \in DOMAIN sent : sent[i] \in [block : Block, txs : SUBSET Tx]
          BY <4>1, ElementsOfSequence, Zenon
        <4>3. \A i \in DOMAIN sent : sent[i].block \in Block
          BY <4>2
        <4> QED
          BY <4>3, <1>8 DEF ToSet
      <3>2. \A m \in History : HeightOf[m.block] < cur
        BY <1>3 DEF IInv, Ordered, cur
      <3> QED
        BY <3>1, <3>2, HeightAssumption
    <2>2. \A i \in DOMAIN sent : sent[i] \in History
      BY <1>8 DEF ToSet
    <2>3. \A i \in DOMAIN sent, m \in S : HeightOf[sent[i].block] < HeightOf[m.block]
      BY <2>1, <2>2, <1>5, <1>6, <1>7
    <2>4. \A m \in History \cup S : HeightOf[m.block] < cur + Batch
      BY <2>1, <1>4, <1>5, <1>7
    <2>5. CurrentHeight(batchIndex)' = cur + Batch
      BY <1>2, <1>5 DEF CurrentHeight
    <2>6. HeightsIncrease'
      BY <1>2 DEF IInv, Ordered, HeightsIncrease
    <2> QED
      BY <1>2, <1>7, <1>8, <2>3, <2>4, <2>5, <2>6 DEF Ordered
  <1>12. HistoryExact'
    <2> SUFFICES ASSUME ~ reorged PROVE HistoryExact'
      BY <1>2 DEF HistoryExact
    <2>1. Len(chain) \in Nat /\ fromHeight + count - 1 <= Len(chain)
      BY <1>3, <1>4, ChainFacts DEF IInv, RangeKept
    <2>2. InBestChain(blockHash)
      BY <1>3 DEF InBestChain
    <2>3. /\ \A m \in S : /\ InBestChain(m.block)
                          /\ Matched(m.block) \subseteq m.txs
                          /\ m.txs \subseteq TxsOf[m.block]
          /\ \A h \in 1..Len(chain) :
               h \in cur..(cur + n - 1) /\ Matched(chain[h]) # {} => \E m \in S : m.block = chain[h]
      <3>1. S \in MerkleBlocks(blockHash, n) /\ blockHash \in Block
        BY <1>1, <1>3
      <3> QED
        <4>1. /\ \A m \in S : /\ InBestChain(m.block)
                              /\ Matched(m.block) \subseteq m.txs
                              /\ m.txs \subseteq TxsOf[m.block]
              /\ \A h \in 1..Len(chain) :
                   /\ h \in HeightOf[blockHash]..(HeightOf[blockHash] + n - 1)
                   /\ Matched(chain[h]) # {}
                   => \E m \in S : m.block = chain[h]
          BY <2>2, <1>1, <1>3, <1>4, <1>6, MerkleBlocksFacts DEF n
        <4> QED
          BY <4>1, <1>3
    <2>4. \A b : MatchingIn(b) \subseteq Matched(b)
      BY <1>3, TestMonotone DEF MatchingIn, Matched, IInv, FilterGrown
    <2>5. ASSUME NEW m \in History'
          PROVE  /\ \E h \in fromHeight..(cur + n - 1) : chain[h] = m.block
                 /\ MatchingIn(m.block) \subseteq m.txs
                 /\ m.txs \subseteq TxsOf[m.block]
      <3>1. CASE m \in History
        <4>1. /\ \E h \in fromHeight..(cur - 1) : chain[h] = m.block
              /\ MatchingIn(m.block) \subseteq m.txs
              /\ m.txs \subseteq TxsOf[m.block]
          BY <3>1, <1>3, <1>5 DEF IInv, HistoryExact
        <4> QED
          BY <4>1, <1>4, <1>5, <1>6
      <3>2. CASE m \in S
        <4>1. chain[HeightOf[m.block]] = m.block /\ HeightOf[m.block] \in fromHeight..(cur + n - 1)
          BY <3>2, <2>3, <1>4, <1>5, <1>7, ChainFacts
        <4> QED
          BY <4>1, <3>2, <2>3, <2>4
      <3> QED
        BY <3>1, <3>2, <1>8
    <2>6. ASSUME NEW h \in fromHeight..(cur + n - 1), MatchingIn(chain[h]) # {}
          PROVE  \E m \in History' : m.block = chain[h]
      <3>1. CASE h \in fromHeight..(cur - 1)
        BY <3>1, <2>6, <1>3, <1>5, <1>8 DEF IInv, HistoryExact
      <3>2. CASE h \in cur..(cur + n - 1)
        <4>1. h \in 1..Len(chain)
          BY <3>2, <2>1, <1>4, <1>5, <1>6
        <4> QED
          BY <4>1, <3>2, <2>3, <2>4, <2>6, <1>8
      <3> QED
        BY <3>1, <3>2, <1>4, <1>5, <1>6
    <2>7. /\ fromHeight' = fromHeight /\ chain' = chain
          /\ \A b : MatchingIn(b)' = MatchingIn(b)
      BY <1>2 DEF MatchingIn
    <2> QED
      BY <2>5, <2>6, <2>7, <1>5 DEF HistoryExact
  <1> QED
    BY <1>9, <1>10, <1>11, <1>12 DEF IInv

\* The first of the pending blocks is sent.
LEMMA SendStep ==
  ASSUME IInv, SendMerkleBlock
  PROVE  IInv'
  <1>1. PICK m \in pending : /\ IsFirst(m, pending)
                             /\ sent' = Append(sent, m)
                             /\ NextMerkleBlock(pending \ {m})
    BY DEF SendMerkleBlock
  <1>2. /\ UNCHANGED <<chain, known, mempool, request, hash, fromHeight, count, batchIndex,
                       blockHash, ids, filter, reorged>>
        /\ pending' = pending \ {m}
        /\ (pc' = "batch" /\ pending' = {}) \/ pc' = "getTransactions"
    BY <1>1 DEF SendMerkleBlock, NextMerkleBlock, Goto, dashd, range, emitter
  <1>3. pc = "getTransactions" /\ Iterating /\ Iterating'
    BY <1>2 DEF SendMerkleBlock, Iterating
  <1>4. /\ sent \in Seq([block : Block, txs : SUBSET Tx])
        /\ pending \subseteq [block : Block, txs : SUBSET Tx]
    BY DEF IInv, TypeOK
  <1>5. /\ DOMAIN sent' = DOMAIN sent \cup {Len(sent) + 1}
        /\ DOMAIN sent = 1..Len(sent) /\ Len(sent) \in Nat
        /\ \A i \in DOMAIN sent : sent'[i] = sent[i]
        /\ sent'[Len(sent) + 1] = m
    BY <1>1, <1>4
  <1>6. History' = History
    <2>1. ToSet(sent)' = ToSet(sent) \cup {m}
      BY <1>5 DEF ToSet
    <2> QED
      BY <2>1, <1>2 DEF History
  <1>7. TypeOK'
    <2>1. fetching' \subseteq Tx
      BY <1>1, <1>4 DEF NextMerkleBlock
    <2>2. sent' \in Seq([block : Block, txs : SUBSET Tx])
      BY <1>1, <1>4
    <2> QED
      BY <1>2, <2>1, <2>2 DEF IInv, TypeOK
  <1>8. Begun' /\ Located' /\ BatchRead' /\ FilterGrown' /\ RangeKept'
    BY <1>2, <1>3 DEF Begun, Located, BatchRead, FilterGrown, RangeKept, IInv
  <1>9. Ordered'
    <2>1. HeightsIncrease'
      <3>1. \A i, j \in DOMAIN sent : i < j => HeightOf[sent[i].block] < HeightOf[sent[j].block]
        BY DEF IInv, Ordered, HeightsIncrease
      <3>2. \A i \in DOMAIN sent : HeightOf[sent[i].block] < HeightOf[m.block]
        BY DEF IInv, Ordered
      <3>3. ASSUME NEW i \in DOMAIN sent', NEW j \in DOMAIN sent', i < j
            PROVE  HeightOf[sent'[i].block] < HeightOf[sent'[j].block]
        <4>1. i \in DOMAIN sent
          BY <3>3, <1>5
        <4>2. CASE j \in DOMAIN sent
          BY <3>1, <3>3, <4>1, <4>2, <1>5
        <4>3. CASE j = Len(sent) + 1
          BY <3>2, <4>1, <4>3, <1>5
        <4> QED
          BY <4>2, <4>3, <1>5
      <3> QED
        BY <3>3 DEF HeightsIncrease
    <2>2. \A n \in pending' : HeightOf[m.block] < HeightOf[n.block]
      <3>1. \A n \in pending : HeightOf[m.block] \in Nat /\ HeightOf[n.block] \in Nat
        BY <1>4, HeightAssumption
      <3>2. \A n \in pending : HeightOf[m.block] = HeightOf[n.block] => m = n
        BY DEF IInv, Ordered
      <3> QED
        BY <3>1, <3>2, <1>1, <1>2 DEF IsFirst
    <2>3. \A i \in DOMAIN sent', n \in pending' : HeightOf[sent'[i].block] < HeightOf[n.block]
      BY <2>2, <1>2, <1>5 DEF IInv, Ordered
    <2>4. \A k \in History' : HeightOf[k.block] < CurrentHeight(batchIndex)'
      BY <1>2, <1>3, <1>6 DEF IInv, Ordered, CurrentHeight
    <2> QED
      BY <2>1, <2>3, <2>4, <1>2 DEF IInv, Ordered
  <1>10. HistoryExact'
    <2>1. ScannedTo' = ScannedTo
      BY <1>2 DEF ScannedTo, MoreBatches
    <2> QED
      BY <2>1, <1>2, <1>3, <1>6 DEF IInv, HistoryExact
  <1> QED
    BY <1>7, <1>8, <1>9, <1>10 DEF IInv

\* dashd changes its best chain.
LEMMA ReorganiseStep ==
  ASSUME IInv, NEW c \in Chains, Reorganise(c)
  PROVE  IInv'
  <1>1. /\ UNCHANGED <<pc, request, hash, fromHeight, count, batchIndex, blockHash, pending,
                       fetching, ids, filter, sent>>
        /\ chain' = c /\ known' = known \cup ToSet(c) /\ mempool' \subseteq mempool \cup TxsIn(chain)
        /\ reorged' = (reorged \/ ~ Keeps(c))
    BY DEF Reorganise, SwitchChain, range, scan, emitter
  <1>2. /\ chain \in Chains /\ chain \in Seq(Block) /\ Len(chain) \in Nat \ {0}
        /\ c \in Seq(Block) /\ Len(c) \in Nat \ {0}
        /\ DOMAIN c = 1..Len(c) /\ DOMAIN chain = 1..Len(chain)
    BY ChainsAssumption DEF IInv, TypeOK
  <1>3. TypeOK'
    <2>1. ToSet(c) \subseteq Block
      BY <1>2 DEF ToSet
    <2>2. TxsIn(chain) \subseteq Tx
      BY <1>2, TxsOfAssumption DEF TxsIn
    <2>3. mempool' \subseteq Tx
      BY <2>2, <1>1 DEF IInv, TypeOK
    <2>4. reorged' \in BOOLEAN
      BY <1>1 DEF IInv, TypeOK
    <2> QED
      BY <2>1, <2>3, <2>4, <1>1 DEF IInv, TypeOK
  <1>4. Begun' /\ Located' /\ FilterGrown' /\ Ordered'
    BY <1>1 DEF IInv, Begun, Located, FilterGrown, Ordered, HeightsIncrease, History, Iterating,
                CurrentHeight
  <1>5. History' = History /\ ScannedTo' = ScannedTo /\ (Iterating' <=> Iterating)
    BY <1>1 DEF History, ScannedTo, MoreBatches, Iterating
  <1>6. CASE reorged' \/ ~ (pc = "iterator" \/ Iterating)
    BY <1>1, <1>3, <1>4, <1>5, <1>6
       DEF IInv, BatchRead, RangeKept, HistoryExact, MoreBatches, CurrentHeight, Iterating
  <1>7. CASE ~ reorged' /\ (pc = "iterator" \/ Iterating)
    <2> DEFINE top == fromHeight + count - 1
    <2>1. /\ ~ reorged /\ top <= Len(chain)
          /\ \A h \in 1..top : h \in 1..Len(c) /\ c[h] = chain[h]
      BY <1>1, <1>2, <1>7 DEF IInv, RangeKept, Keeps, Top, Iterating
    <2>2. fromHeight \in Nat /\ count \in Int /\ batchIndex \in Nat /\ Batch \in Nat \ {0}
      BY BatchAssumption DEF IInv, TypeOK
    <2>3. top <= Len(c)
      <3>1. CASE top \in 1..top
        BY <3>1, <2>1, <1>2
      <3> QED
        BY <3>1, <2>2, <1>2
    <2>4. RangeKept'
      BY <2>3, <1>1 DEF RangeKept
    <2>5. BatchRead'
      <3>1. CASE pc = "merkleBlocks"
        <4>1. fromHeight > 0 /\ MoreBatches(batchIndex)
          BY <3>1 DEF IInv, Located, BatchRead, Iterating
        <4>2. CurrentHeight(batchIndex) \in 1..top
          BY <4>1, <2>2, BatchArithmetic DEF IInv
        <4>3. c[CurrentHeight(batchIndex)] = chain[CurrentHeight(batchIndex)]
              /\ CurrentHeight(batchIndex) \in DOMAIN c
          BY <4>2, <2>1, <1>2
        <4> QED
          BY <3>1, <4>3, <2>1, <1>1 DEF IInv, BatchRead, MoreBatches, CurrentHeight
      <3>2. CASE pc # "merkleBlocks"
        BY <3>2, <1>1 DEF IInv, BatchRead
      <3> QED
        BY <3>1, <3>2
    <2>6. HistoryExact'
      <3>1. CASE Iterating
        <4>1. fromHeight > 0
          BY <3>1 DEF IInv, Located
        <4>2. ScannedTo \in Int /\ ScannedTo <= top
          <5>1. CASE MoreBatches(batchIndex)
            BY <5>1, <2>2, BatchArithmetic DEF IInv
          <5>2. CASE ~ MoreBatches(batchIndex)
            BY <5>2, <2>2 DEF ScannedTo
          <5> QED
            BY <5>1, <5>2
        <4>3. \A h \in fromHeight..ScannedTo : c[h] = chain[h]
          BY <4>1, <4>2, <2>1, <2>2
        <4>4. /\ \A m \in History :
                   /\ \E h \in fromHeight..ScannedTo : chain[h] = m.block
                   /\ MatchingIn(m.block) \subseteq m.txs
                   /\ m.txs \subseteq TxsOf[m.block]
              /\ \A h \in fromHeight..ScannedTo :
                   MatchingIn(chain[h]) # {} => \E m \in History : m.block = chain[h]
          BY <3>1, <2>1 DEF IInv, HistoryExact
        <4>5. \A b : MatchingIn(b)' = MatchingIn(b)
          BY DEF MatchingIn
        <4> HIDE DEF top
        <4> QED
          BY <4>3, <4>4, <4>5, <1>1, <1>5 DEF HistoryExact
      <3>2. CASE ~ Iterating
        BY <3>2, <1>5 DEF HistoryExact
      <3> QED
        BY <3>1, <3>2
    <2> QED
      BY <1>3, <1>4, <2>4, <2>5, <2>6 DEF IInv
  <1> QED
    BY <1>6, <1>7

---------------------------------------------------------------------------
\* Every step keeps the invariant.
LEMMA NextIInv == IInv /\ [Next]_vars => IInv'
  <1> SUFFICES ASSUME IInv, [Next]_vars PROVE IInv'
    OBVIOUS
  <1>1. CASE Accept \/ FromHeight \/ FromBlock \/ BestBlockHeight \/ IteratorFromBlock
    BY <1>1, LookUpStep
  <1>2. CASE BatchHash
    BY <1>2, BatchHashStep
  <1>3. CASE MerkleBlocksOfBatch
    BY <1>3, MerkleBlocksStep
  <1>4. CASE SendMerkleBlock
    BY <1>4, SendStep
  <1>5. CASE \/ \E tx \in Tx : FetchTransaction(tx) \/ MempoolChanges(tx) \/ LiveTest(tx)
             \/ EndHistoricalStream \/ ReadMemPool \/ ReadMemPoolTransaction \/ TestMemPool
             \/ RpcFails
    BY <1>5, AsideStep
  <1>6. CASE \E c \in Chains : Reorganise(c)
    BY <1>6, ReorganiseStep
  <1>7. CASE UNCHANGED vars
    <2>1. Aside /\ UNCHANGED <<mempool, fetching, ids, filter, pc>>
      BY <1>7 DEF vars, Aside, dashd, range, scan, emitter
    <2>2. TypeOK' /\ FilterGrown'
      BY <2>1 DEF IInv, TypeOK, FilterGrown, Aside, range
    <2> QED
      BY <2>1, <2>2, AsideKeeps DEF IInv
  <1> QED
    BY <1>1, <1>2, <1>3, <1>4, <1>5, <1>6, <1>7 DEF Next, HandlerStep

\* The invariant holds in every state.
LEMMA IInvAlways == Spec => []IInv
  BY InitIInv, NextIInv, PTL DEF Spec

\* Types, and no batch is read beyond the count.
THEOREM ScanTypeCorrect == Spec => []TypeOK
  <1>1. IInv => TypeOK
    BY DEF IInv
  <1> QED
    BY <1>1, IInvAlways, PTL

\* While the range stays in the best chain the scan sends exactly its blocks,
\* for any tree of blocks and any batch size (the handler's count, the
\* iterator's batches and the filter it shares with the emitter).
THEOREM ScanIsExact == Spec => []HistoryExact
  <1>1. IInv => HistoryExact
    BY DEF IInv
  <1> QED
    BY <1>1, IInvAlways, PTL

\* The heights of the blocks sent increase, whatever dashd does to its chain.
THEOREM ScanIsOrdered == Spec => []HeightsIncrease
  <1>1. IInv => HeightsIncrease
    BY DEF IInv, Ordered
  <1> QED
    BY <1>1, IInvAlways, PTL

\* The whole range has been sent when the scan is over and no block of it has
\* left the chain: every block with a transaction the client asked for.
RangeSent ==
  pc = "done" /\ ~ reorged =>
    \A h \in fromHeight..(fromHeight + count - 1) :
      MatchingIn(chain[h]) # {} => \E i \in DOMAIN sent : sent[i].block = chain[h]

\* No batch is left when the scan is over.
Over == pc \in {"memPool", "done"} => ~ MoreBatches(batchIndex)

\* What the scan promises when it ends (the iterator's loop, its last batch).
THEOREM ScanIsComplete == Spec => []RangeSent
  <1>1. Init => Over
    BY DEF Init, Over
  <1>2. Over /\ [Next]_vars => Over'
    <2> SUFFICES ASSUME Over, [Next]_vars PROVE Over'
      OBVIOUS
    <2> USE DEF Over, MoreBatches, Goto, range, scan, emitter, dashd
    <2>1. CASE Accept \/ FromHeight \/ FromBlock \/ BestBlockHeight \/ IteratorFromBlock \/ BatchHash
      BY <2>1 DEF Accept, FromHeight, FromBlock, BestBlockHeight, IteratorFromBlock, BatchHash
    <2>2. CASE MerkleBlocksOfBatch \/ SendMerkleBlock
      BY <2>2 DEF MerkleBlocksOfBatch, SendMerkleBlock, NextMerkleBlock
    <2>3. CASE \E tx \in Tx : FetchTransaction(tx) \/ MempoolChanges(tx) \/ LiveTest(tx)
      BY <2>3 DEF FetchTransaction, MempoolChanges, LiveTest
    <2>4. CASE EndHistoricalStream \/ ReadMemPool
      BY <2>4 DEF EndHistoricalStream, ReadMemPool
    <2>5. CASE ReadMemPoolTransaction \/ TestMemPool \/ RpcFails
      BY <2>5 DEF ReadMemPoolTransaction, TestMemPool, RpcFails
    <2>6. CASE \E c \in Chains : Reorganise(c)
      BY <2>6 DEF Reorganise
    <2>7. CASE UNCHANGED vars
      BY <2>7 DEF vars
    <2> QED
      BY <2>1, <2>2, <2>3, <2>4, <2>5, <2>6, <2>7 DEF Next, HandlerStep
  <1>3. IInv /\ Over => RangeSent
    BY DEF IInv, Over, HistoryExact, ScannedTo, RangeSent, BatchRead, History, ToSet, Iterating
  <1> QED
    BY <1>1, <1>2, <1>3, IInvAlways, PTL DEF Spec

---------------------------------------------------------------------------
(***************************************************************************)
(* The filter follows the client's transactions.  Next to the client's own   *)
(* items it holds only outpoints, and of each test so far the watched output.*)
(***************************************************************************)
IsClientFilter(f) ==
  /\ f = [items |-> f.items, flag |-> ClientFlag]
  /\ ClientItems \subseteq f.items
  /\ f.items \subseteq ClientItems \cup (Tx \X Nat)

Remembered(f, t) ==
  \A i \in DOMAIN t : \A k \in DOMAIN Outputs[t[i].tx] :
    Watches(t[i].tx, k) => <<t[i].tx, k>> \in f.items

Followed(t) ==
  \A i, j \in DOMAIN t : \A k \in DOMAIN Outputs[t[i].tx] :
    i < j /\ Watches(t[i].tx, k) /\ Spends(t[j].tx, t[i].tx, k) => t[j].match

Tests == [tx : Tx, match : BOOLEAN]

Carried(f, t) == IsClientFilter(f) /\ t \in Seq(Tests) /\ Remembered(f, t) /\ Followed(t)

EmitterInv == Carried(filter, tested)

\* A set of numbers has a least one: the sets of the numbers up to each have a
\* least one.
LEMMA LeastNumber ==
  ASSUME NEW S, S \subseteq Nat, S # {}
  PROVE  \E n \in S : \A m \in S : n <= m
  <1> DEFINE T == {0..n : n \in S}
  <1>1. T \subseteq FiniteSubsetsOf(Nat)
    <2>1. ASSUME NEW n \in S PROVE 0..n \in SUBSET Nat /\ IsFiniteSet(0..n)
      BY FS_Interval
    <2> QED
      BY <2>1 DEF FiniteSubsetsOf
  <1>2. T # {}
    OBVIOUS
  <1>3. IsWellFoundedOn(StrictSubsetOrdering(Nat), FiniteSubsetsOf(Nat))
    BY FS_StrictSubsetOrderingWellFounded
  <1>4. PICK x \in T : \A y \in T : ~ (<<y, x>> \in StrictSubsetOrdering(Nat))
    <2> HIDE DEF T
    <2> QED
      BY <1>1, <1>2, <1>3, WFMin
  <1>5. PICK n \in S : x = 0..n
    BY <1>4
  <1>6. ASSUME NEW m \in S PROVE n <= m
    <2>1. ~ (<<0..m, 0..n>> \in StrictSubsetOrdering(Nat))
      BY <1>4, <1>5
    <2>2. SUFFICES ASSUME m < n PROVE FALSE
      OBVIOUS
    <2>3. 0..m \subseteq 0..n /\ n \in 0..n /\ n \notin 0..m /\ 0..n \subseteq Nat
      BY <2>2
    <2> QED
      BY <2>1, <2>3, Zenon DEF StrictSubsetOrdering
  <1> QED
    BY <1>6

\* What one test does to the filter (checkOutputs inserts the first output that
\* matches): it stays the client's, only grows, and holds the watched output.
LEMMA OneTestFilter ==
  ASSUME NEW f, IsClientFilter(f), NEW tx \in Tx
  PROVE  /\ IsClientFilter(FilterAfter(f, tx))
         /\ f.items \subseteq FilterAfter(f, tx).items
         /\ \A k \in DOMAIN Outputs[tx] : Watches(tx, k) => <<tx, k>> \in FilterAfter(f, tx).items
  <1> DEFINE g     == FilterAfter(f, tx)
             first == FirstMatchingOutput(f, tx)
             M     == MatchingOutputs(f, tx)
  <1>1. M \subseteq DOMAIN Outputs[tx] /\ M \subseteq Nat
    BY OutputsAssumption DEF MatchingOutputs
  <1>2. M # {} => first \in M /\ \A k \in M : first <= k
    <2>1. SUFFICES ASSUME M # {} PROVE first \in M /\ \A k \in M : first <= k
      OBVIOUS
    <2> HIDE DEF M
    <2>2. \E n \in M : \A k \in M : n <= k
      BY <1>1, <2>1, LeastNumber
    <2>3. first = CHOOSE n \in M : \A k \in M : n <= k
      BY Zenon DEF FirstMatchingOutput, Min, M
    <2> QED
      BY <2>2, <2>3
  <1>3. \/ g = f
        \/ g = Insert(f, <<tx, first>>) /\ M # {}
    BY DEF FilterAfter
  <1> HIDE DEF g, first, M
  <1>4. Insert(f, <<tx, first>>) = [items |-> f.items \cup {<<tx, first>>}, flag |-> ClientFlag]
    BY DEF Insert, IsClientFilter
  <1>5. IsClientFilter(g) /\ f.items \subseteq g.items
    <2>1. CASE g = f
      BY <2>1
    <2>2. CASE g = Insert(f, <<tx, first>>) /\ M # {}
      <3>1. <<tx, first>> \in Tx \X Nat
        BY <1>1, <1>2, <2>2
      <3>2. g.items = f.items \cup {<<tx, first>>} /\ g = [items |-> g.items, flag |-> ClientFlag]
        BY <1>4, <2>2
      <3> QED
        BY <3>1, <3>2 DEF IsClientFilter
    <2> QED
      BY <1>3, <2>1, <2>2
  <1>6. ASSUME NEW k \in DOMAIN Outputs[tx], Watches(tx, k)
        PROVE  <<tx, k>> \in g.items
    <2>1. ~ CheckHash(f, tx)
      BY <1>6, HashAssumption DEF CheckHash, Watches, IsClientFilter
    <2>2. k \in M
      BY <1>6 DEF M, MatchingOutputs, FilterContainsScript, Watches, IsClientFilter
    <2>3. \A n \in M : ~ n < k
      BY <1>6 DEF M, MatchingOutputs, FilterContainsScript, Watches, IsClientFilter
    <2>4. first = k
      <3>1. first \in M /\ first <= k
        BY <1>2, <2>2
      <3>2. ~ first < k
        BY <2>3, <3>1
      <3>3. first \in Nat /\ k \in Nat
        BY <1>1, <2>2, <3>1
      <3> HIDE DEF first
      <3> QED
        BY <3>1, <3>2, <3>3
    <2>5. IsFilterUpdateNeeded(f, Outputs[tx][k])
      <3>1. f.flag = ClientFlag
        BY DEF IsClientFilter
      <3> QED
        BY <1>6, <3>1 DEF IsFilterUpdateNeeded, Watches
    <2>6. g = Insert(f, <<tx, k>>)
      BY <2>1, <2>2, <2>4, <2>5 DEF FilterAfter, g, first, M
    <2> QED
      BY <2>4, <2>6, <1>4
  <1> QED
    BY <1>5, <1>6 DEF g

\* A test has a result.
LEMMA TestType ==
  ASSUME NEW f, NEW tx \in Tx
  PROVE  Test(f, tx) \in Tests /\ Test(f, tx).tx = tx /\ Test(f, tx).match = TestTransaction(f, tx)
  <1>1. TestTransaction(f, tx) \in BOOLEAN
    BY Zenon DEF TestTransaction
  <1> QED
    BY <1>1 DEF Test, Tests

\* One more test carries the invariant on.
LEMMA OneTest ==
  ASSUME NEW f, NEW t, Carried(f, t), NEW tx \in Tx
  PROVE  Carried(FilterAfter(f, tx), Append(t, Test(f, tx)))
  <1> DEFINE g == FilterAfter(f, tx)
             x == Test(f, tx)
             u == Append(t, x)
  <1>1. IsClientFilter(f) /\ t \in Seq(Tests) /\ Remembered(f, t) /\ Followed(t)
    BY DEF Carried
  <1>2. /\ IsClientFilter(g) /\ f.items \subseteq g.items
        /\ \A k \in DOMAIN Outputs[tx] : Watches(tx, k) => <<tx, k>> \in g.items
    BY <1>1, OneTestFilter
  <1>3. x \in Tests /\ x.tx = tx /\ x.match = TestTransaction(f, tx)
    BY TestType
  <1> HIDE DEF g, x
  <1>4. /\ u \in Seq(Tests) /\ Len(t) \in Nat /\ Len(u) = Len(t) + 1
        /\ DOMAIN t = 1..Len(t) /\ DOMAIN u = 1..(Len(t) + 1)
        /\ \A i \in 1..Len(t) : u[i] = t[i]
        /\ u[Len(t) + 1] = x
    BY <1>1, <1>3
  <1> HIDE DEF u
  <1>5. \A i \in DOMAIN u : (i \in DOMAIN t /\ u[i] = t[i]) \/ (i = Len(t) + 1 /\ u[i] = x)
    BY <1>4
  <1>6. Remembered(g, u)
    BY <1>1, <1>2, <1>3, <1>5 DEF Remembered
  <1>7. ASSUME NEW i \in DOMAIN u, NEW j \in DOMAIN u, i < j,
               NEW k \in DOMAIN Outputs[u[i].tx],
               Watches(u[i].tx, k), Spends(u[j].tx, u[i].tx, k)
        PROVE  u[j].match
    <2>1. i \in DOMAIN t /\ u[i] = t[i]
      BY <1>4, <1>7
    <2>2. CASE j \in DOMAIN t
      BY <1>1, <1>4, <1>7, <2>1, <2>2 DEF Followed
    <2>3. CASE j = Len(t) + 1
      <3>1. <<u[i].tx, k>> \in f.items
        BY <1>1, <1>7, <2>1 DEF Remembered
      <3>2. CheckInputs(f, tx)
        BY <1>3, <1>4, <1>7, <2>3, <3>1 DEF CheckInputs, Spends
      <3> QED
        BY <1>3, <1>4, <2>3, <3>2 DEF TestTransaction
    <2> QED
      BY <1>5, <2>2, <2>3
  <1>8. Followed(u)
    BY <1>7 DEF Followed
  <1> QED
    BY <1>2, <1>4, <1>6, <1>8 DEF Carried, g, u, x

\* The tests of a mempool read: the recursive function they are defined with
\* exists (the least position up to which none does would be no such position),
\* starts with the filter and makes one test at each position.
LEMMA FiltersAlongSteps ==
  ASSUME NEW order \in Seq(Tx)
  PROVE  LET g == FiltersAlong(order)
         IN  /\ g[1] = filter
             /\ \A i \in 1..Len(order) : g[i + 1] = FilterAfter(g[i], order[i])
  <1> DEFINE Body(g, n) == [i \in 1..n |-> IF i = 1 THEN filter
                                           ELSE FilterAfter(g[i - 1], order[i - 1])]
             last == Len(order) + 1
             Bad  == {n \in 1..last : ~ \E g : g = Body(g, n)}
  <1>1. last \in Nat /\ last >= 1
    OBVIOUS
  <1>2. Bad = {}
    <2> SUFFICES ASSUME Bad # {} PROVE FALSE
      OBVIOUS
    <2>1. Bad \subseteq Nat
      BY <1>1
    <2>2. PICK n \in Bad : \A m \in Bad : n <= m
      <3> HIDE DEF Bad
      <3> QED
        BY <2>1, LeastNumber
    <2>3. n \in 1..last /\ ~ \E g : g = Body(g, n)
      BY <2>2
    <2>4. CASE n = 1
      <3> DEFINE g == [i \in 1..1 |-> filter]
      <3>1. g = Body(g, 1)
        OBVIOUS
      <3> QED
        BY <2>3, <2>4, <3>1
    <2>5. CASE n # 1
      <3>1. n - 1 \in 1..last /\ n - 1 \notin Bad
        BY <1>1, <2>2, <2>3, <2>5
      <3>2. PICK h : h = Body(h, n - 1)
        BY <3>1
      <3> DEFINE g == [i \in 1..n |-> IF i = n THEN FilterAfter(h[n - 1], order[n - 1]) ELSE h[i]]
      <3>3. ASSUME NEW i \in 1..n
            PROVE  g[i] = IF i = 1 THEN filter ELSE FilterAfter(g[i - 1], order[i - 1])
        <4>1. CASE i = n
          BY <4>1, <2>3, <2>5, <1>1
        <4>2. CASE i # n
          <5>1. i \in 1..(n - 1)
            BY <4>2, <2>3, <1>1
          <5>2. h[i] = IF i = 1 THEN filter ELSE FilterAfter(h[i - 1], order[i - 1])
            BY <3>2, <5>1, Zenon
          <5>3. g[i] = h[i] /\ (i # 1 => g[i - 1] = h[i - 1])
            BY <4>2, <5>1, <2>3, <1>1
          <5> QED
            BY <5>2, <5>3
        <4> QED
          BY <4>1, <4>2
      <3>4. g = Body(g, n)
        BY <3>3, Zenon
      <3> QED
        BY <2>3, <3>4, Zenon
    <2> QED
      BY <2>4, <2>5
  <1>3. \E g : g = Body(g, last)
    BY <1>1, <1>2
  <1> DEFINE G == FiltersAlong(order)
  <1>4. G = CHOOSE g : g = Body(g, last)
    BY Zenon DEF FiltersAlong
  <1>5. G = Body(G, last)
    <2> HIDE DEF G, last
    <2> QED
      BY <1>3, <1>4, Zenon
  <1> HIDE DEF G
  <1>6. \A i \in 1..last : G[i] = IF i = 1 THEN filter ELSE FilterAfter(G[i - 1], order[i - 1])
    BY <1>5, Zenon
  <1>7. ASSUME NEW i \in 1..Len(order)
        PROVE  G[i + 1] = FilterAfter(G[i], order[i])
    <2>1. i + 1 \in 1..last /\ i + 1 # 1 /\ (i + 1) - 1 = i
      OBVIOUS
    <2> QED
      BY <1>6, <2>1
  <1> QED
    BY <1>1, <1>6, <1>7 DEF G

\* Testing a mempool one by one carries the invariant on, by the same argument
\* on the number of tests made.
LEMMA ManyTests ==
  ASSUME EmitterInv, NEW order \in Seq(Tx)
  PROVE  LET g == FiltersAlong(order)
         IN  Carried(g[Len(order) + 1],
                     tested \o [i \in 1..Len(order) |-> Test(g[i], order[i])])
  <1> DEFINE g    == FiltersAlong(order)
             made(n) == tested \o [i \in 1..n |-> Test(g[i], order[i])]
             Bad  == {n \in 0..Len(order) : ~ Carried(g[n + 1], made(n))}
  <1>1. /\ g[1] = filter
        /\ \A i \in 1..Len(order) : g[i + 1] = FilterAfter(g[i], order[i])
    BY FiltersAlongSteps
  <1> HIDE DEF g
  <1>2. tested \in Seq(Tests) /\ Len(order) \in Nat
    BY DEF EmitterInv, Carried
  <1>3. Bad = {}
    <2> SUFFICES ASSUME Bad # {} PROVE FALSE
      OBVIOUS
    <2>1. Bad \subseteq Nat
      BY <1>2
    <2>2. PICK n \in Bad : \A m \in Bad : n <= m
      <3> HIDE DEF Bad
      <3> QED
        BY <2>1, LeastNumber
    <2>3. n \in 0..Len(order) /\ ~ Carried(g[n + 1], made(n))
      BY <2>2
    <2>4. CASE n = 0
      <3>1. made(0) = tested
        BY <1>2
      <3> QED
        BY <1>1, <2>3, <2>4, <3>1 DEF EmitterInv
    <2>5. CASE n # 0
      <3>1. n - 1 \in 0..Len(order) /\ n - 1 \notin Bad /\ n \in 1..Len(order)
        BY <1>2, <2>2, <2>3, <2>5
      <3>2. Carried(g[n], made(n - 1))
        BY <3>1
      <3>3. order[n] \in Tx /\ g[n + 1] = FilterAfter(g[n], order[n])
        BY <1>1, <3>1
      <3>4. made(n) = Append(made(n - 1), Test(g[n], order[n]))
        <4> DEFINE x == Test(g[n], order[n])
                   a == [i \in 1..(n - 1) |-> Test(g[i], order[i])]
                   b == [i \in 1..n |-> Test(g[i], order[i])]
        <4>1. \A i \in 1..n : order[i] \in Tx
          BY <3>1
        <4>2. \A i \in 1..n : Test(g[i], order[i]) \in Tests
          BY <4>1, TestType
        <4>3. a \in Seq(Tests) /\ x \in Tests /\ b \in Seq(Tests) /\ b = Append(a, x)
          BY <4>2, <3>1
        <4> HIDE DEF a, b, x
        <4>4. tested \o Append(a, x) = Append(tested \o a, x)
          BY <1>2, <4>3
        <4> QED
          BY <4>3, <4>4 DEF a, b, x
      <3> HIDE DEF made
      <3> QED
        BY <2>3, <3>2, <3>3, <3>4, OneTest
    <2> QED
      BY <2>4, <2>5
  <1>4. Carried(g[Len(order) + 1], made(Len(order)))
    <2>1. Len(order) \in 0..Len(order)
      BY <1>2
    <2>2. Len(order) \notin Bad
      <3> HIDE DEF Bad
      <3> QED
        BY <1>3
    <2> HIDE DEF made
    <2> QED
      BY <2>1, <2>2, Zenon
  <1> QED
    BY <1>4 DEF g

\* The clients' spends are followed: whatever is tested, in whichever order
\* (testTransactionAgainstFilter, called for notifications and mempool reads).
THEOREM SpendsAreFollowed == Spec => []SpendFollowed
  <1>1. Init => EmitterInv
    BY FlagAssumption DEF Init, EmitterInv, Carried, IsClientFilter, Remembered, Followed
  <1>2. IInv /\ EmitterInv /\ [Next]_vars => EmitterInv'
    <2> SUFFICES ASSUME IInv, EmitterInv, [Next]_vars PROVE EmitterInv'
      OBVIOUS
    <2>1. CASE \E tx \in Tx : LiveTest(tx)
      <3>1. PICK tx \in Tx : LiveTest(tx)
        BY <2>1
      <3>2. filter' = FilterAfter(filter, tx) /\ tested' = Append(tested, Test(filter, tx))
        BY <3>1 DEF LiveTest
      <3> QED
        BY <3>2, OneTest DEF EmitterInv
    <2>2. CASE TestMemPool
      <3>1. /\ filter' = FiltersAlong(ids)[Len(ids) + 1]
            /\ tested' = tested \o [i \in 1..Len(ids) |-> Test(FiltersAlong(ids)[i], ids[i])]
        BY <2>2 DEF TestMemPool
      <3>2. ids \in Seq(Tx)
        BY DEF IInv, TypeOK
      <3>3. Carried(filter', tested')
        BY <3>1, <3>2, ManyTests, Zenon
      <3> QED
        BY <3>3 DEF EmitterInv
    <2>3. CASE UNCHANGED emitter
      BY <2>3 DEF emitter, EmitterInv
    <2>4. \/ \E tx \in Tx : LiveTest(tx)
          \/ TestMemPool
          \/ UNCHANGED emitter
      BY DEF Next, HandlerStep, vars, Accept, FromHeight, FromBlock, BestBlockHeight,
             IteratorFromBlock, BatchHash, MerkleBlocksOfBatch, FetchTransaction,
             SendMerkleBlock, EndHistoricalStream, ReadMemPool, ReadMemPoolTransaction,
             RpcFails, Reorganise, MempoolChanges
    <2> QED
      BY <2>1, <2>2, <2>3, <2>4
  <1>3. EmitterInv => SpendFollowed
    BY DEF EmitterInv, Carried, Followed, SpendFollowed
  <1> QED
    BY <1>1, <1>2, <1>3, IInvAlways, PTL DEF Spec

================================================================================
