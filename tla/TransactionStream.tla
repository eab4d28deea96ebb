-------------------------- MODULE TransactionStream --------------------------
(***************************************************************************)
(* One call of subscribeToTransactionsWithProofs, from the request to the   *)
(* client's disconnection, against the dashd node it reads from:            *)
(*   - the handler (grpcServer/handlers/tx-filter-stream/                   *)
(*     subscribeToTransactionsWithProofsHandlerFactory.js): one action per  *)
(*     stretch of code between two awaits;                                  *)
(*   - the listeners and the sending loop of subscribeToNewTransactions.js, *)
(*     which share the handler's event loop: each runs to completion        *)
(*     between any two actions of the handler;                              *)
(*   - dashd and its ZMQ socket, the environment: a chain that only grows,  *)
(*     a mempool, and a FIFO of notifications.  dashd announces a           *)
(*     transaction when it enters the mempool and again when a block that   *)
(*     holds it is connected, before it announces the block.                *)
(*                                                                          *)
(* Blocks are named by their height.  The stream is the sequence of         *)
(* responses written to the client: `live` tells what the loop and the lock *)
(* listener wrote from what the historical phase wrote.                     *)
(***************************************************************************)
EXTENDS TransactionHashesCache, FiniteSets

CONSTANTS Tx,            \* transactions
          Matching,      \* those that match the client's bloom filter
          Requests,      \* requests a client may make: [count, from] records
          Disturbances,  \* what may interfere with the call (see Disturbance)
          MaxHeight,     \* bound: blocks in the chain
          MaxLocks       \* bound: instant locks published

\* An RPC of the call may fail, its client may cancel it, another call may test
\* the mempool it read on this call's filter.
Disturbance == {"rpcFails", "cancel", "otherCall"}

ASSUME TxAssumption == IsFiniteSet(Tx)
ASSUME MatchingAssumption == Matching \subseteq Tx
ASSUME RequestsAssumption ==
  Requests \subseteq [count : Nat, from : {"hash", "height", "none"}]
ASSUME DisturbancesAssumption == Disturbances \subseteq Disturbance
ASSUME BoundsAssumption == MaxHeight \in Nat \ {0} /\ MaxLocks \in Nat

VARIABLES
  chain, mempool, locked, zmq,     \* dashd: blocks, mempool, locks published, FIFO
  pc, request, next, last,         \* the handler; heights the iterator has to scan
  snapshot, otherSnapshot,         \* replies of getMemPoolTransactions not yet tested
  cache, looping,                  \* subscribeToNewTransactions: cache, sending loop
  connected,                       \* isClientConnected
  attached, collected,             \* filterEmitter: has its listeners; in the collection
  relaying,                        \* mediator: has the listeners that write responses
  cancelled, listening,            \* the client's cancel; is call.on('cancelled') set?
  stream                           \* responses written to the client

dashd   == <<chain, mempool, locked, zmq>>
handler == <<pc, request, next, last, snapshot>>
links   == <<connected, attached, collected, relaying>>
session == <<cache, links, looping>>
client  == <<cancelled, listening>>
vars    == <<dashd, handler, otherSnapshot, session, client, stream>>

IsNew == request.count = 0

Block(h) == [hash |-> h, txs |-> chain[h]]

Mined == UNION {chain[h] : h \in DOMAIN chain}

Init ==
  /\ chain = <<{}>> /\ mempool = {} /\ locked = {} /\ zmq = << >>
  /\ pc = "accept" /\ request \in Requests /\ next = 1 /\ last = 0
  /\ snapshot = {} /\ otherSnapshot = {}
  /\ cache = EmptyCache /\ looping = FALSE
  /\ connected = FALSE /\ attached = FALSE /\ collected = FALSE /\ relaying = FALSE
  /\ cancelled = FALSE /\ listening = FALSE
  /\ stream = << >>

---------------------------------------------------------------------------
(***************************************************************************)
(* dashd                                                                    *)
(***************************************************************************)
RawTx(tx)   == [topic |-> "rawtx", item |-> tx]
RawBlock(h) == [topic |-> "rawblock", item |-> h]
RawLock(tx) == [topic |-> "rawtxlocksig", item |-> tx]

EnterMempool(tx) ==
  /\ tx \notin mempool \cup Mined
  /\ mempool' = mempool \cup {tx}
  /\ zmq' = Append(zmq, RawTx(tx))
  /\ UNCHANGED <<chain, locked, handler, otherSnapshot, session, client, stream>>

MineBlock(txs) ==
  /\ Len(chain) < MaxHeight
  /\ txs \cap Mined = {}
  /\ chain' = Append(chain, txs)
  /\ mempool' = mempool \ txs
  /\ \E order \in SetToSeqs(txs) :
       zmq' = zmq \o [i \in DOMAIN order |-> RawTx(order[i])] \o <<RawBlock(Len(chain'))>>
  /\ UNCHANGED <<locked, handler, otherSnapshot, session, client, stream>>

LockTransaction(tx) ==
  /\ tx \in (mempool \cup Mined) \ locked
  /\ Cardinality(locked) < MaxLocks
  /\ locked' = locked \cup {tx}
  /\ zmq' = Append(zmq, RawLock(tx))
  /\ UNCHANGED <<chain, mempool, handler, otherSnapshot, session, client, stream>>

---------------------------------------------------------------------------
(***************************************************************************)
(* What is written to the client.  An empty message stands for no call of   *)
(* write.                                                                   *)
(***************************************************************************)
Transactions(txs, live) ==
  IF txs = {} THEN << >> ELSE <<[type |-> "transactions", items |-> txs, live |-> live]>>
Locks(txs) ==
  IF txs = {} THEN << >> ELSE <<[type |-> "locks", items |-> txs, live |-> TRUE]>>
Proofs(hs, live) ==
  IF hs = {} THEN << >> ELSE <<[type |-> "proofs", items |-> hs, live |-> live]>>

\* (A definition set before another and not used here is a bug that
\* PROJECT.json puts in its place.)  The merkle blocks are sent first.
TurnWritesProofsFirst(c) ==
  Proofs({m.hash : m \in UnretrievedMerkleBlocks(c)}, TRUE)
  \o Transactions(UnretrievedTransactions(c), TRUE)
  \o Locks({tx \in c.unretrievedInstantLocks : IsInInstantLockCache(c, tx)})

\* The waiting list is tested the wrong way round.
TurnWritesUnwaitedLocks(c) ==
  Transactions(UnretrievedTransactions(c), TRUE)
  \o Locks({tx \in c.unretrievedInstantLocks : ~ IsInInstantLockCache(c, tx)})
  \o Proofs({m.hash : m \in UnretrievedMerkleBlocks(c)}, TRUE)

(***************************************************************************)
(* One turn of the sending loop on the cache c: transactions, then the      *)
(* collected locks of waiting transactions, then merkle blocks.             *)
(***************************************************************************)
TurnWrites(c) ==
  Transactions(UnretrievedTransactions(c), TRUE)
  \o Locks({tx \in c.unretrievedInstantLocks : IsInInstantLockCache(c, tx)})
  \o Proofs({m.hash : m \in UnretrievedMerkleBlocks(c)}, TRUE)

\* What the loop and the lock listener emit on the mediator is written to the
\* client by the mediator's listeners, and lost without them.
Relay(messages) == IF relaying THEN messages ELSE << >>

TurnLeaves(c) == RetrieveMerkleBlocks(RetrieveInstantLocks(RetrieveTransactions(c)))

---------------------------------------------------------------------------
(***************************************************************************)
(* The handler                                                              *)
(***************************************************************************)

\* Up to the first await: the mediator gets its listeners, a call for new
\* transactions subscribes, a request that names no block is refused.
Accept ==
  /\ pc = "accept"
  /\ relaying' = TRUE
  /\ connected' = IsNew /\ attached' = IsNew /\ collected' = IsNew
  /\ pc' = CASE request.from = "hash"   -> "getBlock"
             [] request.from = "height" -> "getBlockHash"
             [] request.from = "none"   -> "failed"
  /\ UNCHANGED <<dashd, request, next, last, snapshot, otherSnapshot,
                 cache, looping, client, stream>>

GetBlockHash ==
  /\ pc = "getBlockHash"
  /\ pc' = "getBlock"
  /\ UNCHANGED <<dashd, request, next, last, snapshot, otherSnapshot,
                 session, client, stream>>

GetBlock(h) ==
  /\ pc = "getBlock"
  /\ next' = h
  /\ pc' = "getBestBlockHeight"
  /\ UNCHANGED <<dashd, request, last, snapshot, otherSnapshot, session, client, stream>>

\* Off by one either way.
HistoricalCountLong(from, count, best) ==
  IF count = 0 \/ from + count > best + 1 THEN best - from + 2 ELSE count
HistoricalCountShort(from, count, best) ==
  IF count = 0 \/ from + count > best + 1 THEN best - from ELSE count

\* historicalCount: everything up to the tip if count is 0 or reaches past it.
HistoricalCount(from, count, best) ==
  IF count = 0 \/ from + count > best + 1 THEN best - from + 1 ELSE count

GetBestBlockHeight ==
  /\ pc = "getBestBlockHeight"
  /\ last' = next + HistoricalCount(next, request.count, Len(chain)) - 1
  /\ pc' = "iterate"
  /\ UNCHANGED <<dashd, request, next, snapshot, otherSnapshot, session, client, stream>>

MatchingBlocksLeft == {h \in next..last : chain[h] \cap Matching # {}}

\* The iterator yields the next block with matching transactions, which are sent.
SendHistoricalTransactions ==
  /\ pc = "iterate"
  /\ \E h \in MatchingBlocksLeft :
       /\ \A other \in MatchingBlocksLeft : h <= other
       /\ next' = h
       /\ stream' = stream \o Transactions(chain[h] \cap Matching, FALSE)
  /\ pc' = "sendHistoricalProof"
  /\ UNCHANGED <<dashd, request, last, snapshot, otherSnapshot, session, client>>

SendHistoricalProof ==
  /\ pc = "sendHistoricalProof"
  /\ stream' = stream \o Proofs({next}, FALSE)
  /\ pc' = "historicalBlockSent"
  /\ UNCHANGED <<dashd, request, next, last, snapshot, otherSnapshot, session, client>>

\* The proof's write is acknowledged: HISTORICAL_BLOCK_SENT prunes the cache.
HistoricalBlockSent ==
  /\ pc = "historicalBlockSent"
  /\ cache' = IF IsNew THEN RemoveDataByBlockHash(cache, next) ELSE cache
  /\ next' = next + 1
  /\ pc' = "iterate"
  /\ UNCHANGED <<dashd, request, last, snapshot, otherSnapshot,
                 links, looping, client, stream>>

\* Only historical data was asked for: call.end(), then call.on('cancelled').
EndHistoricalStream ==
  /\ pc = "iterate" /\ MatchingBlocksLeft = {} /\ ~ IsNew
  /\ pc' = "ended"
  /\ listening' = TRUE
  /\ UNCHANGED <<dashd, request, next, last, snapshot, otherSnapshot,
                 session, cancelled, stream>>

\* dashd answers getMemPoolTransactions ...
ReadMemPool ==
  /\ pc = "iterate" /\ MatchingBlocksLeft = {} /\ IsNew
  /\ snapshot' = mempool
  /\ pc' = "memPoolRead"
  /\ UNCHANGED <<dashd, request, next, last, otherSnapshot, session, client, stream>>

\* ... and the handler tests the answer, emits MEMPOOL_DATA_SENT, whose
\* listener switches the lock listeners and runs the loop's first turn, and
\* registers call.on('cancelled'), all without an await.
MemPoolDataSent ==
  /\ pc = "memPoolRead"
  /\ LET tested == AddTransactions(cache, snapshot \cap Matching)
     IN  /\ stream' = stream \o Relay(TurnWrites(tested))
         /\ cache' = TurnLeaves(tested)
  /\ looping' = TRUE
  /\ listening' = TRUE
  /\ snapshot' = {}
  /\ pc' = "streaming"
  /\ UNCHANGED <<dashd, request, next, last, otherSnapshot, links, cancelled>>

\* An awaited RPC rejects, or the block asked for is not in the best chain:
\* the handler throws and the error handler answers the call.
RpcFails ==
  /\ "rpcFails" \in Disturbances
  /\ pc \in {"getBlockHash", "getBlock", "getBestBlockHeight", "iterate", "memPoolRead"}
  /\ pc' = "failed"
  /\ UNCHANGED <<dashd, request, next, last, snapshot, otherSnapshot,
                 session, client, stream>>

HandlerStep ==
  \/ Accept
  \/ GetBlockHash
  \/ \E h \in DOMAIN chain : GetBlock(h)
  \/ GetBestBlockHeight
  \/ SendHistoricalTransactions
  \/ SendHistoricalProof
  \/ HistoricalBlockSent
  \/ EndHistoricalStream
  \/ ReadMemPool
  \/ MemPoolDataSent

---------------------------------------------------------------------------
(***************************************************************************)
(* subscribeToNewTransactions: the listeners on ZMQ events and the loop.    *)
(* They hear of an event while the collection has the emitter and the       *)
(* emitter has them.                                                        *)
(***************************************************************************)
Hearing == collected /\ attached

Take(topic) ==
  /\ zmq # << >>
  /\ Head(zmq).topic = topic
  /\ zmq' = Tail(zmq)
  /\ UNCHANGED <<chain, mempool, locked, handler, otherSnapshot, links, looping, client>>

OnRawTransaction ==
  /\ Take("rawtx")
  /\ cache' = IF Hearing /\ Head(zmq).item \in Matching
              THEN AddTransaction(cache, Head(zmq).item)
              ELSE cache
  /\ UNCHANGED stream

\* No transaction of the block is tested.
BlockListenerUntested(c, block) == AddBlock(c, block)

\* With no block cached the transactions of the block are tested first.
BlockListener(c, block) ==
  LET tested == IF GetBlockCount(c) = 0
                THEN AddTransactions(c, block.txs \cap Matching)
                ELSE c
  IN  AddBlock(tested, block)

OnRawBlock ==
  /\ Take("rawblock")
  /\ cache' = IF Hearing THEN BlockListener(cache, Block(Head(zmq).item)) ELSE cache
  /\ UNCHANGED stream

\* Before MEMPOOL_DATA_SENT locks are collected ...
CollectInstantLock ==
  /\ pc # "streaming"
  /\ Take("rawtxlocksig")
  /\ cache' = IF Hearing /\ Head(zmq).item \in Matching
              THEN AddInstantLock(cache, Head(zmq).item)
              ELSE cache
  /\ UNCHANGED stream

\* ... and after it sent at once, for transactions that wait for one.
SendInstantLock ==
  /\ pc = "streaming"
  /\ Take("rawtxlocksig")
  /\ LET tx == Head(zmq).item
     IN  IF Hearing /\ IsInInstantLockCache(cache, tx)
         THEN /\ cache' = RemoveFromWaitingList(cache, tx)
              /\ stream' = stream \o Relay(Locks({tx}))
         ELSE UNCHANGED <<cache, stream>>

ZmqStep == OnRawTransaction \/ OnRawBlock \/ CollectInstantLock \/ SendInstantLock

\* The loop tests isClientConnected when its timer fires: it takes a turn ...
LoopTurn ==
  /\ looping /\ connected
  /\ stream' = stream \o Relay(TurnWrites(cache))
  /\ cache' = TurnLeaves(cache)
  /\ UNCHANGED <<dashd, handler, otherSnapshot, links, looping, client>>

\* ... or is over.
LoopEnds ==
  /\ looping /\ ~ connected
  /\ looping' = FALSE
  /\ UNCHANGED <<dashd, handler, otherSnapshot, cache, links, client, stream>>

Loop == LoopTurn \/ LoopEnds

---------------------------------------------------------------------------
(***************************************************************************)
(* Another call of the handler tests the mempool it read on every emitter   *)
(* of the collection, this client's included.                               *)
(***************************************************************************)
OtherReadsMemPool ==
  /\ "otherCall" \in Disturbances
  /\ otherSnapshot = {} /\ mempool # {}
  /\ otherSnapshot' = mempool
  /\ UNCHANGED <<dashd, handler, session, client, stream>>

OtherTestsMemPool ==
  /\ otherSnapshot # {}
  /\ cache' = IF Hearing THEN AddTransactions(cache, otherSnapshot \cap Matching) ELSE cache
  /\ otherSnapshot' = {}
  /\ UNCHANGED <<dashd, handler, links, looping, client, stream>>

\* isClientConnected is not reset: the listeners are gone, the loop runs on.
ClientDisconnectedLooping ==
  /\ relaying' = FALSE /\ attached' = FALSE
  /\ collected' = FALSE
  /\ UNCHANGED connected

\* The listener of CLIENT_DISCONNECTED: the loop is told, the listeners of the
\* mediator and of the emitter removed, the emitter taken out of the collection.
ClientDisconnected ==
  /\ connected' = FALSE
  /\ relaying' = FALSE /\ attached' = FALSE
  /\ collected' = FALSE

\* 'cancelled' fires once; CLIENT_DISCONNECTED follows only if the handler
\* has registered its listener by then, and is heard only if the call subscribed.
Cancel ==
  /\ "cancel" \in Disturbances
  /\ ~ cancelled /\ pc # "accept"
  /\ cancelled' = TRUE
  /\ IF listening /\ IsNew THEN ClientDisconnected ELSE UNCHANGED links
  /\ UNCHANGED <<dashd, handler, otherSnapshot, cache, looping, listening, stream>>

Environment ==
  \/ \E tx \in Tx : EnterMempool(tx) \/ LockTransaction(tx)
  \/ \E txs \in SUBSET Tx : MineBlock(txs)
  \/ OtherReadsMemPool
  \/ OtherTestsMemPool
  \/ Cancel

Next ==
  \/ Environment
  \/ HandlerStep
  \/ RpcFails
  \/ ZmqStep
  \/ Loop

Spec == Init /\ [][Next]_vars

(***************************************************************************)
(* RPC calls are answered and writes acknowledged, ZMQ messages are handed  *)
(* over, and the 50 ms timer of the loop fires.  Nothing makes dashd or the *)
(* client act.                                                              *)
(***************************************************************************)
Fairness ==
  /\ WF_vars(HandlerStep)
  /\ WF_vars(ZmqStep)
  /\ WF_vars(Loop)

FairSpec == Spec /\ Fairness

---------------------------------------------------------------------------
(***************************************************************************)
(* Properties                                                               *)
(***************************************************************************)
MatchingIn(h) == chain[h] \cap Matching

Sent(type, s) == UNION {s[i].items : i \in {j \in DOMAIN s : s[j].type = type}}

Started == pc \notin {"accept", "getBlockHash", "getBlock", "failed"}

TypeOK ==
  /\ chain \in Seq(SUBSET Tx) /\ mempool \subseteq Tx \ Mined
  /\ locked \subseteq Tx
  /\ pc \in {"accept", "getBlockHash", "getBlock", "getBestBlockHeight", "iterate",
             "sendHistoricalProof", "historicalBlockSent", "memPoolRead",
             "streaming", "ended", "failed"}
  /\ next \in 1..(Len(chain) + 1) /\ last \in 0..Len(chain)
  /\ snapshot \cup otherSnapshot \subseteq Tx
  /\ DOMAIN cache.transactions \subseteq Matching
  /\ {connected, attached, collected, relaying, looping, listening} \subseteq BOOLEAN
  /\ collected => IsNew
  /\ looping => listening

\* A client that reads a block's proof has already read every transaction of
\* the block that matches its filter, whichever of the historical phase and
\* the loop sent either (the loop's order, HISTORICAL_BLOCK_SENT, eviction).
ProofFollowsTransactions ==
  \A i \in {j \in DOMAIN stream : stream[j].type = "proofs"} :
    \A h \in stream[i].items :
      MatchingIn(h) \subseteq Sent("transactions", SubSeq(stream, 1, i - 1))

\* A merkle block built from ZMQ notifications proves all the matching
\* transactions of its block, also of a block whose transactions were
\* announced before the emitter was in the collection (the 'block' listener's
\* test of the first block, addBlock's flags).
CachedProofsComplete ==
  \A m \in ToSet(cache.merkleBlocks) : m.matched = MatchingIn(m.hash)

\* Nothing is sent twice after the historical phase, although a transaction
\* may be announced on entering the mempool, on being mined, and by each
\* mempool read (addTransaction's isAdded, the isRetrieved flags, the clearing
\* of the collected locks).  It takes a cache that evicts nothing, or no other
\* call: a mempool read before an eviction brings back what was evicted.
LiveAtMostOnce ==
  \A i, j \in {k \in DOMAIN stream : stream[k].live} :
    i < j /\ stream[i].type = stream[j].type => stream[i].items \cap stream[j].items = {}

\* The lock of a transaction may overtake it (the lock listener writes at
\* once, the transaction waits for the loop), but the transaction is then
\* still cached and not lost: as long as nothing unsent is evicted, locks are
\* sent only for transactions the client has or will get (the waiting list
\* outlived by `transactions`).
LockedIsKnown ==
  Sent("locks", stream) \subseteq Sent("transactions", stream) \cup DOMAIN cache.transactions

\* What the cache marks as retrieved was written to the client.  The getters
\* mark before the mediator's listeners write, and the client's disconnection
\* takes the listeners away between two turns of the loop: a turn after it
\* would mark what nobody relays (isClientConnected, removeAllListeners).
RetrievedWasSent ==
  /\ \A tx \in DOMAIN cache.transactions :
       cache.transactions[tx] => tx \in Sent("transactions", stream)
  /\ \A m \in ToSet(cache.merkleBlocks) : m.isRetrieved => m.hash \in Sent("proofs", stream)

GaveUp == cancelled \/ pc = "failed"

InScope(h) ==
  /\ Started /\ h \in DOMAIN chain /\ h >= next
  /\ collected \/ h <= last

\* No gap between history, mempool and notifications: a matching transaction
\* of the requested history, of the mempool, or mined later reaches the client
\* (subscription before getBestBlockHeight, mempool read after the history).
TransactionsDelivered ==
  \A tx \in Matching :
    (\/ collected /\ tx \in mempool
     \/ \E h \in 1..MaxHeight : InScope(h) /\ tx \in chain[h])
    ~> (tx \in Sent("transactions", stream) \/ GaveUp)

\* ... and so does the proof of every block with a matching transaction.
ProofsDelivered ==
  \A h \in 1..MaxHeight :
    InScope(h) /\ MatchingIn(h) # {} ~> (h \in Sent("proofs", stream) \/ GaveUp)

\* A lock collected during the historical phase for a transaction that waits
\* for one is sent, unless the transaction ages out of the waiting list first.
CollectedLocksDelivered ==
  \A tx \in Matching :
    (/\ collected
     /\ tx \in cache.unretrievedInstantLocks
     /\ IsInInstantLockCache(cache, tx))
    ~> (\/ tx \in Sent("locks", stream)
        \/ ~ IsInInstantLockCache(cache, tx)
        \/ GaveUp)

\* The loop is said to run "until client is disconnected" and the emitter to
\* be removed then (subscribeToNewTransactions): a cancelled call leaves the
\* collection.
CancelCleansUp == cancelled ~> ~ collected

=============================================================================
