# A TLA+ model of DAPI

DAPI is the server through which light clients use a Dash masternode. It is
two Node.js processes: `scripts/api.js` (gRPC and JSON-RPC requests, answered
from dashd, Drive and Tenderdash) and `scripts/tx-filter-stream.js` (a stream
of the transactions that match a client's bloom filter, with merkle proofs and
instant locks). This directory models the parts that keep state over time and
whose behaviour depends on the order of events, and the request handlers, whose
answers depend on what the nodes do meanwhile.

## The system

| component | state | operations | speaks to |
|---|---|---|---|
| stream handler `subscribeToTransactionsWithProofsHandlerFactory.js` | the progress of a call through its awaits | subscribe, find the first block, scan the history, read the mempool, end, cancel | dashd RPC, mediator, client |
| subscription `subscribeToNewTransactions.js` | `isClientConnected`, which lock listener is set, the sending loop | listeners for `match`, `block`, `instantLock`, `HISTORICAL_BLOCK_SENT`, `MEMPOOL_DATA_SENT`, `CLIENT_DISCONNECTED` | cache, mediator, emitter collection |
| cache `TransactionHashesCache.js` | transactions, merkle blocks, blocks, instant lock waiting list, collected locks | add, remove, evict, age, retrieve | called by the subscription only |
| emitter collection `bloomFilter/emitter` | the set of subscribed emitters | add, remove, test, emit | fed by ZMQ and by every handler's mempool read |
| historical iterator `getHistoricalTransactionsIteratorFactory.js` | batch and block index | next | dashd RPC |
| filter test `testTransactionAgainstFilter.js` | the filter, which matching outputs modify | test | - |
| ZMQ client `dashcore/ZmqClient.js` | failure count | connect, monitor | dashd ZMQ |
| wait `waitForStateTransitionResultHandlerFactory.js`, `tenderdash/waitFor*` | per call: listener, RPC, timer, awaited height; one `currentHeight` for all | start, query, event, block, timeout, respond | Tenderdash RPC and events |
| Tenderdash listener and `WsClient.js` | socket, retries, subscriptions with counts | open, reconnect, subscribe, close | Tenderdash WebSocket |
| core handlers and JSON-RPC commands, `dashcore/rpc.js` | of one request: the RPCs awaited and what earlier ones brought | getBlock, getTransaction, getStatus, broadcastTransaction; getBestBlockHash, getBlockHash, getMnListDiff, generateToAddress | dashd RPC |
| platform handlers, `DriveClient.js`, `getConsensusParamsFactory.js`, `createGrpcErrorFromDriveResponse.js` | the same | five queries, broadcastStateTransition, getConsensusParams | Drive (through Tenderdash), Tenderdash |
| config, log | none, or set once | read once, write | - |

What is hard here. All code of a process runs on one event loop, so a stretch
of code between two awaits is atomic and everything else interleaves: ZMQ
notifications, other calls, timers, the client's cancellation. A stream
subscribes *before* it reads the history so that nothing falls between history
and notifications, and then has to take out of the cache what the history has
already sent. The cache is bounded. Locks may come before, with or after their
transactions. A wait races an event, an RPC, a block and a timer.

Each component's correctness, in a sentence: the *cache* keeps its bounds and
its two block arrays in step; the *stream* misses nothing, repeats nothing of
its live part, sends proofs after what they prove and locks only for what the
client has or gets; the *subscription* ends with its client; a *request* is
answered with what was true at some instant while it ran; the *wait*
answers every call, with its own transaction's result, when it is provable,
and leaves no listener behind; the *iterator* covers the range once; the
*filter* follows spending transactions; the *WebSocket client* keeps one
connection and all subscriptions. PROJECT.json lists the hazards line by line.

## Modules

| module | models | state and actions |
|---|---|---|
| `TransactionHashesCache` | the class, method by method | no variables: a record per cache, an operator per method |
| `CacheCalls` | one cache under any order of its listeners' calls | `cache`; `Match`, `BlockArrives`, `HistoricalBlockSent`, `CollectLock`, `SendLock`, `Drain` |
| `InstantLockWaitingList` | abstract: what the cache promises about locks | `age` of the waiting transactions; start, stop, a block goes by |
| `TransactionStream` | one call of the handler with its subscription, its loop, its ZMQ listeners, dashd, and another call's mempool test | `pc` and what the handler remembers, `cache`, `connected` (`isClientConnected`), `attached` (the emitter has its listeners), `collected` (it is in the collection), `relaying` (the mediator has the listeners that write), `looping`, `stream` (what was written) |
| `WaitForStateTransition` | calls of waitForStateTransitionResult | per call `query`, `result`, `answer`, listener, timer, `waitsFor`; shared `currentHeight`; two event streams |
| `RpcReply` | what the promise of an RPC settles with | no variables |
| `DashCore` | a dashd that reorganises, with one operator per RPC for what it answers now | `chain`, `known` (blocks it ever had), `mempool`; `SwitchChain`, `EnterMempool`, `LeaveMempool` |
| `Bip37Filter` | `testTransactionAgainstFilter.js` | no variables: a filter is a record of its items and its flag |
| `HistoricalScan` | the RPCs of one stream call, from the look-up of the first block to the mempool read, against `DashCore`, with the filter of `Bip37Filter` | `pc`, the range, the batch, `filter`, `sent`, `tested`; an action per RPC answer |
| `UnaryRequest` | the life of any other request | `request`, `awaiting`, `readings`, `answer`, `attempts`; `Receive`, `Await`, `Respond` |
| `CoreRequests` | the core handlers and the JSON-RPC server, on `DashCore` and `UnaryRequest` | an action per handler up to its first await, and one per reply; dashd's synchronisation |
| `PlatformRequests` | the platform handlers with the Drive client and the error mapping | the same, with Drive's objects, Tenderdash's cache and its height |
| `ApiRequests` | one request of any kind and both of the above | `right`: the answers of an ideal server since the request was sent |
| `WsClient` | the connection to Tenderdash, its retries and subscriptions, and the part of `api.js` that opens it | `client` (socket, timers, counters), `program`, `maxRetries`; `Connect`, `FirstOpen`, `OpenAgain`, `Refused`, `FatalError`, `Dropped`, `ClosedNormally`, `TimersFire` |
| `CacheMethods_proofs` | lemmas about the methods of `TransactionHashesCache`, for both of its users | - |
| `CacheCalls_proofs`, `CacheAlignment_proofs` | the theorems about `CacheCalls`; the second builds on the first | - |
| `TransactionStream_proofs` | the theorems about `TransactionStream` | - |
| `WaitForStateTransition_proofs`, `WsClient_proofs`, `HistoricalScan_proofs`, `ApiRequests_proofs` | the theorems about those modules | - |
| `MC*` | values for the constants | - |

`TransactionStream` and `CacheCalls` use the same operators of
`TransactionHashesCache`, so what is proved about them for every order of
calls holds for the orders that the stream produces. The order of the merkle
blocks inside one response says nothing, so `UnretrievedMerkleBlocks` is a set.

### The stream, action by action

`Accept` is the handler up to its first await: the emitter is in the
collection from here on if new transactions are asked for. `GetBlockHash`,
`GetBlock` and `GetBestBlockHeight` are the continuations of the three RPCs;
`HistoricalCount` is the clamp of `count`. The iterator is its result: the
matching blocks of the range in ascending order, each written as transactions
(`SendHistoricalTransactions`) and proof (`SendHistoricalProof`), each write
awaited, and then pruned (`HistoricalBlockSent`). `ReadMemPool` is dashd's
answer; `MemPoolDataSent` is all that the handler does with it without an
await: test it, switch the lock listeners, run the loop's first turn, register
`cancelled`. `LoopTurn` is one later turn, and `LoopEnds` the one that finds
`isClientConnected` false. `OnRawTransaction`, `OnRawBlock`,
`CollectInstantLock` and `SendInstantLock` take the next ZMQ message.
`RpcFails` ends the handler at any await; the subscription stays, as in the
code. `Cancel` is the client's cancellation, which is handled only if the
listener is registered by then and the call has subscribed. What it does then,
`ClientDisconnected`, is four effects with a variable each: the loop is told
(`connected`), the mediator loses the listeners that write (`relaying`), the
emitter its own (`attached`) and its place in the collection (`collected`).
The loop and the lock listener write through `Relay`, and ZMQ is heard through
`Hearing`, so that a step that forgets one of the four is another program.

dashd is the environment: it announces a transaction (`rawtx`) on entering the
mempool and again when a block with it is connected, before that block's
`rawblock`; a lock only for a transaction it has announced; one FIFO socket.
Its chain does not reorganise in this model.

### The wait, action by action

`Start` is the synchronous part of `waitForTransactionToBeProvable`: attach the
listener, send the query, set the timer. `ExistingResult`, `NoExistingResult`
and `QueryFails` are the continuations of the query, `TxEvent` and `BlockEvent`
the events, `Timeout` the timer, `Respond` the proof and the response. Promise
continuations run before the next event of the loop, so each action includes
the continuations it triggers: `Settle` is the `then` of the inner race with
`waitForHeight`'s test, `Answer` the outer race, which only its first promise
settles. Tenderdash is taken to index a transaction in the step that commits
its block; its two event streams are each ordered, with no order between them.

### The scan, action by action

`FromHeight`, `FromBlock` and `BestBlockHeight` are dashd's answers to the
handler's three RPCs, `IteratorFromBlock` and `BatchHash` to the iterator's,
each with the code up to the next `await`. `MerkleBlocksOfBatch` reads a batch,
`FetchTransaction` is one answer to the `Promise.all` of `getTransactions`, and
`SendMerkleBlock` what the handler does with a yielded block. `ReadMemPool`,
`ReadMemPoolTransaction` and `TestMemPool` are `getMemPoolTransactions` and the
test of its result. Between any two of them dashd switches to another chain
(`Reorganise`) and changes its mempool, and the emitter of the call tests what
is announced (`LiveTest`), which may insert an outpoint in the very filter
object that the iterator serialises for its next batch.

`reorged` remembers whether a block of the range ever left the best chain.
Without that the history sent is exact (`HistoryExact`); with it the scan may
send blocks of two branches, but still in the order of heights
(`HeightsIncrease`), and it ends (`ScanEnds`).

The filter follows only the first matching output of a transaction, and none
if the transaction's hash matches; what was matched in the history is followed
by dashd's copy of the filter only. `SpendFollowed` says what remains: a spend
of an output that a test *did* watch is matched. `Watches` leaves out an output
that comes after one whose script carries an outpoint as data: had the filter
learned that outpoint, the earlier output would be the one inserted.

### A request, action by action

A handler is `Receive` with its argument checks and either `Respond` or
`Await`; a reply is `Hear`, then the next `Await` or `Respond`. An RPC may stay
`Unanswered`, and a broadcast may reach the node although its reply is lost. A
client may send its request again (`MaxAttempts`). What a handler copies from a
reply to a response is one value; a status, a code or a height that decides
something is kept. `Error("INTERNAL")` is what `wrapInErrorHandler` makes of
any error that is no `GrpcError`.

`right` collects, at every step of the request, the answer of a server that
looks at the node in that one instant. `AnswerWasRight` demands one of these,
although `getBlock` reads the hash and the block at different instants and
`getStatus` combines two of four concurrent RPCs. The nodes move in what the
request can notice: dashd's chain and mempool for the core requests, its
synchronisation for `getStatus`, Drive's objects for queries, and so on.

Remarks. `getBlock` cannot ask for height 0, which protobuf does not tell from
a height that is not set. `getDataContract` compares its id with `null`, so
Drive, not the handler, refuses an id that is not set.

The handlers answer INTERNAL to more than failures of the server, and
`KnownInternal` lists where, for the replies modelled here:

- an argument that is no good (`InternalForBadArg`): dashd refuses a malformed
  block hash or transaction id with -8, while `getBlock` and `getTransaction` map
  -5 only; a `where` or `orderBy` that is no CBOR throws a plain error; Tenderdash's
  error for a state transition that is too large is thrown as it is;
- the status of a node whose masternode is not in the list, because `proTxHash`
  is then undefined;
- a height above the tip of the platform chain (the run `invalid_height`);
- a state transition sent to a mempool that is full, or refused with a code that
  is internal to Drive or unknown to this version of DPP.

Other replies that the handlers do not map (a disk that is full, a node that
warms up) are not in the model; they end as INTERNAL by the same `throw`.

All refusals of Tenderdash's mempool are one JSON-RPC error whose `data` says
why, and `BroadcastAnswer` tests that text as the handler does: only "tx already
exists in cache" is ALREADY_EXISTS. The cache may forget a state transition
between two attempts, and the mempool may fill and empty.

dashd knows a mined transaction by an output that is not spent. Once all are
spent (`SpentUp`) it answers -25, as it does for missing inputs, and the handler
tells a client that repeats its broadcast that the transaction is invalid.
`AnswerWasRight` takes that for the right answer, since dashd gives no other, and
`NotRefusedIfHeld` excludes the case by `KnownAsMined`. It speaks of
`broadcastTransaction` only; what a repeated state transition is told is a
question for `AnswerWasRight` and `InternalIsServers`.

### The WebSocket client

The methods of the class are functions of its state, as in the cache; each
action applies those that one turn of the event loop calls. A refused socket
emits `error` and `close`, and both listeners call `reconnect`, so one failure
sets two timers (`OnRefused`); they were set in one turn for one interval and
fire in one turn (`TimersFire`). `FirstOpen` includes `BlockchainListener.start`,
which follows in the same turn. `onCloseListener` reads `e.code`, but `ws`
passes the code itself, so that it may never see 1000: both readings are
actions (`ClosedNormally`, `Dropped`). What is lost between a drop and the next
`OpenAgain` is the `lostEvents` of `WaitForStateTransition`.

## Runs

| run | bounds | asks |
|---|---|---|
| `cache_calls` | cache of 2, waiting age 1, 3 blocks of one transaction, each may be announced again | the cache's invariants in any order of calls, and the refinement of `InstantLockWaitingList` |
| `stream_safety` | 2 transactions, 2 blocks after the first, 1 lock, cache of 2, another call | what is written, in which order, how often |
| `stream_liveness` | 2 transactions, 2 blocks, RPC failures, all requests | that nothing is missed |
| `stream_disconnect` | 2 transactions, 1 lock, cache of 1, cancel | that overflow never breaks a proof; collected locks are sent; what the cache marks as retrieved was written, with the listeners gone from one turn of the loop to the next |
| `stream_eviction` (violation) | cache of 1 | that cached data is always sent: it is not |
| `stream_late_cancel` (violation) | no transactions needed | that a disconnected client leaves the collection: it does not |
| `wait` | 2 calls with their own transactions, 3 heights, timeouts, lost events, failing RPCs | right answers, no leaked listeners, every call answered |
| `wait_undisturbed` | 2 calls for one transaction, nothing goes wrong | a result is never missed |
| `ws_client` | 2 queries, 5 failures, no limit or a limit of 1 to 3 | subscriptions survive, limits hold, a lost connection comes back |
| `scan` | 6 blocks in 4 chains of up to 4, batches of 2, 3 transactions (a watched output, its spend, an unrelated match), 2 live tests, 4 requests | the history is exact without a reorganisation and ordered with one, spends are followed, the scan ends |
| `requests` | 3 blocks in 3 chains, 4 transactions, 17 codes of Drive at the ends of their ranges, every method, 2 attempts | answers were right, INTERNAL is answered only where a node could not be asked or `KnownInternal` says so, a transaction that dashd holds is not refused when it is sent again |
| `invalid_height` (violation) | heights up to 2 | that a height above the tip is told as such: it is INTERNAL |

Bounds (`MaxBlocks`, `MaxHeight`, `MaxLocks`, `MaxFailures`, `MaxTests`, `MaxAttempts`,
`MaxTip`) are guards on the environment only. `MAX_HEADERS_PER_REQUEST`, 2000, is `Batch`, 2: ranges
of one, two and three blocks or more end before, at and after a batch. The two
chains of `scan` part after the first block, so that a reorganisation hits
the batch that was read, the next one, or both. The cache size and the waiting age, 10 in the code, are 1 or 2, so that
three blocks are enough to fill the cache, evict, and let a transaction age
out. Two transactions are enough for a block that matches while another is
cached and for a transaction mined in a block other than the one being pruned.
`CHECK_DEADLOCK FALSE` where a call really ends; the cache itself never stops.

Fairness. `HandlerStep`: an RPC is answered or (with `rpcFails`) may fail, and
a write is acknowledged. `ZmqStep`: the event loop takes the next message.
`Loop`: a 50 ms timer fires. In the wait: events that are not lost are
received, the query is answered, a timer fires, and the proof is fetched.
In the scan: every RPC is answered or fails. `requests` states safety only.
In the WebSocket client: an attempt to connect has an outcome and timers fire;
it is the bound on failures that lets an attempt succeed in the end.
dashd, Tenderdash, the clients and the disturbances are never obliged to act.

### What the three violations say

*Eviction.* `addBlock` drops its oldest block with its transactions whether or
not they were retrieved. If the historical phase is so long that more blocks
with matching transactions arrive than the cache holds, the first ones are
gone before the loop starts; the comment at `subscribeToNewTransactions.js:82`
promises that cached data is sent. `stream_disconnect` shows that what is sent
stays consistent (no proof without its transactions), though a lock may then be
sent for a transaction that never follows; `stream_liveness` that without overflow nothing is missed.

*Late cancel.* `call.on('cancelled')` is registered last. A client that leaves
earlier is not noticed: the loop is started afterwards and never ends, and the
emitter stays in the collection.

*Invalid height.* `getConsensusParamsHandlerFactory.js:52` compares the code
with 32603. The code of JSON-RPC is -32603, which is what Tenderdash sends and
`getConsensusParamsFactory.js` passes on. The branch that answers
FAILED_PRECONDITION is never taken, except by the unit test, which throws the
positive code itself.

## Proofs

`CacheCalls_proofs` proves, for every cache size, waiting age, set of
transactions and chain of blocks (`CacheSizeAssumption`,
`BlocksToStayAssumption`, `BlockAssumption`, `MaxBlocksAssumption`):

- `TypeCorrect`, `BlocksBounded`, `WaitingBounded`: `Spec => []TypeOK`,
  `[]BlocksWithinSize`, `[]WaitingListAge`. Their conjunction `IInv` is
  inductive: the size needs the type of the arrays, and the age needs that
  `addBlock` ages the list in the same step in which it counts the block, so
  that no entry is ever older than `BlocksToStay`.
- `NeverRetrievedAgain`: the action property `RetrievedOnce`, call by call.
- `WaitingListImplemented`: `Spec => ImplementsWaitingList`, under
  `age[tx] = blocksProcessed - transactionHashesMap[tx]`: a call that changes
  neither field is a stuttering step, the others are the three abstract
  actions. `BlockArrives` is the only one with arithmetic: what stays in the
  map is what has waited through fewer than `BlocksToStay` blocks.

The argument is built from one lemma per method (`AddBlockType`,
`RemoveDataByBlockType`, ...), which says what the method does to each field of
a well-typed cache, so that a proof about a call never unfolds the record.

`CacheAlignment_proofs` proves `ArraysInStep` and `ProofsAreBacked`
(`[]ArraysAligned`, `[]ProofsBacked`) with, in addition, `OneChainAssumption`:
two blocks of the chain share neither hash nor transaction. Neither property is
inductive. `BackedInv` adds what the backward searches of `removeDataByBlock`
rely on: while no block is announced twice, no two cached blocks have one hash,
and position by position the merkle block is of its block and proves
transactions that are in that block and in the cache. Then both searches find
one position, and taking a block's transactions out of the cache cannot take
any that another cached proof needs.

`WaitForStateTransition_proofs` proves the four safety properties for any
number of calls, a finite set of transactions (`TxAssumption`) and any
disturbances. They are proved together in one `IInv`, because they lean on each
other, and with two additions: the events and query results that have not been
received yet are true (`TruthfulEvents`), and a call that waits for a height
waits for the block after its own transaction's (`WaitsForNextBlock`). One
lemma, `SettleKeeps`, is about what a found result does to the calls that wait
for it; the actions that find one cite it.

`WsClient_proofs` proves `TypeCorrect`, `OpenIsSubscribed` and `LimitKept` for
any queries and limits. `SubscribedWhenOpen` needs that the client's own map
holds every query from the first open on (`Remembers`); `FailuresLimited` needs
that each failure has spent one retry or more (`RetriesSpent`).

`HistoricalScan_proofs` proves `ScanTypeCorrect`, `ScanIsExact` and
`ScanIsOrdered` (`[]TypeOK`, `[]HistoryExact`, `[]HeightsIncrease`) for any tree
of blocks (`ChainsAssumption`: chains that share a block share what is below
it), any batch size, requests, filter and bounds, and from them
`ScanIsComplete`: a scan that ends without a reorganisation of its range has
sent every matching block. The invariant adds that a batch starts at a block
whose height is `CurrentHeight`, in the best chain if the range was never
reorganised (`BatchRead`); that what is pending lies above what was sent and
below the next batch (`Ordered`), for which heights, not hashes, are compared,
so that it survives any reorganisation; and that tests only add to the filter
(`FilterGrown`), so that whatever the live tests did to it, a block is matched
at least as it would be with the client's own items (`TestMonotone`).
`ReorganiseStep` is the heart of it: a chain that keeps the range keeps every
block the invariant speaks of.

`SpendsAreFollowed` (`[]SpendFollowed`) has an invariant of its own,
`EmitterInv`: next to what the client put in it the filter holds outpoints only,
and the watched output of every test so far. The first half is what makes the
second inductive: a transaction whose hash or whose earlier output matches
*because of a test* would not have its output inserted. It assumes that a hash
is no outpoint (`HashAssumption`; 32 bytes and 36) and that outputs are numbered
(`OutputsAssumption`). The mempool test makes any number of tests in one step,
and `FiltersAlong` defines the filters between them by recursion. That this
function exists, and that each test carries the invariant on (`OneTest`), is
proved by the least number for which it fails: `LeastNumber` gets it from the
well-founded order of finite sets, because the library's induction theorems take
operators, which the provers here cannot instantiate.

`ApiRequests_proofs` proves `RequestsTypeCorrect`, `AnswersWereRight`,
`InternalIsTheServers` and `HeldIsNotRefused` (`[]TypeOK`, `[]AnswerWasRight`,
`[]InternalIsServers`, `NotRefusedIfHeld`) for any chains, transactions, codes
of Drive, requests and attempts. It assumes what `RequestsAssumption` says a
client can send, that `None` and `BadArg` name nothing else (`NamesAssumption`), and
that the heights of dashd's chains fit its integer (`MaxIntAssumption`); the
last is needed, because `getBlock` tells a height that does not fit from one
above the tip. An answer is right at an instant that may be long past, so the
invariant says what a handler that still waits has learned (`AwaitingOK`): the
hash that `getBlock` found by height was the right answer when it was found, and
dashd keeps the block (`AwaitsBlock`); each reply that `getStatus` already has
says how far synchronisation was, and one of the stages since is among the
right answers (`ReadingRight`), so that whichever two of the four decide, what
they decide was true at one instant. What the nodes hold now is always among the
right answers (`RightNow`), so that a handler with a single RPC only has to
answer what it just heard: `Heard` and `Received` reduce a step to that, and
`Answered` the rest.

`TransactionStream_proofs` proves the safety properties of the stream for any
finite set of transactions (`TxAssumption`), filter, requests, disturbances,
cache size and length of the chain:

- `StreamTypeCorrect` (`[]TypeOK`), `CachedProofsAreComplete`
  (`[]CachedProofsComplete`), `ProofsFollowTransactions`
  (`[]ProofFollowsTransactions`), `RetrievedIsSent` (`[]RetrievedWasSent`):
  without any condition. The last one needs that a loop whose client is connected
  has the mediator's listeners, which the three steps of `ClientDisconnected` keep:
  the getters mark what they return before anyone writes it.
- `LocksAndProofsSentOnce`: locks and merkle blocks are written live at most
  once, without any condition.
- `NothingSentTwice`: `[](Calm(chain) => LiveAtMostOnce)`. `Calm` says that the
  blocks with matching transactions fit the cache (`FewBlocks`) or that no other
  call tests its mempool. Without it the property is false: a transaction that
  was sent is evicted with its block, the other call tests the mempool that it
  read before, and `addTransaction` takes the transaction for a new one. TLC
  finds it with a cache of 1 and a second call in `Disturbances`.
- `LocksAreKnown`: `[](FewBlocks(chain) => LockedIsKnown)`, for the reason that
  the eviction run shows. `stream_safety` has as many blocks as the cache holds,
  so that its two invariants are instances of these two theorems.

The invariant, `IInv`, is a conjunction of operators of the variables they speak
of: the queue, the chain, the cache, what was written, the locked transactions.
None of the properties is inductive. What they need is mostly about the ZMQ queue:

- `CachedProofsComplete` is about `addBlock`, which takes what is in
  `transactions` when the block arrives, and the `block` listener tests a
  block's own transactions only while no block is cached. `GroupOK` says why
  this is enough: a transaction of an announced block is announced right before
  it, with no other block between; or the block is the next to be heard, and the
  transaction is cached or no block is.
- `ProofFollowsTransactions` needs that a transaction whose flag is set was
  written (`FlagsOK`), that a merkle block proves exactly the matching
  transactions of its block, which are cached (`CacheOf`), and that the loop
  writes transactions first (`Turn`). `DropBlock` is why an eviction takes
  nothing away: blocks of a chain share no transaction (`ChainOK`), and
  `CacheOf` keeps the two arrays in one order, that of the chain.
- For `LiveAtMostOnce`, a lock is in the queue, collected or written, one of the
  three and once (`LockOK`); a transaction written live is still cached, flagged,
  or nobody can bring it back (`OnceOK`, `Settled`): its block has been
  announced (`Past`), and no notice of it is left in the queue (`ZmqOK`); the
  same for merkle blocks (`ProofsOK`).

There is one lemma for each thing a step does to the data (a notice is added or
taken, a block is pruned, evicted or pushed, a transaction is tested, a response
is written) and one for each action. `CacheMethods_proofs` says what the methods
do to their arrays. `IInv` was checked by TLC on three instances before it was
proved.

Only model-checked: everything under fairness (`TransactionsDelivered`,
`ProofsDelivered`, `CollectedLocksDelivered`, `EveryCallAnswered`,
`NoMissedResult`, `Resubscribed`, `ScanEnds`), which is out of the prover's reach
with `ENABLED`. Every invariant and every action property of a run is proved.

## Not modelled

The content of messages, merkle trees and proofs; the order of transactions
inside one response; failures of `call.write` in the live phase;
reorganisations while `TransactionStream` streams (`HistoricalScan` has them,
without the cache); several subscribed clients (one, and the mempool test of
another); messages lost by ZeroMQ, which nothing repairs; the ZeroMQ client,
whose failure counter only decides when the process ends; `close` and
`unsubscribe` of the WebSocket client and the functions of `dashcore/rpc.js`
that nothing calls; the prove flag and the metadata of gRPC errors;
`DriveStateRepository`; configuration and logging. PROJECT.json says why for
each component.

## Plan

Done: every module of the table with its runs, and a theorem for every invariant
and action property that a run checks. Next, in this order:

1. What the scan's batches promise as one abstract specification (the range is
   sent once, in order), with `HistoricalScan` shown to implement it step by step.
2. Partial results towards the liveness properties that need no fairness: a call
   of the wait that is answered stays answered, a request that was answered
   stays so, and the measure that each step of the scan decreases.
3. `StreamLifecycle`: several clients and the emitter collection; every call
   that is over leaves it (the error path does not).
