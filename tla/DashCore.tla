------------------------------- MODULE DashCore -------------------------------
(***************************************************************************)
(* A dashd node as the RPC client (externalApis/dashcore/rpc.js) sees it: a  *)
(* best chain that may be reorganised, a mempool, and one operator per RPC   *)
(* for the reply dashd gives at the instant it serves the call.              *)
(*                                                                           *)
(* A chain is a sequence of blocks, position = height.  Any chain of Chains  *)
(* may become the best one, so it grows, is reorganised and, when a          *)
(* ChainLock invalidates its tip, shrinks.  dashd keeps the blocks it has    *)
(* left.                                                                     *)
(***************************************************************************)
EXTENDS RpcReply, Sequences, FiniteSets, SequencesExt

CONSTANTS Tx,        \* transactions
          Block,     \* blocks
          TxsOf,     \* the transactions of each block
          HeightOf,  \* the height of each block
          Chains     \* the chains that may become the best one

ASSUME TxsOfAssumption  == TxsOf \in [Block -> SUBSET Tx]
ASSUME HeightAssumption == HeightOf \in [Block -> Nat \ {0}]
ASSUME ChainsAssumption ==
  /\ Chains \subseteq Seq(Block)
  /\ \A c \in Chains : c # << >> /\ \A h \in DOMAIN c : HeightOf[c[h]] = h
  /\ \A c, d \in Chains : \A h \in DOMAIN c \cap DOMAIN d :
       c[h] = d[h] => \A g \in 1..h : c[g] = d[g]

VARIABLES chain, known, mempool

dashd == <<chain, known, mempool>>

TxsIn(c) == UNION {TxsOf[c[h]] : h \in DOMAIN c}

InBestChain(b) == \E h \in DOMAIN chain : chain[h] = b

DashdInit ==
  /\ chain \in Chains
  /\ known = ToSet(chain)
  /\ mempool = {}

\* Transactions of the blocks left return to the mempool or are dropped.
SwitchChain(c) ==
  /\ c # chain
  /\ chain' = c
  /\ known' = known \cup ToSet(c)
  /\ \E back \in SUBSET (TxsIn(chain) \ TxsIn(c)) :
       mempool' = (mempool \cup back) \ TxsIn(c)

EnterMempool(tx) ==
  /\ tx \notin mempool \cup TxsIn(chain)
  /\ mempool' = mempool \cup {tx}
  /\ UNCHANGED <<chain, known>>

\* Expired, or in conflict with a block.
LeaveMempool(tx) ==
  /\ tx \in mempool
  /\ mempool' = mempool \ {tx}
  /\ UNCHANGED <<chain, known>>

---------------------------------------------------------------------------
(***************************************************************************)
(* Replies at this instant                                                   *)
(***************************************************************************)
GetBlockHash(height) ==
  IF height \in DOMAIN chain THEN Resolve(chain[height]) ELSE Reject(-8)

\* `confirmations` is -1 for a block outside the best chain.
GetBlock(b) ==
  IF b \in known
  THEN Resolve([block |-> b, height |-> HeightOf[b], stale |-> ~ InBestChain(b)])
  ELSE Reject(-5)

GetBestBlockHeight == Resolve(Len(chain))

GetRawTransaction(tx) ==
  IF tx \in mempool \cup TxsIn(chain) THEN Resolve(tx) ELSE Reject(-5)

GetRawMemPool == Resolve(mempool)

\* Up to `count` blocks of the best chain from b on; b alone if it is stale.
BlocksFrom(b, count) ==
  IF InBestChain(b)
  THEN {c \in ToSet(chain) : HeightOf[c] \in HeightOf[b]..(HeightOf[b] + count - 1)}
  ELSE {b}

===============================================================================
