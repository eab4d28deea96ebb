----------------------- MODULE TransactionStream_proofs -----------------------
(***************************************************************************)
(* What a subscription promises, for every set of transactions, filter,     *)
(* request, cacheSize and length of the chain: the inductive invariant of   *)
(* TransactionStream and the theorems that follow from it.                  *)
(*                                                                          *)
(* The parts of the invariant are operators of the variables they speak of  *)
(* (q is the ZMQ queue, ch the chain, c the cache, s the stream), so that   *)
(* a step is a lemma about each part and each thing the step changes.       *)
(***************************************************************************)
EXTENDS TransactionStream, CacheMethods_proofs, FiniteSetTheorems

---------------------------------------------------------------------------
(***************************************************************************)
(* The inductive invariant                                                  *)
(***************************************************************************)
Message ==
  [topic : {"rawtx", "rawtxlocksig"}, item : Tx] \cup [topic : {"rawblock"}, item : Nat]

Response ==
  [type : {"transactions"}, items : SUBSET Tx, live : BOOLEAN]
  \cup [type : {"locks"}, items : SUBSET Tx, live : {TRUE}]
  \cup [type : {"proofs"}, items : SUBSET Nat, live : BOOLEAN]

MerkleBlock == [hash : Nat, matched : SUBSET Tx, isRetrieved : BOOLEAN]
CachedBlock == [hash : Nat, txs : SUBSET Tx]

IsCacheOfCall(c) ==
  /\ IsCache(c)
  /\ c.transactions \in [DOMAIN c.transactions -> BOOLEAN]
  /\ DOMAIN c.transactions \subseteq Matching
  /\ c.merkleBlocks \in Seq(MerkleBlock)
  /\ c.blocks \in Seq(CachedBlock)
  /\ c.unretrievedInstantLocks \subseteq Matching

\* A transaction is in one block of the chain, or in the mempool.
ChainOK(ch, mp) ==
  /\ ch \in Seq(SUBSET Tx)
  /\ \A g, h \in 1..Len(ch) : g # h => ch[g] \cap ch[h] = {}
  /\ mp \subseteq Tx
  /\ \A h \in 1..Len(ch) : mp \cap ch[h] = {}

\* Position i of the queue announces a block.
IsBlock(q, i) == i \in 1..Len(q) /\ q[i].topic = "rawblock"

\* Blocks are announced in the chain's order, transactions before their block.
ZmqOK(q, ch, mp) ==
  /\ q \in Seq(Message)
  /\ \A i \in 1..Len(q) : IsBlock(q, i) => q[i].item \in 1..Len(ch)
  /\ \A i, j \in 1..Len(q) : IsBlock(q, i) /\ IsBlock(q, j) /\ i < j => q[i].item < q[j].item
  /\ \A i \in 1..Len(q) : q[i].topic = "rawtx" =>
       \/ q[i].item \in mp
       \/ \E j \in i..Len(q) : IsBlock(q, j) /\ q[i].item \in ch[q[j].item]

\* The block of height h has been announced to the listeners.
Past(h, ch, q) ==
  h \in 1..Len(ch) /\ \A i \in 1..Len(q) : IsBlock(q, i) => h < q[i].item

\* When the block announced at position i is heard, its transaction tx is in
\* the cache, or no block is and the listener tests the block's transactions:
\* the transaction is announced between the block before and this one, or no
\* block is pending before it and that is so already.
TestedBefore(q, i, tx, c, col) ==
  \/ \E j \in 1..(i - 1) : q[j] = RawTx(tx) /\ \A k \in j..(i - 1) : ~ IsBlock(q, k)
  \/ /\ \A k \in 1..(i - 1) : ~ IsBlock(q, k)
     /\ ~ col \/ c.blocks = << >> \/ tx \in DOMAIN c.transactions

GroupOK(q, ch, c, col) ==
  \A i \in 1..Len(q) : IsBlock(q, i) =>
    \A tx \in ch[q[i].item] \cap Matching : TestedBefore(q, i, tx, c, col)

\* The two arrays are in step, in the chain's order; a merkle block proves
\* exactly the matching transactions of its block, all of them cached.
CacheOf(c, ch, q) ==
  /\ IsCacheOfCall(c)
  /\ Len(c.merkleBlocks) = Len(c.blocks)
  /\ \A i \in 1..Len(c.blocks) :
       /\ Past(c.blocks[i].hash, ch, q)
       /\ c.blocks[i].txs = ch[c.blocks[i].hash]
       /\ c.merkleBlocks[i].hash = c.blocks[i].hash
       /\ c.merkleBlocks[i].matched = ch[c.blocks[i].hash] \cap Matching
       /\ c.merkleBlocks[i].matched # {}
       /\ c.merkleBlocks[i].matched \subseteq DOMAIN c.transactions
  /\ \A i, j \in 1..Len(c.blocks) : i < j => c.blocks[i].hash < c.blocks[j].hash

\* No more blocks have matching transactions than the cache holds: none is
\* evicted.
FewBlocks(ch) == Cardinality({h \in 1..Len(ch) : ch[h] \cap Matching # {}}) <= CacheSize

\* ... or one is, but no other call tests what it read of the mempool before.
Calm(ch) == FewBlocks(ch) \/ "otherCall" \notin Disturbances

\* What the sending loop and the lock listener wrote.
LiveSent(type, s) ==
  UNION {s[i].items : i \in {j \in 1..Len(s) : s[j].type = type /\ s[j].live}}

LiveOnce(type, s) ==
  \A i, j \in 1..Len(s) :
    /\ i < j
    /\ s[i].live /\ s[i].type = type
    /\ s[j].live /\ s[j].type = type
    => s[i].items \cap s[j].items = {}

\* A lock is pending, collected or sent: one of the three, once.
LockOK(q, c, s, lk) ==
  /\ c.unretrievedInstantLocks \cup LiveSent("locks", s) \subseteq lk
  /\ c.unretrievedInstantLocks \cap LiveSent("locks", s) = {}
  /\ LiveOnce("locks", s)
  /\ \A i \in 1..Len(q) : q[i].topic = "rawtxlocksig" =>
       /\ q[i].item \in lk
       /\ q[i].item \notin c.unretrievedInstantLocks
       /\ q[i].item \notin LiveSent("locks", s)
       /\ \A j \in 1..Len(q) : q[j] = q[i] => i = j

\* Proofs are of blocks of the chain and stand after their transactions.
FollowsIn(s, ch) ==
  \A i \in 1..Len(s) : s[i].type = "proofs" =>
    \A h \in s[i].items :
      /\ h \in 1..Len(ch)
      /\ \A tx \in ch[h] \cap Matching :
           \E j \in 1..(i - 1) : s[j].type = "transactions" /\ tx \in s[j].items

\* A flag says that the transaction, or the merkle block, was sent.
FlagsOK(c, s) ==
  /\ \A tx \in DOMAIN c.transactions : c.transactions[tx] => tx \in Sent("transactions", s)
  /\ \A i \in 1..Len(c.merkleBlocks) :
       c.merkleBlocks[i].isRetrieved => c.merkleBlocks[i].hash \in Sent("proofs", s)

\* What waits for a lock, or has had it, is known to the client or will be.
KnownOK(c, s) ==
  DOMAIN c.transactionHashesMap \cup Sent("locks", s)
    \subseteq Sent("transactions", s) \cup DOMAIN c.transactions

\* A transaction the loop has sent is cached as sent, or it is gone for good:
\* in a block that was announced, and no other call remembers it.
Settled(tx, ch, q) ==
  "otherCall" \notin Disturbances /\ \E h \in 1..Len(ch) : tx \in ch[h] /\ Past(h, ch, q)

OnceOK(c, s, ch, q) ==
  /\ LiveOnce("transactions", s)
  /\ \A tx \in LiveSent("transactions", s) :
       IF tx \in DOMAIN c.transactions THEN c.transactions[tx] ELSE Settled(tx, ch, q)

\* A merkle block the loop has sent is cached as sent, if at all, and its block
\* is not announced again.
ProofsOK(c, s, ch, q) ==
  /\ LiveOnce("proofs", s)
  /\ \A h \in LiveSent("proofs", s) :
       /\ Past(h, ch, q)
       /\ \A i \in 1..Len(c.merkleBlocks) :
            c.merkleBlocks[i].hash = h => c.merkleBlocks[i].isRetrieved

StreamOK(c, s, ch, q) ==
  /\ FollowsIn(s, ch)
  /\ FlagsOK(c, s)
  /\ FewBlocks(ch) => KnownOK(c, s)
  /\ Calm(ch) => OnceOK(c, s, ch, q)
  /\ ProofsOK(c, s, ch, q)

NoneLive(s) == \A i \in 1..Len(s) : ~ s[i].live

ControlOK ==
  /\ request \in Requests
  /\ pc \in {"accept", "getBlockHash", "getBlock", "getBestBlockHeight", "iterate",
             "sendHistoricalProof", "historicalBlockSent", "memPoolRead",
             "streaming", "ended", "failed"}
  /\ next \in 1..(Len(chain) + 1) /\ last \in 0..Len(chain)
  /\ locked \subseteq Tx /\ snapshot \subseteq Tx /\ otherSnapshot \subseteq Tx
  /\ "otherCall" \notin Disturbances => otherSnapshot = {}
  /\ collected \in BOOLEAN /\ looping \in BOOLEAN /\ listening \in BOOLEAN
  /\ relaying \in BOOLEAN
  /\ connected = collected /\ attached = collected
  /\ collected => relaying /\ IsNew
  /\ pc \notin {"accept", "streaming", "ended"} => relaying
  /\ listening => pc \in {"streaming", "ended"}
  /\ pc = "accept" => cache = EmptyCache /\ ~ collected
  /\ pc = "getBestBlockHeight" => next \in 1..Len(chain)
  /\ pc \in {"sendHistoricalProof", "historicalBlockSent"} =>
       /\ next \in 1..Len(chain) /\ next <= last
       /\ MatchingIn(next) \subseteq Sent("transactions", stream)
  /\ pc = "streaming" => listening /\ cache.unretrievedInstantLocks = {}
  /\ looping => pc = "streaming"
  /\ stream \in Seq(Response)
  /\ pc # "streaming" => NoneLive(stream)

DataOK ==
  /\ ChainOK(chain, mempool)
  /\ ZmqOK(zmq, chain, mempool)
  /\ GroupOK(zmq, chain, cache, collected)
  /\ CacheOf(cache, chain, zmq)
  /\ LockOK(zmq, cache, stream, locked)
  /\ StreamOK(cache, stream, chain, zmq)

IInv == ControlOK /\ DataOK

---------------------------------------------------------------------------
(***************************************************************************)
(* Writing to the stream                                                    *)
(***************************************************************************)

\* What was sent, by the positions of the stream.
LEMMA SentDef ==
  ASSUME NEW s \in Seq(Response), NEW type
  PROVE  /\ \A x : x \in Sent(type, s) <=>
                     \E i \in 1..Len(s) : s[i].type = type /\ x \in s[i].items
         /\ \A x : x \in LiveSent(type, s) <=>
                     \E i \in 1..Len(s) : s[i].type = type /\ s[i].live /\ x \in s[i].items
         /\ LiveSent(type, s) \subseteq Sent(type, s)
  <1>1. DOMAIN s = 1..Len(s)
    OBVIOUS
  <1>2. \A x : x \in Sent(type, s) <=>
                 \E i \in 1..Len(s) : s[i].type = type /\ x \in s[i].items
    BY <1>1 DEF Sent
  <1>3. \A x : x \in LiveSent(type, s) <=>
                 \E i \in 1..Len(s) : s[i].type = type /\ s[i].live /\ x \in s[i].items
    BY DEF LiveSent
  <1> QED
    BY <1>2, <1>3

\* s2 is s with the items written after it: what that says of each part of
\* the invariant.  Nothing is written if there are no items.
Written(s, s2, type, items, live) ==
  /\ s2 \in Seq(Response)
  /\ \A t : Sent(t, s2) = Sent(t, s) \cup (IF t = type THEN items ELSE {})
  /\ \A t : LiveSent(t, s2) = LiveSent(t, s) \cup (IF t = type /\ live THEN items ELSE {})
  /\ \A t :
       LiveOnce(t, s) /\ (t = type /\ live => items \cap LiveSent(t, s) = {}) => LiveOnce(t, s2)
  /\ \A ch :
       /\ FollowsIn(s, ch)
       /\ type = "proofs" =>
            \A h \in items : /\ h \in 1..Len(ch)
                              /\ ch[h] \cap Matching \subseteq Sent("transactions", s)
       => FollowsIn(s2, ch)
  /\ NoneLive(s) /\ ~ live => NoneLive(s2)

\* A response is appended.
LEMMA AppendResponse ==
  ASSUME NEW s \in Seq(Response), NEW m \in Response
  PROVE  Written(s, Append(s, m), m.type, m.items, m.live)
  <1> DEFINE s2 == Append(s, m)
             n  == Len(s)
  <1>1. /\ s2 \in Seq(Response) /\ Len(s2) = n + 1 /\ n \in Nat
        /\ \A i \in 1..n : s2[i] = s[i]
        /\ s2[n + 1] = m
    BY AppendProperties
  <1> HIDE DEF s2, n
  <1>2. \A i \in 1..Len(s2) : i \in 1..n \/ i = n + 1
    BY <1>1
  <1>3. 1..n \subseteq 1..Len(s2) /\ n + 1 \in 1..Len(s2)
    BY <1>1
  <1>4. ASSUME NEW type
        PROVE  Sent(type, s2) = Sent(type, s) \cup (IF type = m.type THEN m.items ELSE {})
    <2>1. \A x : x \in Sent(type, s2) <=>
                   \E i \in 1..Len(s2) : s2[i].type = type /\ x \in s2[i].items
      BY <1>1, SentDef
    <2>2. \A x : x \in Sent(type, s) <=>
                   \E i \in 1..n : s[i].type = type /\ x \in s[i].items
      BY SentDef DEF n
    <2>3. \A x : x \in Sent(type, s2) <=>
                   x \in Sent(type, s) \/ (m.type = type /\ x \in m.items)
      BY <2>1, <2>2, <1>1, <1>2, <1>3
    <2> QED
      BY <2>3
  <1>5. ASSUME NEW type
        PROVE  LiveSent(type, s2) =
                 LiveSent(type, s) \cup (IF type = m.type /\ m.live THEN m.items ELSE {})
    <2>1. \A x : x \in LiveSent(type, s2) <=>
                   \E i \in 1..Len(s2) : s2[i].type = type /\ s2[i].live /\ x \in s2[i].items
      BY <1>1, SentDef
    <2>2. \A x : x \in LiveSent(type, s) <=>
                   \E i \in 1..n : s[i].type = type /\ s[i].live /\ x \in s[i].items
      BY SentDef DEF n
    <2>3. \A x : x \in LiveSent(type, s2) <=>
                   x \in LiveSent(type, s) \/ (m.type = type /\ m.live /\ x \in m.items)
      BY <2>1, <2>2, <1>1, <1>2, <1>3
    <2> QED
      BY <2>3
  <1>6. ASSUME NEW type, LiveOnce(type, s),
               type = m.type /\ m.live => m.items \cap LiveSent(type, s) = {}
        PROVE  LiveOnce(type, s2)
    <2> SUFFICES ASSUME NEW i \in 1..Len(s2), NEW j \in 1..Len(s2), i < j,
                        s2[i].live, s2[i].type = type, s2[j].live, s2[j].type = type
                 PROVE  s2[i].items \cap s2[j].items = {}
      BY DEF LiveOnce
    <2>1. i \in 1..n
      BY <1>1, <1>2
    <2>2. CASE j \in 1..n
      BY <2>1, <2>2, <1>1, <1>6 DEF LiveOnce, n
    <2>3. CASE j = n + 1
      <3>1. s[i].items \subseteq LiveSent(type, s)
        BY <2>1, <1>1, SentDef DEF n
      <3> QED
        BY <3>1, <2>1, <2>3, <1>1, <1>6
    <2> QED
      BY <1>2, <2>2, <2>3
  <1>7. ASSUME NEW ch, FollowsIn(s, ch),
               m.type = "proofs" =>
                 \A h \in m.items : h \in 1..Len(ch)
                                    /\ ch[h] \cap Matching \subseteq Sent("transactions", s)
        PROVE  FollowsIn(s2, ch)
    <2> SUFFICES ASSUME NEW i \in 1..Len(s2), s2[i].type = "proofs", NEW h \in s2[i].items
                 PROVE  /\ h \in 1..Len(ch)
                        /\ \A tx \in ch[h] \cap Matching :
                             \E j \in 1..(i - 1) : s2[j].type = "transactions" /\ tx \in s2[j].items
      BY DEF FollowsIn
    <2>1. CASE i \in 1..n
      <3>1. /\ h \in 1..Len(ch)
            /\ \A tx \in ch[h] \cap Matching :
                 \E j \in 1..(i - 1) : s[j].type = "transactions" /\ tx \in s[j].items
        BY <2>1, <1>1, <1>7 DEF FollowsIn, n
      <3>2. \A j \in 1..(i - 1) : j \in 1..n /\ s2[j] = s[j]
        BY <2>1, <1>1
      <3> QED
        BY <3>1, <3>2
    <2>2. CASE i = n + 1
      <3>1. i - 1 = n
        BY <2>2, <1>1
      <3>2. /\ h \in 1..Len(ch)
            /\ ch[h] \cap Matching \subseteq Sent("transactions", s)
        BY <2>2, <1>1, <1>7
      <3>3. \A tx \in ch[h] \cap Matching :
              \E j \in 1..n : s[j].type = "transactions" /\ tx \in s[j].items
        BY <3>2, SentDef DEF n
      <3> QED
        BY <3>1, <3>2, <3>3, <1>1
    <2> QED
      BY <1>2, <2>1, <2>2
  <1>8. ASSUME NoneLive(s), ~ m.live
        PROVE  NoneLive(s2)
    BY <1>1, <1>2, <1>8 DEF NoneLive, n
  <1> QED
    BY <1>1, <1>4, <1>5, <1>6, <1>7, <1>8 DEF s2, Written

\* Writing nothing.
LEMMA WriteNothing ==
  ASSUME NEW s \in Seq(Response), NEW type, NEW live
  PROVE  Written(s, s, type, {}, live)
  BY DEF Written

\* The three kinds of response.
LEMMA WriteTransactions ==
  ASSUME NEW s \in Seq(Response), NEW txs \in SUBSET Tx, NEW live \in BOOLEAN
  PROVE  Written(s, s \o Transactions(txs, live), "transactions", txs, live)
  <1>1. CASE txs = {}
    <2>1. s \o Transactions(txs, live) = s
      BY <1>1, ConcatEmptySeq DEF Transactions
    <2> QED
      BY <1>1, <2>1, WriteNothing
  <1>2. CASE txs # {}
    <2> DEFINE m == [type |-> "transactions", items |-> txs, live |-> live]
    <2>1. m \in Response /\ m.type = "transactions" /\ m.items = txs /\ m.live = live
      BY DEF Response
    <2>2. Transactions(txs, live) = <<m>>
      BY <1>2 DEF Transactions
    <2> HIDE DEF m
    <2>3. s \o Transactions(txs, live) = Append(s, m)
      BY <2>1, <2>2, AppendIsConcat
    <2>4. Written(s, Append(s, m), m.type, m.items, m.live)
      BY <2>1, AppendResponse
    <2> QED
      BY <2>1, <2>3, <2>4
  <1> QED
    BY <1>1, <1>2

\* ... of locks,
LEMMA WriteLocks ==
  ASSUME NEW s \in Seq(Response), NEW txs \in SUBSET Tx
  PROVE  Written(s, s \o Locks(txs), "locks", txs, TRUE)
  <1>1. CASE txs = {}
    <2>1. s \o Locks(txs) = s
      BY <1>1, ConcatEmptySeq DEF Locks
    <2> QED
      BY <1>1, <2>1, WriteNothing
  <1>2. CASE txs # {}
    <2> DEFINE m == [type |-> "locks", items |-> txs, live |-> TRUE]
    <2>1. m \in Response /\ m.type = "locks" /\ m.items = txs /\ m.live = TRUE
      BY DEF Response
    <2>2. Locks(txs) = <<m>>
      BY <1>2 DEF Locks
    <2> HIDE DEF m
    <2>3. s \o Locks(txs) = Append(s, m)
      BY <2>1, <2>2, AppendIsConcat
    <2>4. Written(s, Append(s, m), m.type, m.items, m.live)
      BY <2>1, AppendResponse
    <2> QED
      BY <2>1, <2>3, <2>4
  <1> QED
    BY <1>1, <1>2

\* ... and of proofs.
LEMMA WriteProofs ==
  ASSUME NEW s \in Seq(Response), NEW hs \in SUBSET Nat, NEW live \in BOOLEAN
  PROVE  Written(s, s \o Proofs(hs, live), "proofs", hs, live)
  <1>1. CASE hs = {}
    <2>1. s \o Proofs(hs, live) = s
      BY <1>1, ConcatEmptySeq DEF Proofs
    <2> QED
      BY <1>1, <2>1, WriteNothing
  <1>2. CASE hs # {}
    <2> DEFINE m == [type |-> "proofs", items |-> hs, live |-> live]
    <2>1. m \in Response /\ m.type = "proofs" /\ m.items = hs /\ m.live = live
      BY DEF Response
    <2>2. Proofs(hs, live) = <<m>>
      BY <1>2 DEF Proofs
    <2> HIDE DEF m
    <2>3. s \o Proofs(hs, live) = Append(s, m)
      BY <2>1, <2>2, AppendIsConcat
    <2>4. Written(s, Append(s, m), m.type, m.items, m.live)
      BY <2>1, AppendResponse
    <2> QED
      BY <2>1, <2>3, <2>4
  <1> QED
    BY <1>1, <1>2

---------------------------------------------------------------------------
(***************************************************************************)
(* The queue of notifications                                               *)
(***************************************************************************)

\* Messages that announce no block, at the end of the queue.
LEMMA AddNotices ==
  ASSUME NEW q \in Seq(Message), NEW g \in Seq(Message),
         \A i \in 1..Len(g) : g[i].topic # "rawblock"
  PROVE  LET q2 == q \o g
         IN  /\ q2 \in Seq(Message)
             /\ Len(q2) = Len(q) + Len(g) /\ Len(q) \in Nat /\ Len(g) \in Nat
             /\ \A i \in 1..Len(q) : q2[i] = q[i]
             /\ \A i \in 1..Len(g) : q2[Len(q) + i] = g[i]
             /\ \A i \in 1..Len(q2) : i \in 1..Len(q) \/ (i > Len(q) /\ i - Len(q) \in 1..Len(g)
                                                            /\ q2[i] = g[i - Len(q)])
             /\ \A i : IsBlock(q2, i) <=> IsBlock(q, i)
  <1> DEFINE q2 == q \o g
  <1>1. /\ q2 \in Seq(Message)
        /\ Len(q2) = Len(q) + Len(g) /\ Len(q) \in Nat /\ Len(g) \in Nat
        /\ \A i \in 1..(Len(q) + Len(g)) :
             q2[i] = IF i <= Len(q) THEN q[i] ELSE g[i - Len(q)]
    BY ConcatProperties
  <1> HIDE DEF q2
  <1>2. \A i \in 1..Len(q) : q2[i] = q[i]
    BY <1>1
  <1>3. ASSUME NEW i \in 1..Len(g)
        PROVE  q2[Len(q) + i] = g[i]
    <2>1. /\ Len(q) + i \in 1..(Len(q) + Len(g)) /\ ~ (Len(q) + i <= Len(q))
          /\ (Len(q) + i) - Len(q) = i
      BY <1>1
    <2> QED
      BY <2>1, <1>1
  <1>4. \A i \in 1..Len(q2) : i \in 1..Len(q) \/ (i > Len(q) /\ i - Len(q) \in 1..Len(g)
                                                     /\ q2[i] = g[i - Len(q)])
    BY <1>1
  <1>5. ASSUME NEW i
        PROVE  IsBlock(q2, i) <=> IsBlock(q, i)
    <2>1. 1..Len(q) \subseteq 1..Len(q2)
      BY <1>1
    <2> QED
      BY <2>1, <1>2, <1>4 DEF IsBlock
  <1> QED
    BY <1>1, <1>2, <1>3, <1>4, <1>5 DEF q2

\* They move no block, and keep the order if the transactions they announce
\* are in the mempool.
LEMMA AddNoticesKeeps ==
  ASSUME NEW q \in Seq(Message), NEW g \in Seq(Message),
         \A i \in 1..Len(g) : g[i].topic # "rawblock",
         NEW ch, NEW mp, NEW mp2, ZmqOK(q, ch, mp), mp \subseteq mp2,
         \A i \in 1..Len(g) : g[i].topic = "rawtx" => g[i].item \in mp2
  PROVE  /\ ZmqOK(q \o g, ch, mp2)
         /\ \A h : Past(h, ch, q \o g) <=> Past(h, ch, q)
         /\ \A c, col : GroupOK(q, ch, c, col) => GroupOK(q \o g, ch, c, col)
  <1> DEFINE q2 == q \o g
  <1>1. /\ q2 \in Seq(Message)
        /\ Len(q2) = Len(q) + Len(g) /\ Len(q) \in Nat /\ Len(g) \in Nat
        /\ \A i \in 1..Len(q) : q2[i] = q[i]
        /\ \A i \in 1..Len(q2) : i \in 1..Len(q) \/ (i > Len(q) /\ i - Len(q) \in 1..Len(g)
                                                        /\ q2[i] = g[i - Len(q)])
        /\ \A i : IsBlock(q2, i) <=> IsBlock(q, i)
    BY AddNotices
  <1> HIDE DEF q2
  <1>2. \A i : IsBlock(q, i) => i \in 1..Len(q) /\ i \in 1..Len(q2) /\ q2[i] = q[i]
    BY <1>1 DEF IsBlock
  <1>3. \A i \in 1..Len(q2) : IsBlock(q2, i) => q2[i].item \in 1..Len(ch)
    BY <1>1, <1>2 DEF ZmqOK
  <1>4. \A i, j \in 1..Len(q2) :
          IsBlock(q2, i) /\ IsBlock(q2, j) /\ i < j => q2[i].item < q2[j].item
    BY <1>1, <1>2 DEF ZmqOK
  <1>5. ASSUME NEW i \in 1..Len(q2), q2[i].topic = "rawtx"
        PROVE  \/ q2[i].item \in mp2
               \/ \E j \in i..Len(q2) : IsBlock(q2, j) /\ q2[i].item \in ch[q2[j].item]
    <2>1. CASE i \in 1..Len(q)
      <3>1. q2[i] = q[i]
        BY <2>1, <1>1
      <3>2. \/ q[i].item \in mp
            \/ \E j \in i..Len(q) : IsBlock(q, j) /\ q[i].item \in ch[q[j].item]
        BY <2>1, <3>1, <1>5 DEF ZmqOK
      <3>3. \A j \in i..Len(q) : j \in i..Len(q2)
        BY <1>1, <2>1
      <3> QED
        BY <3>1, <3>2, <3>3, <1>1, <1>2
    <2>2. CASE i - Len(q) \in 1..Len(g) /\ q2[i] = g[i - Len(q)]
      BY <2>2, <1>5
    <2> QED
      BY <2>1, <2>2, <1>1
  <1>6. ASSUME NEW h
        PROVE  Past(h, ch, q2) <=> Past(h, ch, q)
    BY <1>1, <1>2 DEF Past
  <1>7. ASSUME NEW c, NEW col, GroupOK(q, ch, c, col)
        PROVE  GroupOK(q2, ch, c, col)
    <2> SUFFICES ASSUME NEW i \in 1..Len(q2), IsBlock(q2, i), NEW tx \in ch[q2[i].item] \cap Matching
                 PROVE  TestedBefore(q2, i, tx, c, col)
      BY DEF GroupOK
    <2>1. i \in 1..Len(q) /\ IsBlock(q, i) /\ q2[i] = q[i]
      BY <1>1, <1>2
    <2>2. TestedBefore(q, i, tx, c, col)
      BY <2>1, <1>7 DEF GroupOK
    <2>3. \A j \in 1..(i - 1) : q2[j] = q[j]
      BY <2>1, <1>1
    <2> QED
      BY <2>2, <2>3, <1>1 DEF TestedBefore
  <1> QED
    BY <1>1, <1>3, <1>4, <1>5, <1>6, <1>7 DEF q2, ZmqOK

\* ... and add no lock if they announce transactions.
LEMMA AddTxNoticesLocks ==
  ASSUME NEW q \in Seq(Message), NEW g \in Seq(Message),
         \A i \in 1..Len(g) : g[i].topic = "rawtx",
         NEW c, NEW s, NEW lk, LockOK(q, c, s, lk)
  PROVE  LockOK(q \o g, c, s, lk)
  <1> DEFINE q2 == q \o g
  <1>1. /\ \A i \in 1..Len(q) : q2[i] = q[i]
        /\ \A i \in 1..Len(q2) : i \in 1..Len(q) \/ (i - Len(q) \in 1..Len(g)
                                                        /\ q2[i] = g[i - Len(q)])
    BY AddNotices
  <1> HIDE DEF q2
  <1>2. \A i \in 1..Len(q2) : q2[i].topic = "rawtxlocksig" => i \in 1..Len(q) /\ q2[i] = q[i]
    BY <1>1
  <1>3. ASSUME NEW i \in 1..Len(q2), q2[i].topic = "rawtxlocksig"
        PROVE  /\ q2[i].item \in lk
               /\ q2[i].item \notin c.unretrievedInstantLocks
               /\ q2[i].item \notin LiveSent("locks", s)
               /\ \A j \in 1..Len(q2) : q2[j] = q2[i] => i = j
    BY <1>2, <1>3 DEF LockOK
  <1> QED
    BY <1>3 DEF LockOK, q2

\* The notice of a new lock.
LEMMA AddLockNotice ==
  ASSUME NEW q \in Seq(Message), NEW tx \in Tx,
         NEW c, NEW s, NEW lk, LockOK(q, c, s, lk), tx \notin lk
  PROVE  LockOK(q \o <<RawLock(tx)>>, c, s, lk \cup {tx})
  <1> DEFINE m == RawLock(tx)
             g == <<m>>
             q2 == q \o g
  <1>1. m \in Message /\ m.topic = "rawtxlocksig" /\ m.item = tx
    BY DEF RawLock, Message
  <1> HIDE DEF m
  <1>2. g \in Seq(Message) /\ Len(g) = 1 /\ g[1] = m
    BY <1>1
  <1> HIDE DEF g
  <1>3. \A i \in 1..Len(g) : g[i].topic # "rawblock"
    BY <1>1, <1>2
  <1>4. /\ Len(q) \in Nat /\ Len(q2) = Len(q) + 1
        /\ \A i \in 1..Len(q) : q2[i] = q[i]
        /\ q2[Len(q) + 1] = m
    BY <1>2, <1>3, AddNotices, SMTT(30)
  <1> HIDE DEF q2
  <1>5. \A i \in 1..Len(q2) : i \in 1..Len(q) \/ i = Len(q) + 1
    BY <1>4
  <1>6. \A i \in 1..Len(q) : q[i] # m
    BY <1>1 DEF LockOK
  <1>7. ASSUME NEW i \in 1..Len(q2), q2[i].topic = "rawtxlocksig"
        PROVE  /\ q2[i].item \in lk \cup {tx}
               /\ q2[i].item \notin c.unretrievedInstantLocks
               /\ q2[i].item \notin LiveSent("locks", s)
               /\ \A j \in 1..Len(q2) : q2[j] = q2[i] => i = j
    <2>1. CASE i \in 1..Len(q)
      BY <2>1, <1>4, <1>5, <1>6, <1>7 DEF LockOK
    <2>2. CASE i = Len(q) + 1
      BY <2>2, <1>1, <1>4, <1>5, <1>6 DEF LockOK
    <2> QED
      BY <2>1, <2>2, <1>5
  <1> QED
    BY <1>7 DEF LockOK, q2, g, m

\* An order of a finite set is a sequence of all its elements.
LEMMA OrderCovers ==
  ASSUME NEW S, IsFiniteSet(S), NEW order \in SetToSeqs(S)
  PROVE  /\ order \in Seq(S)
         /\ \A x \in S : \E i \in 1..Len(order) : order[i] = x
  <1> DEFINE n == Cardinality(S)
  <1>1. n \in Nat
    BY FS_CardinalityType
  <1>2. order \in [1..n -> S] /\ \A i, j \in 1..n : i # j => order[i] # order[j]
    BY DEF SetToSeqs
  <1>3. order \in Injection(1..n, S)
    BY <1>2 DEF Injection, IsInjective
  <1>4. Cardinality(1..n) = n
    BY <1>1, FS_Interval
  <1>5. order \in Surjection(1..n, S)
    BY <1>3, <1>4, FS_Injection
  <1>6. \A x \in S : \E i \in 1..n : order[i] = x
    BY <1>5 DEF Surjection
  <1> HIDE DEF n
  <1>7. order \in Seq(S) /\ Len(order) = n
    BY <1>1, <1>2
  <1> QED
    BY <1>6, <1>7

\* A block is connected: its transactions are announced, then the block.
LEMMA AddBlockNotice ==
  ASSUME NEW q \in Seq(Message), NEW ch, NEW mp, ChainOK(ch, mp), ZmqOK(q, ch, mp),
         NEW txs \in SUBSET Tx, \A h \in 1..Len(ch) : txs \cap ch[h] = {},
         NEW order \in SetToSeqs(txs)
  PROVE  LET n   == Len(ch) + 1
             g   == [i \in DOMAIN order |-> RawTx(order[i])]
             q3  == q \o g \o <<RawBlock(n)>>
             ch2 == Append(ch, txs)
             mp2 == mp \ txs
         IN  /\ ChainOK(ch2, mp2)
             /\ Len(ch2) = n /\ \A h \in 1..Len(ch) : ch2[h] = ch[h]
             /\ ZmqOK(q3, ch2, mp2)
             /\ \A h : Past(h, ch, q) => Past(h, ch2, q3)
             /\ \A c, col : GroupOK(q, ch, c, col) => GroupOK(q3, ch2, c, col)
             /\ \A c, s, lk : LockOK(q, c, s, lk) => LockOK(q3, c, s, lk)
  <1> DEFINE n   == Len(ch) + 1
             g   == [i \in DOMAIN order |-> RawTx(order[i])]
             q1  == q \o g
             b   == RawBlock(n)
             q3  == q1 \o <<b>>
             ch2 == Append(ch, txs)
             mp2 == mp \ txs
  <1>1. /\ order \in Seq(txs)
        /\ \A tx \in txs : \E i \in 1..Len(order) : order[i] = tx
    <2>1. IsFiniteSet(txs)
      BY TxAssumption, FS_Subset
    <2> QED
      BY <2>1, OrderCovers
  <1>2. /\ g \in Seq(Message) /\ Len(g) = Len(order)
        /\ \A i \in 1..Len(g) : g[i] = RawTx(order[i]) /\ order[i] \in txs
    <2>1. \A tx \in txs : RawTx(tx) \in Message
      BY DEF RawTx, Message
    <2>2. DOMAIN order = 1..Len(order) /\ Len(order) \in Nat
          /\ \A i \in 1..Len(order) : order[i] \in txs
      BY <1>1
    <2>3. g \in [1..Len(order) -> Message]
      BY <2>1, <2>2
    <2> QED
      BY <2>2, <2>3
  <1>3. \A i \in 1..Len(g) : g[i].topic = "rawtx" /\ g[i].item = order[i] /\ g[i].item \in txs
    <2> HIDE DEF g
    <2>1. \A tx : RawTx(tx).topic = "rawtx" /\ RawTx(tx).item = tx
      BY DEF RawTx
    <2> QED
      BY <1>2, <2>1
  <1>4. ch \in Seq(SUBSET Tx) /\ Len(ch) \in Nat /\ mp \subseteq Tx
    BY DEF ChainOK
  <1>5. /\ ch2 \in Seq(SUBSET Tx) /\ Len(ch2) = n
        /\ \A h \in 1..Len(ch) : ch2[h] = ch[h]
        /\ ch2[n] = txs
    BY <1>4, AppendProperties
  <1>6. /\ n \in Nat /\ n \in 1..n /\ n \notin 1..Len(ch) /\ \A h \in 1..Len(ch) : h < n
        /\ \A h \in 1..n : h \in 1..Len(ch) \/ h = n
        /\ 1..Len(ch) \subseteq 1..n
    BY <1>4
  <1>7. b \in Message /\ b.topic = "rawblock" /\ b.item = n
    BY <1>6 DEF Message, RawBlock
  <1>8. ChainOK(ch2, mp2)
    <2>1. \A k, h \in 1..n : k # h => ch2[k] \cap ch2[h] = {}
      BY <1>5, <1>6 DEF ChainOK
    <2>2. \A h \in 1..n : mp2 \cap ch2[h] = {}
      BY <1>5, <1>6 DEF ChainOK
    <2> QED
      BY <2>1, <2>2, <1>4, <1>5 DEF ChainOK
  <1> DEFINE mp1 == mp \cup txs
  <1>9. /\ ZmqOK(q1, ch, mp1)
        /\ \A h : Past(h, ch, q1) <=> Past(h, ch, q)
        /\ \A c, col : GroupOK(q, ch, c, col) => GroupOK(q1, ch, c, col)
    <2>1. \A i \in 1..Len(g) : g[i].topic # "rawblock"
      BY <1>3
    <2>2. mp \subseteq mp1 /\ \A i \in 1..Len(g) : g[i].item \in mp1
      BY <1>3
    <2> HIDE DEF mp1, g
    <2> QED
      BY <1>2, <2>1, <2>2, AddNoticesKeeps
  <1>10. \A c, s, lk : LockOK(q, c, s, lk) => LockOK(q1, c, s, lk)
    <2> HIDE DEF g
    <2> QED
      BY <1>2, <1>3, AddTxNoticesLocks
  <1>11. /\ q1 \in Seq(Message) /\ Len(q) \in Nat /\ Len(q1) = Len(q) + Len(g) /\ Len(g) \in Nat
         /\ \A i \in 1..Len(g) : q1[Len(q) + i] = g[i]
         /\ \A i : IsBlock(q1, i) <=> IsBlock(q, i)
    <2>1. \A i \in 1..Len(g) : g[i].topic # "rawblock"
      BY <1>3
    <2> HIDE DEF g
    <2> QED
      BY <1>2, <2>1, AddNotices
  <1> DEFINE k == Len(q1)
  <1> HIDE DEF g, q1, b, ch2, n
  <1>12. /\ q3 \in Seq(Message) /\ k \in Nat /\ Len(q3) = k + 1
         /\ \A i \in 1..k : q3[i] = q1[i]
         /\ q3[k + 1] = b
    <2>1. q3 = Append(q1, b)
      BY <1>7, <1>11, AppendIsConcat
    <2> QED
      BY <2>1, <1>7, <1>11, AppendProperties
  <1> HIDE DEF q3, k
  <1>13. /\ \A i \in 1..(k + 1) : i \in 1..k \/ i = k + 1
         /\ k + 1 \in 1..(k + 1) /\ 1..k \subseteq 1..(k + 1)
         /\ \A i \in 1..k : i < k + 1
    BY <1>12
  <1>14. \A i : IsBlock(q3, i) <=> IsBlock(q1, i) \/ i = k + 1
    BY <1>7, <1>12, <1>13 DEF IsBlock, k
  <1>15. \A i : IsBlock(q1, i) => /\ i \in 1..k /\ q3[i] = q1[i]
                                  /\ q1[i].item \in 1..Len(ch)
    BY <1>9, <1>12 DEF IsBlock, ZmqOK, k
  <1>16. ZmqOK(q3, ch2, mp2)
    <2>1. \A i \in 1..Len(q3) : IsBlock(q3, i) => q3[i].item \in 1..n
      BY <1>6, <1>7, <1>12, <1>14, <1>15
    <2>2. ASSUME NEW i \in 1..Len(q3), NEW j \in 1..Len(q3), IsBlock(q3, i), IsBlock(q3, j), i < j
          PROVE  q3[i].item < q3[j].item
      <3>1. i \in 1..k /\ IsBlock(q1, i)
        BY <2>2, <1>12, <1>13, <1>14
      <3>2. CASE IsBlock(q1, j)
        BY <3>1, <3>2, <2>2, <1>9, <1>15 DEF ZmqOK, k
      <3>3. CASE j = k + 1
        BY <3>1, <3>3, <1>6, <1>7, <1>12, <1>15
      <3> QED
        BY <2>2, <3>2, <3>3, <1>14
    <2>3. ASSUME NEW i \in 1..Len(q3), q3[i].topic = "rawtx"
          PROVE  \/ q3[i].item \in mp2
                 \/ \E j \in i..Len(q3) : IsBlock(q3, j) /\ q3[i].item \in ch2[q3[j].item]
      <3>1. i \in 1..k /\ q3[i] = q1[i]
        BY <2>3, <1>7, <1>12, <1>13
      <3>2. k + 1 \in i..Len(q3) /\ i..k \subseteq i..Len(q3)
        BY <3>1, <1>12
      <3>3. CASE q1[i].item \in mp1
        <4>1. q1[i].item \in mp2 \/ q1[i].item \in txs
          BY <3>3
        <4>2. CASE q1[i].item \in txs
          BY <4>2, <3>1, <3>2, <1>5, <1>7, <1>12, <1>14
        <4> QED
          BY <4>1, <4>2, <3>1
      <3>4. CASE \E j \in i..k : IsBlock(q1, j) /\ q1[i].item \in ch[q1[j].item]
        <4>1. PICK j \in i..k : IsBlock(q1, j) /\ q1[i].item \in ch[q1[j].item]
          BY <3>4
        <4>2. /\ IsBlock(q3, j) /\ q3[j] = q1[j] /\ q1[j].item \in 1..Len(ch)
              /\ j \in i..Len(q3)
          BY <4>1, <3>2, <1>14, <1>15
        <4> QED
          BY <4>1, <4>2, <3>1, <1>5
      <3> QED
        BY <3>1, <3>3, <3>4, <2>3, <1>9 DEF ZmqOK, k
    <2> QED
      BY <2>1, <2>2, <2>3, <1>5, <1>12 DEF ZmqOK
  <1>17. ASSUME NEW h, Past(h, ch, q)
         PROVE  Past(h, ch2, q3)
    <2>1. Past(h, ch, q1)
      BY <1>9, <1>17
    <2>2. h \in 1..Len(ch) /\ \A i \in 1..k : IsBlock(q1, i) => h < q1[i].item
      BY <2>1 DEF Past, k
    <2>3. h \in 1..n /\ h < n
      BY <2>2, <1>6
    <2>4. \A i \in 1..Len(q3) : IsBlock(q3, i) => h < q3[i].item
      BY <2>2, <2>3, <1>7, <1>12, <1>14, <1>15
    <2> QED
      BY <2>3, <2>4, <1>5 DEF Past
  <1>18. ASSUME NEW c, NEW col, GroupOK(q, ch, c, col)
         PROVE  GroupOK(q3, ch2, c, col)
    <2>0. GroupOK(q1, ch, c, col)
      BY <1>9, <1>18
    <2> SUFFICES ASSUME NEW i \in 1..Len(q3), IsBlock(q3, i),
                        NEW tx \in ch2[q3[i].item] \cap Matching
                 PROVE  TestedBefore(q3, i, tx, c, col)
      BY DEF GroupOK
    <2>1. CASE IsBlock(q1, i)
      <3>1. i \in 1..k /\ q3[i] = q1[i] /\ ch2[q3[i].item] = ch[q1[i].item]
        BY <2>1, <1>5, <1>15
      <3>2. TestedBefore(q1, i, tx, c, col)
        BY <2>0, <2>1, <3>1 DEF GroupOK, k
      <3>3. \A j \in 1..(i - 1) : j \in 1..k /\ j # k + 1 /\ q3[j] = q1[j]
        BY <3>1, <1>12
      <3>4. \A j \in 1..(i - 1) : IsBlock(q3, j) <=> IsBlock(q1, j)
        BY <3>3, <1>14
      <3> QED
        BY <3>2, <3>3, <3>4 DEF TestedBefore
    <2>2. CASE i = k + 1
      <3>1. tx \in txs
        BY <2>2, <1>5, <1>7, <1>12
      <3>2. PICK p \in 1..Len(order) : order[p] = tx
        BY <3>1, <1>1
      <3>3. p \in 1..Len(g) /\ g[p] = RawTx(tx)
        BY <3>2, <1>2
      <3>4. /\ Len(q) + p \in 1..k /\ Len(q) + p \in 1..(i - 1) /\ i - 1 = k
            /\ q1[Len(q) + p] = RawTx(tx)
        BY <3>3, <2>2, <1>11 DEF k
      <3>5. q3[Len(q) + p] = RawTx(tx)
        BY <3>4, <1>12
      <3>6. \A x \in (Len(q) + p)..(i - 1) : x # k + 1 /\ x \notin 1..Len(q)
        BY <3>3, <3>4, <1>11, <1>12
      <3>7. \A x \in (Len(q) + p)..(i - 1) : ~ IsBlock(q3, x)
        BY <3>6, <1>11, <1>14 DEF IsBlock
      <3> QED
        BY <3>4, <3>5, <3>7 DEF TestedBefore
    <2> QED
      BY <2>1, <2>2, <1>14
  <1>19. ASSUME NEW c, NEW s, NEW lk, LockOK(q, c, s, lk)
         PROVE  LockOK(q3, c, s, lk)
    <2>1. LockOK(q1, c, s, lk)
      BY <1>10, <1>19
    <2>2. \A i \in 1..Len(q3) : q3[i].topic = "rawtxlocksig" => i \in 1..k /\ q3[i] = q1[i]
      BY <1>7, <1>12, <1>13
    <2>3. ASSUME NEW i \in 1..Len(q3), q3[i].topic = "rawtxlocksig"
          PROVE  /\ q3[i].item \in lk
                 /\ q3[i].item \notin c.unretrievedInstantLocks
                 /\ q3[i].item \notin LiveSent("locks", s)
                 /\ \A j \in 1..Len(q3) : q3[j] = q3[i] => i = j
      <3>1. i \in 1..k /\ q3[i] = q1[i]
        BY <2>2, <2>3
      <3>2. /\ q1[i].item \in lk
            /\ q1[i].item \notin c.unretrievedInstantLocks
            /\ q1[i].item \notin LiveSent("locks", s)
            /\ \A j \in 1..k : q1[j] = q1[i] => i = j
        BY <2>1, <3>1, <2>3 DEF LockOK, k
      <3>3. \A j \in 1..Len(q3) : q3[j] = q3[i] => j \in 1..k /\ q1[j] = q1[i]
        BY <3>1, <2>2, <2>3
      <3> QED
        BY <3>1, <3>2, <3>3
    <2> QED
      BY <2>1, <2>3 DEF LockOK
  <1>20. Len(ch2) = n /\ \A h \in 1..Len(ch) : ch2[h] = ch[h]
    BY <1>5
  <1> QED
    BY <1>8, <1>16, <1>17, <1>18, <1>19, <1>20 DEF n, g, q1, b, q3, ch2

\* The queue without its first message.
LEMMA TakeNotice ==
  ASSUME NEW q \in Seq(Message), q # << >>
  PROVE  LET q2 == Tail(q)
         IN  /\ q2 \in Seq(Message) /\ Len(q2) \in Nat /\ Len(q) = Len(q2) + 1
             /\ Head(q) = q[1] /\ q[1] \in Message
             /\ \A i \in 1..Len(q2) : q2[i] = q[i + 1] /\ i + 1 \in 1..Len(q)
             /\ \A i \in 1..Len(q) : i = 1 \/ (i > 1 /\ i - 1 \in 1..Len(q2) /\ q2[i - 1] = q[i])
             /\ \A i \in 1..Len(q2) : IsBlock(q2, i) <=> IsBlock(q, i + 1)
  <1> DEFINE q2 == Tail(q)
  <1>1. /\ q2 \in Seq(Message) /\ Len(q2) \in Nat /\ Len(q) = Len(q2) + 1
        /\ \A i \in 1..Len(q2) : q2[i] = q[i + 1]
    BY HeadTailProperties
  <1>2. Head(q) = q[1] /\ q[1] \in Message
    BY <1>1
  <1> HIDE DEF q2
  <1>3. \A i \in 1..Len(q2) : q2[i] = q[i + 1] /\ i + 1 \in 1..Len(q)
    BY <1>1
  <1>4. ASSUME NEW i \in 1..Len(q), i # 1
        PROVE  i > 1 /\ i - 1 \in 1..Len(q2) /\ q2[i - 1] = q[i]
    <2>1. i > 1 /\ i - 1 \in 1..Len(q2) /\ (i - 1) + 1 = i
      BY <1>1, <1>4
    <2>2. q2[i - 1] = q[(i - 1) + 1]
      BY <2>1, <1>1
    <2> QED
      BY <2>1, <2>2
  <1>5. \A i \in 1..Len(q2) : IsBlock(q2, i) <=> IsBlock(q, i + 1)
    BY <1>3 DEF IsBlock
  <1> QED
    BY <1>1, <1>2, <1>3, <1>4, <1>5 DEF q2

\* Announced blocks stay so, the order is kept, and the locks that are pending
\* still are but for the first message.
LEMMA TakeNoticeKeeps ==
  ASSUME NEW q \in Seq(Message), q # << >>, NEW ch, NEW mp, ZmqOK(q, ch, mp)
  PROVE  /\ ZmqOK(Tail(q), ch, mp)
         /\ \A h : Past(h, ch, q) => Past(h, ch, Tail(q))
         /\ \A c, s, lk : LockOK(q, c, s, lk) => LockOK(Tail(q), c, s, lk)
  <1> DEFINE q2 == Tail(q)
  <1>1. /\ q2 \in Seq(Message) /\ Len(q2) \in Nat /\ Len(q) = Len(q2) + 1
        /\ \A i \in 1..Len(q2) : q2[i] = q[i + 1] /\ i + 1 \in 1..Len(q)
        /\ \A i \in 1..Len(q) : i = 1 \/ (i > 1 /\ i - 1 \in 1..Len(q2) /\ q2[i - 1] = q[i])
        /\ \A i \in 1..Len(q2) : IsBlock(q2, i) <=> IsBlock(q, i + 1)
    BY TakeNotice
  <1> HIDE DEF q2
  <1>2. \A i, j \in 1..Len(q2) : (i < j => i + 1 < j + 1) /\ (i + 1 = j + 1 => i = j)
    BY <1>1
  <1>3. \A i \in 1..Len(q2) : IsBlock(q2, i) => q2[i].item \in 1..Len(ch)
    BY <1>1 DEF ZmqOK
  <1>4. ASSUME NEW i \in 1..Len(q2), NEW j \in 1..Len(q2), IsBlock(q2, i), IsBlock(q2, j), i < j
        PROVE  q2[i].item < q2[j].item
    <2>1. /\ IsBlock(q, i + 1) /\ IsBlock(q, j + 1) /\ i + 1 < j + 1
          /\ i + 1 \in 1..Len(q) /\ j + 1 \in 1..Len(q)
      BY <1>1, <1>2, <1>4
    <2>2. q[i + 1].item < q[j + 1].item
      BY <2>1 DEF ZmqOK
    <2> QED
      BY <2>2, <1>1
  <1>5. ASSUME NEW i \in 1..Len(q2), q2[i].topic = "rawtx"
        PROVE  \/ q2[i].item \in mp
               \/ \E j \in i..Len(q2) : IsBlock(q2, j) /\ q2[i].item \in ch[q2[j].item]
    <2>1. i + 1 \in 1..Len(q) /\ q[i + 1] = q2[i]
      BY <1>1
    <2>2. CASE \E j \in (i + 1)..Len(q) : IsBlock(q, j) /\ q[i + 1].item \in ch[q[j].item]
      <3>1. PICK j \in (i + 1)..Len(q) : IsBlock(q, j) /\ q[i + 1].item \in ch[q[j].item]
        BY <2>2
      <3>2. j \in 1..Len(q) /\ j # 1 /\ j - 1 \in i..Len(q2) /\ (j - 1) + 1 = j
        BY <1>1
      <3>3. j - 1 \in 1..Len(q2) /\ q2[j - 1] = q[j]
        BY <3>2, <1>1
      <3>4. IsBlock(q2, j - 1)
        BY <3>1, <3>2, <3>3, <1>1
      <3> QED
        BY <3>1, <3>2, <3>3, <3>4, <2>1
    <2> QED
      BY <2>1, <2>2, <1>5 DEF ZmqOK
  <1>6. ASSUME NEW h, Past(h, ch, q)
        PROVE  Past(h, ch, q2)
    BY <1>1, <1>6 DEF Past
  <1>7. ASSUME NEW c, NEW s, NEW lk, LockOK(q, c, s, lk)
        PROVE  LockOK(q2, c, s, lk)
    <2> SUFFICES ASSUME NEW i \in 1..Len(q2), q2[i].topic = "rawtxlocksig"
                 PROVE  /\ q2[i].item \in lk
                        /\ q2[i].item \notin c.unretrievedInstantLocks
                        /\ q2[i].item \notin LiveSent("locks", s)
                        /\ \A j \in 1..Len(q2) : q2[j] = q2[i] => i = j
      BY <1>7 DEF LockOK
    <2>1. i + 1 \in 1..Len(q) /\ q[i + 1] = q2[i]
      BY <1>1
    <2>2. /\ q[i + 1].item \in lk
          /\ q[i + 1].item \notin c.unretrievedInstantLocks
          /\ q[i + 1].item \notin LiveSent("locks", s)
          /\ \A j \in 1..Len(q) : q[j] = q[i + 1] => i + 1 = j
      BY <2>1, <1>7 DEF LockOK
    <2>3. ASSUME NEW j \in 1..Len(q2), q2[j] = q2[i]
          PROVE  i = j
      <3>1. j + 1 \in 1..Len(q) /\ q[j + 1] = q[i + 1]
        BY <2>1, <2>3, <1>1
      <3>2. i + 1 = j + 1
        BY <3>1, <2>2
      <3> QED
        BY <3>2, <1>2
    <2> QED
      BY <2>1, <2>2, <2>3
  <1> QED
    BY <1>1, <1>3, <1>4, <1>5, <1>6, <1>7 DEF ZmqOK, q2

\* A transaction or a lock is heard: a block that is announced later still
\* finds its transactions, the one just announced being cached if collected.
LEMMA TakeTxNoticeGroup ==
  ASSUME NEW q \in Seq(Message), q # << >>, NEW ch, NEW c, NEW c2, NEW col \in BOOLEAN,
         ~ IsBlock(q, 1), GroupOK(q, ch, c, col),
         c2.blocks = c.blocks,
         DOMAIN c.transactions \subseteq DOMAIN c2.transactions,
         \A tx \in Matching : q[1] = RawTx(tx) /\ col => tx \in DOMAIN c2.transactions
  PROVE  GroupOK(Tail(q), ch, c2, col)
  <1> DEFINE q2 == Tail(q)
  <1>1. /\ q2 \in Seq(Message) /\ Len(q2) \in Nat /\ Len(q) = Len(q2) + 1
        /\ \A i \in 1..Len(q2) : q2[i] = q[i + 1] /\ i + 1 \in 1..Len(q)
        /\ \A i \in 1..Len(q) : i = 1 \/ (i > 1 /\ i - 1 \in 1..Len(q2) /\ q2[i - 1] = q[i])
        /\ \A i \in 1..Len(q2) : IsBlock(q2, i) <=> IsBlock(q, i + 1)
    BY TakeNotice
  <1> HIDE DEF q2
  <1> SUFFICES ASSUME NEW i \in 1..Len(q2), IsBlock(q2, i),
                      NEW tx \in ch[q2[i].item] \cap Matching
               PROVE  TestedBefore(q2, i, tx, c2, col)
    BY DEF GroupOK, q2
  <1>2. /\ i \in Nat /\ i + 1 \in 1..Len(q) /\ q[i + 1] = q2[i] /\ IsBlock(q, i + 1)
        /\ (i + 1) - 1 = i
    BY <1>1
  <1>3. TestedBefore(q, i + 1, tx, c, col)
    BY <1>2 DEF GroupOK
  <1>4. \A j \in 1..(i - 1) : j \in 1..Len(q2) /\ j + 1 \in 1..i /\ q2[j] = q[j + 1]
                              /\ (IsBlock(q2, j) <=> IsBlock(q, j + 1))
    BY <1>1, <1>2
  <1>5. CASE \E j \in 2..i : q[j] = RawTx(tx) /\ \A k \in j..i : ~ IsBlock(q, k)
    <2>1. PICK j \in 2..i : q[j] = RawTx(tx) /\ \A k \in j..i : ~ IsBlock(q, k)
      BY <1>5
    <2>2. j - 1 \in 1..(i - 1) /\ (j - 1) + 1 = j
      BY <1>2
    <2>3. q2[j - 1] = RawTx(tx)
      BY <2>1, <2>2, <1>4
    <2>4. \A k \in (j - 1)..(i - 1) : k \in 1..(i - 1) /\ k + 1 \in j..i
      BY <1>2, <2>2
    <2>5. \A k \in (j - 1)..(i - 1) : ~ IsBlock(q2, k)
      BY <2>1, <2>4, <1>4
    <2> QED
      BY <2>2, <2>3, <2>5 DEF TestedBefore
  <1>6. CASE /\ \A k \in 1..i : ~ IsBlock(q, k)
             /\ ~ col \/ c.blocks = << >> \/ tx \in DOMAIN c.transactions
    <2>1. \A k \in 1..(i - 1) : ~ IsBlock(q2, k)
      BY <1>6, <1>4
    <2>2. ~ col \/ c2.blocks = << >> \/ tx \in DOMAIN c2.transactions
      BY <1>6
    <2> QED
      BY <2>1, <2>2 DEF TestedBefore
  <1>7. CASE q[1] = RawTx(tx) /\ \A k \in 1..i : ~ IsBlock(q, k)
    <2>1. \A k \in 1..(i - 1) : ~ IsBlock(q2, k)
      BY <1>7, <1>4
    <2>2. ~ col \/ tx \in DOMAIN c2.transactions
      BY <1>7
    <2> QED
      BY <2>1, <2>2 DEF TestedBefore
  <1>8. \A j \in 1..i : j = 1 \/ j \in 2..i
    BY <1>2
  <1> QED
    BY <1>2, <1>3, <1>5, <1>6, <1>7, <1>8 DEF TestedBefore

\* A block is heard: its transactions are cached, or nothing is and they are
\* tested; those of the blocks announced later are announced after it.
LEMMA TakeBlockNoticeGroup ==
  ASSUME NEW q \in Seq(Message), q # << >>, NEW ch, NEW c, NEW col,
         IsBlock(q, 1), GroupOK(q, ch, c, col)
  PROVE  /\ \A tx \in ch[q[1].item] \cap Matching :
              ~ col \/ c.blocks = << >> \/ tx \in DOMAIN c.transactions
         /\ \A c2 : GroupOK(Tail(q), ch, c2, col)
  <1> DEFINE q2 == Tail(q)
  <1>1. /\ q2 \in Seq(Message) /\ Len(q2) \in Nat /\ Len(q) = Len(q2) + 1
        /\ \A i \in 1..Len(q2) : q2[i] = q[i + 1] /\ i + 1 \in 1..Len(q)
        /\ \A i \in 1..Len(q2) : IsBlock(q2, i) <=> IsBlock(q, i + 1)
    BY TakeNotice
  <1> HIDE DEF q2
  <1>2. 1 \in 1..Len(q) /\ 1 - 1 = 0 /\ 1..0 = {}
    BY <1>1
  <1>3. \A tx \in ch[q[1].item] \cap Matching :
          ~ col \/ c.blocks = << >> \/ tx \in DOMAIN c.transactions
    BY <1>2 DEF GroupOK, TestedBefore
  <1>4. ASSUME NEW c2
        PROVE  GroupOK(q2, ch, c2, col)
    <2> SUFFICES ASSUME NEW i \in 1..Len(q2), IsBlock(q2, i),
                        NEW tx \in ch[q2[i].item] \cap Matching
                 PROVE  TestedBefore(q2, i, tx, c2, col)
      BY DEF GroupOK
    <2>1. /\ i \in Nat /\ i + 1 \in 1..Len(q) /\ q[i + 1] = q2[i] /\ IsBlock(q, i + 1)
          /\ (i + 1) - 1 = i /\ 1 \in 1..i
      BY <1>1
    <2>2. TestedBefore(q, i + 1, tx, c, col)
      BY <2>1 DEF GroupOK
    <2>3. PICK j \in 1..i : q[j] = RawTx(tx) /\ \A k \in j..i : ~ IsBlock(q, k)
      BY <2>1, <2>2 DEF TestedBefore
    <2>4. j # 1
      BY <2>1, <2>3
    <2>5. j - 1 \in 1..(i - 1) /\ (j - 1) + 1 = j
      BY <2>1, <2>4
    <2>6. \A k \in 1..(i - 1) : k \in 1..Len(q2) /\ q2[k] = q[k + 1]
                                /\ (IsBlock(q2, k) <=> IsBlock(q, k + 1))
      BY <1>1, <2>1
    <2>7. q2[j - 1] = RawTx(tx)
      BY <2>3, <2>5, <2>6
    <2>8. \A k \in (j - 1)..(i - 1) : k \in 1..(i - 1) /\ k + 1 \in j..i
      BY <2>1, <2>5
    <2>9. \A k \in (j - 1)..(i - 1) : ~ IsBlock(q2, k)
      BY <2>3, <2>6, <2>8
    <2> QED
      BY <2>5, <2>7, <2>9 DEF TestedBefore
  <1> QED
    BY <1>3, <1>4 DEF q2

---------------------------------------------------------------------------
(***************************************************************************)
(* Blocks, and how many of them match                                       *)
(***************************************************************************)
MatchingHeights(ch) == {h \in 1..Len(ch) : ch[h] \cap Matching # {}}

\* A longer chain has no fewer blocks with matching transactions.
LEMMA FewBlocksShorter ==
  ASSUME NEW ch \in Seq(SUBSET Tx), NEW ch2 \in Seq(SUBSET Tx), Len(ch) <= Len(ch2),
         \A h \in 1..Len(ch) : ch2[h] = ch[h],
         FewBlocks(ch2)
  PROVE  FewBlocks(ch)
  <1>1. Len(ch) \in Nat /\ Len(ch2) \in Nat
    OBVIOUS
  <1>2. MatchingHeights(ch) \subseteq MatchingHeights(ch2)
    BY <1>1 DEF MatchingHeights
  <1>3. IsFiniteSet(MatchingHeights(ch2))
    <2>1. IsFiniteSet(1..Len(ch2))
      BY <1>1, FS_Interval
    <2>2. MatchingHeights(ch2) \in SUBSET (1..Len(ch2))
      BY DEF MatchingHeights
    <2> QED
      BY <2>1, <2>2, FS_Subset
  <1>4. IsFiniteSet(MatchingHeights(ch))
        /\ Cardinality(MatchingHeights(ch)) <= Cardinality(MatchingHeights(ch2))
    BY <1>2, <1>3, FS_Subset
  <1>5. Cardinality(MatchingHeights(ch)) \in Nat /\ Cardinality(MatchingHeights(ch2)) \in Nat
    BY <1>3, <1>4, FS_CardinalityType
  <1>6. CacheSize \in Nat
    BY CacheSizeAssumption
  <1>7. Cardinality(MatchingHeights(ch2)) <= CacheSize
    BY DEF FewBlocks, MatchingHeights
  <1>8. Cardinality(MatchingHeights(ch)) <= CacheSize
    BY <1>4, <1>5, <1>6, <1>7
  <1> QED
    BY <1>8 DEF FewBlocks, MatchingHeights

\* The cache holds no block twice and only blocks with matching transactions.
LEMMA BlocksFit ==
  ASSUME NEW ch \in Seq(SUBSET Tx), NEW c, NEW q, CacheOf(c, ch, q), FewBlocks(ch)
  PROVE  Len(c.blocks) <= CacheSize
  <1>1. Len(ch) \in Nat /\ Len(c.blocks) \in Nat
    BY DEF CacheOf, IsCacheOfCall
  <1>2. IsFiniteSet(MatchingHeights(ch))
    <2>1. IsFiniteSet(1..Len(ch))
      BY <1>1, FS_Interval
    <2>2. MatchingHeights(ch) \in SUBSET (1..Len(ch))
      BY DEF MatchingHeights
    <2> QED
      BY <2>1, <2>2, FS_Subset
  <1> DEFINE n == Len(c.blocks)
             hash == [i \in 1..n |-> c.blocks[i].hash]
  <1>3. \A i \in 1..n : c.blocks[i].hash \in MatchingHeights(ch)
    BY DEF CacheOf, Past, MatchingHeights
  <1>4. \A i, j \in 1..n : i < j => c.blocks[i].hash < c.blocks[j].hash
    BY DEF CacheOf
  <1>5. \A i, j \in 1..n : c.blocks[i].hash = c.blocks[j].hash => i = j
    <2>1. \A i \in 1..n : c.blocks[i].hash \in Nat
      BY <1>1, <1>3 DEF MatchingHeights
    <2>2. \A i, j \in 1..n : i < j \/ j < i \/ i = j
      BY <1>1
    <2>3. \A x, y \in Nat : x < y => x # y
      OBVIOUS
    <2> QED
      BY <1>4, <2>1, <2>2, <2>3
  <1>6. hash \in Injection(1..n, MatchingHeights(ch))
    BY <1>3, <1>5 DEF Injection, IsInjective
  <1> HIDE DEF hash
  <1>7. Cardinality(1..n) <= Cardinality(MatchingHeights(ch))
    <2> DEFINE S == 1..n
               T == MatchingHeights(ch)
    <2>1. hash \in Injection(S, T) /\ IsFiniteSet(T)
      BY <1>2, <1>6
    <2> HIDE DEF S, T
    <2>2. Cardinality(S) <= Cardinality(T)
      BY <2>1, FS_Injection
    <2> QED
      BY <2>2 DEF S, T
  <1>8. Cardinality(1..n) = n
    <2>1. n \in Nat
      BY <1>1
    <2> HIDE DEF n
    <2> QED
      BY <2>1, FS_Interval
  <1>9. Cardinality(MatchingHeights(ch)) \in Nat
    BY <1>2, FS_CardinalityType
  <1>10. CacheSize \in Nat
    BY CacheSizeAssumption
  <1>11. Cardinality(MatchingHeights(ch)) <= CacheSize
    BY DEF FewBlocks, MatchingHeights
  <1> QED
    BY <1>1, <1>7, <1>8, <1>9, <1>10, <1>11

\* The chain grows, or blocks are announced: what is said of past blocks stays
\* true.
LEMMA LaterKeeps ==
  ASSUME NEW ch \in Seq(SUBSET Tx), NEW ch2 \in Seq(SUBSET Tx), Len(ch) <= Len(ch2),
         \A h \in 1..Len(ch) : ch2[h] = ch[h],
         NEW q, NEW q2, \A h : Past(h, ch, q) => Past(h, ch2, q2)
  PROVE  /\ \A c : CacheOf(c, ch, q) => CacheOf(c, ch2, q2)
         /\ \A c, s : StreamOK(c, s, ch, q) => StreamOK(c, s, ch2, q2)
  <1>1. Len(ch) \in Nat /\ Len(ch2) \in Nat /\ 1..Len(ch) \subseteq 1..Len(ch2)
    OBVIOUS
  <1>2. ASSUME NEW c, CacheOf(c, ch, q)
        PROVE  CacheOf(c, ch2, q2)
    <2>1. \A i \in 1..Len(c.blocks) : c.blocks[i].hash \in 1..Len(ch)
      BY <1>2 DEF CacheOf, Past
    <2>2. \A i \in 1..Len(c.blocks) :
            /\ Past(c.blocks[i].hash, ch2, q2)
            /\ c.blocks[i].txs = ch2[c.blocks[i].hash]
            /\ c.merkleBlocks[i].hash = c.blocks[i].hash
            /\ c.merkleBlocks[i].matched = ch2[c.blocks[i].hash] \cap Matching
            /\ c.merkleBlocks[i].matched # {}
            /\ c.merkleBlocks[i].matched \subseteq DOMAIN c.transactions
      BY <2>1, <1>2 DEF CacheOf
    <2> QED
      BY <2>2, <1>2 DEF CacheOf
  <1>3. ASSUME NEW c, NEW s, StreamOK(c, s, ch, q)
        PROVE  StreamOK(c, s, ch2, q2)
    <2>1. FollowsIn(s, ch2)
      <3>1. FollowsIn(s, ch)
        BY <1>3 DEF StreamOK
      <3> QED
        BY <3>1, <1>1 DEF FollowsIn
    <2>2. FewBlocks(ch2) => FewBlocks(ch)
      BY FewBlocksShorter
    <2>3. FewBlocks(ch2) => KnownOK(c, s)
      BY <1>3, <2>2 DEF StreamOK
    <2>4. ASSUME Calm(ch2)
          PROVE  OnceOK(c, s, ch2, q2)
      <3>1. OnceOK(c, s, ch, q)
        BY <1>3, <2>2, <2>4 DEF StreamOK, Calm
      <3>2. \A tx : Settled(tx, ch, q) => Settled(tx, ch2, q2)
        BY <1>1 DEF Settled
      <3> QED
        BY <3>1, <3>2 DEF OnceOK
    <2>5. ProofsOK(c, s, ch2, q2)
      BY <1>3 DEF StreamOK, ProofsOK
    <2> QED
      BY <2>1, <2>3, <2>4, <2>5, <1>3 DEF StreamOK
  <1> QED
    BY <1>2, <1>3

---------------------------------------------------------------------------
(***************************************************************************)
(* The cache                                                                *)
(***************************************************************************)

\* d is c without the block at position k of both arrays and without its
\* transactions.
Dropped(c, d, k) ==
  /\ IsCache(d)
  /\ d.transactions = Restrict(c.transactions, DOMAIN c.transactions \ c.blocks[k].txs)
  /\ d.blocks = RemoveAt(c.blocks, k)
  /\ d.merkleBlocks = RemoveAt(c.merkleBlocks, k)
  /\ d.unretrievedInstantLocks = c.unretrievedInstantLocks

\* What is left is still the cache of the call.
LEMMA DropBlock ==
  ASSUME NEW ch, NEW mp, ChainOK(ch, mp), NEW q, NEW c, CacheOf(c, ch, q),
         NEW k \in 1..Len(c.blocks), NEW d, Dropped(c, d, k)
  PROVE  /\ CacheOf(d, ch, q)
         /\ \A i \in 1..Len(d.merkleBlocks) :
              \E j \in 1..Len(c.merkleBlocks) : d.merkleBlocks[i] = c.merkleBlocks[j]
  <1> DEFINE n == Len(c.blocks)
             from(i) == IF i < k THEN i ELSE i + 1
  <1>1. /\ c.blocks \in Seq(CachedBlock) /\ c.merkleBlocks \in Seq(MerkleBlock)
        /\ Len(c.merkleBlocks) = n /\ n \in Nat
    BY DEF CacheOf, IsCacheOfCall
  <1>2. /\ d.blocks \in Seq(CachedBlock) /\ Len(d.blocks) = n - 1
        /\ \A i \in 1..(n - 1) : d.blocks[i] = IF i < k THEN c.blocks[i] ELSE c.blocks[i + 1]
    <2> DEFINE m == c.blocks
    <2>1. m \in Seq(CachedBlock) /\ k \in 1..Len(m) /\ Len(m) = n
      BY <1>1
    <2> HIDE DEF m, n
    <2>2. /\ RemoveAt(m, k) \in Seq(CachedBlock) /\ Len(RemoveAt(m, k)) = Len(m) - 1
          /\ \A i \in 1..(Len(m) - 1) :
               RemoveAt(m, k)[i] = IF i < k THEN m[i] ELSE m[i + 1]
      BY <2>1, RemoveAtCases
    <2> QED
      BY <2>1, <2>2 DEF m, Dropped
  <1>3. /\ d.merkleBlocks \in Seq(MerkleBlock) /\ Len(d.merkleBlocks) = n - 1
        /\ \A i \in 1..(n - 1) :
             d.merkleBlocks[i] = IF i < k THEN c.merkleBlocks[i] ELSE c.merkleBlocks[i + 1]
    <2> DEFINE m == c.merkleBlocks
    <2>1. m \in Seq(MerkleBlock) /\ k \in 1..Len(m) /\ Len(m) = n
      BY <1>1
    <2> HIDE DEF m, n
    <2>2. /\ RemoveAt(m, k) \in Seq(MerkleBlock) /\ Len(RemoveAt(m, k)) = Len(m) - 1
          /\ \A i \in 1..(Len(m) - 1) :
               RemoveAt(m, k)[i] = IF i < k THEN m[i] ELSE m[i + 1]
      BY <2>1, RemoveAtCases
    <2> QED
      BY <2>1, <2>2 DEF m, Dropped
  <1>4. /\ \A i \in 1..(n - 1) : from(i) \in 1..n /\ from(i) # k
        /\ \A i, j \in 1..(n - 1) : i < j => from(i) < from(j)
    BY <1>1
  <1>5. \A i \in 1..(n - 1) : /\ d.blocks[i] = c.blocks[from(i)]
                              /\ d.merkleBlocks[i] = c.merkleBlocks[from(i)]
    BY <1>2, <1>3
  <1> HIDE DEF from
  <1>6. /\ DOMAIN d.transactions = DOMAIN c.transactions \ c.blocks[k].txs
        /\ \A tx \in DOMAIN d.transactions : d.transactions[tx] = c.transactions[tx]
        /\ d.transactions \in [DOMAIN d.transactions -> BOOLEAN]
        /\ DOMAIN d.transactions \subseteq Matching
    <2> DEFINE D == DOMAIN c.transactions \ c.blocks[k].txs
    <2>1. \A tx \in D : c.transactions[tx] \in BOOLEAN
      BY DEF CacheOf, IsCacheOfCall
    <2>2. D \subseteq Matching
      BY DEF CacheOf, IsCacheOfCall
    <2>3. d.transactions = [tx \in D |-> c.transactions[tx]]
      BY DEF Restrict, Dropped
    <2> HIDE DEF D
    <2>4. d.transactions \in [D -> BOOLEAN] /\ DOMAIN d.transactions = D
          /\ \A tx \in D : d.transactions[tx] = c.transactions[tx]
      BY <2>1, <2>3
    <2> QED
      BY <2>2, <2>4 DEF D
  <1>7. IsCacheOfCall(d)
    BY <1>2, <1>3, <1>6 DEF CacheOf, IsCacheOfCall, Dropped
  <1>8. \A i \in 1..n : i # k => c.blocks[i].txs \cap c.blocks[k].txs = {}
    <2>1. \A i \in 1..n : /\ c.blocks[i].hash \in 1..Len(ch)
                          /\ c.blocks[i].txs = ch[c.blocks[i].hash]
      BY DEF CacheOf, Past
    <2>2. \A i, j \in 1..n : i < j => c.blocks[i].hash < c.blocks[j].hash
      BY DEF CacheOf
    <2>3. Len(ch) \in Nat /\ \A i \in 1..n : c.blocks[i].hash \in Nat
      BY <2>1 DEF ChainOK
    <2>4. \A i \in 1..n : i < k \/ k < i \/ i = k
      BY <1>1
    <2>5. \A x, y \in Nat : x < y => x # y
      OBVIOUS
    <2>6. \A i \in 1..n : i # k => c.blocks[i].hash # c.blocks[k].hash
      BY <2>2, <2>3, <2>4, <2>5
    <2> QED
      BY <2>1, <2>6 DEF ChainOK
  <1>9. ASSUME NEW i \in 1..Len(d.blocks)
        PROVE  /\ Past(d.blocks[i].hash, ch, q)
               /\ d.blocks[i].txs = ch[d.blocks[i].hash]
               /\ d.merkleBlocks[i].hash = d.blocks[i].hash
               /\ d.merkleBlocks[i].matched = ch[d.blocks[i].hash] \cap Matching
               /\ d.merkleBlocks[i].matched # {}
               /\ d.merkleBlocks[i].matched \subseteq DOMAIN d.transactions
    <2> DEFINE j == from(i)
    <2>1. /\ j \in 1..n /\ j # k
          /\ d.blocks[i] = c.blocks[j] /\ d.merkleBlocks[i] = c.merkleBlocks[j]
      BY <1>2, <1>4, <1>5
    <2> HIDE DEF j
    <2>2. /\ Past(c.blocks[j].hash, ch, q)
          /\ c.blocks[j].txs = ch[c.blocks[j].hash]
          /\ c.merkleBlocks[j].hash = c.blocks[j].hash
          /\ c.merkleBlocks[j].matched = ch[c.blocks[j].hash] \cap Matching
          /\ c.merkleBlocks[j].matched # {}
          /\ c.merkleBlocks[j].matched \subseteq DOMAIN c.transactions
      BY <2>1 DEF CacheOf
    <2>3. c.blocks[j].txs \cap c.blocks[k].txs = {}
      BY <2>1, <1>8
    <2>4. c.merkleBlocks[j].matched \subseteq DOMAIN d.transactions
      BY <2>2, <2>3, <1>6
    <2> QED
      BY <2>1, <2>2, <2>4
  <1>10. ASSUME NEW i \in 1..Len(d.blocks), NEW j \in 1..Len(d.blocks), i < j
         PROVE  d.blocks[i].hash < d.blocks[j].hash
    <2>1. from(i) \in 1..n /\ from(j) \in 1..n /\ from(i) < from(j)
      BY <1>2, <1>4, <1>10
    <2>2. c.blocks[from(i)].hash < c.blocks[from(j)].hash
      BY <2>1 DEF CacheOf
    <2> QED
      BY <2>2, <1>2, <1>5
  <1>11. CacheOf(d, ch, q)
    BY <1>2, <1>3, <1>7, <1>9, <1>10 DEF CacheOf
  <1>12. \A i \in 1..Len(d.merkleBlocks) :
           \E j \in 1..Len(c.merkleBlocks) : d.merkleBlocks[i] = c.merkleBlocks[j]
    BY <1>1, <1>3, <1>4, <1>5
  <1> QED
    BY <1>11, <1>12

\* The hashes of both arrays are those of one position.
LEMMA OneHash ==
  ASSUME NEW ch, NEW q, NEW c, CacheOf(c, ch, q), ch \in Seq(SUBSET Tx),
         NEW k \in 1..Len(c.blocks)
  PROVE  /\ \A i \in 1..Len(c.blocks) : c.blocks[i].hash = c.blocks[k].hash => i = k
         /\ \A i \in 1..Len(c.merkleBlocks) : c.merkleBlocks[i].hash = c.blocks[k].hash => i = k
         /\ c.merkleBlocks[k].hash = c.blocks[k].hash
  <1>1. \A i \in 1..Len(c.blocks) : c.blocks[i].hash \in Nat
    BY DEF CacheOf, Past
  <1>2. \A i \in 1..Len(c.blocks) : i < k \/ k < i \/ i = k
    OBVIOUS
  <1>3. \A x, y \in Nat : x < y => x # y
    OBVIOUS
  <1>4. \A i \in 1..Len(c.blocks) : c.blocks[i].hash = c.blocks[k].hash => i = k
    BY <1>1, <1>2, <1>3 DEF CacheOf
  <1>5. \A i \in 1..Len(c.merkleBlocks) :
          i \in 1..Len(c.blocks) /\ c.merkleBlocks[i].hash = c.blocks[i].hash
    BY DEF CacheOf
  <1> QED
    BY <1>4, <1>5 DEF CacheOf

\* What an operation on the cache may do to what is cached, for the stream's
\* sake: no flag is set, what is lost is in an announced block.
OnlyAdds(c, d, ch, q) ==
  /\ \A tx \in DOMAIN d.transactions :
       d.transactions[tx] => tx \in DOMAIN c.transactions /\ c.transactions[tx]
  /\ \A tx \in DOMAIN c.transactions :
       \/ tx \in DOMAIN d.transactions /\ d.transactions[tx] = c.transactions[tx]
       \/ tx \notin DOMAIN d.transactions
          /\ \E h \in 1..Len(ch) : tx \in ch[h] /\ Past(h, ch, q)

\* HISTORICAL_BLOCK_SENT.
LEMMA ForgetBlock ==
  ASSUME NEW ch, NEW mp, ChainOK(ch, mp), NEW q, NEW c, CacheOf(c, ch, q), NEW h
  PROVE  LET d == RemoveDataByBlockHash(c, h)
         IN  /\ CacheOf(d, ch, q)
             /\ \A i \in 1..Len(d.merkleBlocks) :
                  \E j \in 1..Len(c.merkleBlocks) : d.merkleBlocks[i] = c.merkleBlocks[j]
             /\ OnlyAdds(c, d, ch, q)
             /\ DOMAIN d.transactions \subseteq DOMAIN c.transactions
             /\ DOMAIN c.transactions \ DOMAIN d.transactions \subseteq ch[h] \cap Matching
             /\ d.transactionHashesMap = c.transactionHashesMap
             /\ d.unretrievedInstantLocks = c.unretrievedInstantLocks
             /\ c.blocks = << >> => d.blocks = << >>
  <1> DEFINE d == RemoveDataByBlockHash(c, h)
             found == {b \in ToSet(c.blocks) : b.hash = h}
  <1>1. CASE found = {}
    <2>1. d = c
      BY <1>1 DEF RemoveDataByBlockHash
    <2> HIDE DEF d
    <2>2. OnlyAdds(c, c, ch, q)
      BY DEF OnlyAdds
    <2> QED
      BY <2>1, <2>2 DEF d
  <1>2. CASE found # {}
    <2> DEFINE b == CHOOSE x \in found : TRUE
    <2>1. b \in found /\ d = RemoveDataByBlock(c, b)
      BY <1>2 DEF RemoveDataByBlockHash
    <2> HIDE DEF b
    <2>2. c.blocks \in Seq(CachedBlock) /\ c.merkleBlocks \in Seq(MerkleBlock)
      BY DEF CacheOf, IsCacheOfCall
    <2>3. b \in ToSet(c.blocks) /\ b.hash = h
      BY <2>1
    <2>4. PICK k \in 1..Len(c.blocks) : c.blocks[k] = b
      BY <2>2, <2>3 DEF ToSet
    <2>5. /\ \A i \in 1..Len(c.blocks) : c.blocks[i].hash = b.hash => i = k
          /\ \A i \in 1..Len(c.merkleBlocks) : c.merkleBlocks[i].hash = b.hash => i = k
          /\ c.merkleBlocks[k].hash = b.hash
          /\ k \in 1..Len(c.merkleBlocks)
      <3>1. ch \in Seq(SUBSET Tx) /\ Len(c.merkleBlocks) = Len(c.blocks)
        BY DEF ChainOK, CacheOf
      <3> QED
        BY <3>1, <2>4, OneHash
    <2>6. RemoveLastWithHash(c.blocks, b.hash) = RemoveAt(c.blocks, k)
      BY <2>2, <2>4, <2>5, RemoveUnique
    <2>7. RemoveLastWithHash(c.merkleBlocks, b.hash) = RemoveAt(c.merkleBlocks, k)
      BY <2>2, <2>5, RemoveUnique
    <2>8. /\ IsCache(d)
          /\ d.transactions = Restrict(c.transactions, DOMAIN c.transactions \ b.txs)
          /\ d.merkleBlocks = RemoveAt(c.merkleBlocks, k)
          /\ d.blocks = RemoveAt(c.blocks, k)
          /\ d.transactionHashesMap = c.transactionHashesMap
          /\ d.unretrievedInstantLocks = c.unretrievedInstantLocks
      <3>1. IsCache(c)
        BY DEF CacheOf, IsCacheOfCall
      <3> HIDE DEF d
      <3> QED
        BY <3>1, <2>1, <2>6, <2>7, RemoveDataByBlockIs
    <2> HIDE DEF d
    <2>9. /\ CacheOf(d, ch, q)
          /\ \A i \in 1..Len(d.merkleBlocks) :
               \E j \in 1..Len(c.merkleBlocks) : d.merkleBlocks[i] = c.merkleBlocks[j]
      <3>1. Dropped(c, d, k)
        BY <2>4, <2>8 DEF Dropped
      <3> QED
        BY <3>1, DropBlock
    <2>10. /\ DOMAIN d.transactions = DOMAIN c.transactions \ b.txs
           /\ \A tx \in DOMAIN d.transactions : d.transactions[tx] = c.transactions[tx]
      BY <2>8, RestrictIs
    <2>11. b.txs = ch[h] /\ Past(h, ch, q) /\ h \in 1..Len(ch)
           /\ DOMAIN c.transactions \subseteq Matching
      BY <2>3, <2>4 DEF CacheOf, IsCacheOfCall, Past
    <2>12. OnlyAdds(c, d, ch, q)
      BY <2>10, <2>11 DEF OnlyAdds
    <2>13. c.blocks # << >>
      BY <2>2, <2>4
    <2> QED
      BY <2>8, <2>9, <2>10, <2>11, <2>12, <2>13 DEF d
  <1> QED
    BY <1>1, <1>2

\* addTransaction.
LEMMA AddTested ==
  ASSUME NEW ch, NEW q, NEW c, CacheOf(c, ch, q), NEW txs \in SUBSET Matching
  PROVE  LET d == AddTransactions(c, txs)
         IN  /\ CacheOf(d, ch, q)
             /\ OnlyAdds(c, d, ch, q)
             /\ d.blocks = c.blocks /\ d.merkleBlocks = c.merkleBlocks
             /\ DOMAIN d.transactions = DOMAIN c.transactions \cup txs
             /\ \A tx \in DOMAIN c.transactions : d.transactions[tx] = c.transactions[tx]
             /\ DOMAIN d.transactionHashesMap = DOMAIN c.transactionHashesMap \cup txs
             /\ d.unretrievedInstantLocks = c.unretrievedInstantLocks
  <1> DEFINE d == AddTransactions(c, txs)
  <1>0. /\ IsCache(c) /\ c.transactions \in [DOMAIN c.transactions -> BOOLEAN]
        /\ DOMAIN c.transactions \subseteq Matching
    BY DEF CacheOf, IsCacheOfCall
  <1>1. /\ IsCache(d)
        /\ d.transactions = PutIfAbsent(c.transactions, txs, FALSE)
        /\ d.transactionHashesMap =
             PutIfAbsent(c.transactionHashesMap, txs, c.blocksProcessed)
        /\ d.merkleBlocks = c.merkleBlocks /\ d.blocks = c.blocks
        /\ d.unretrievedInstantLocks = c.unretrievedInstantLocks
    BY <1>0, AddTransactionsIs
  <1> HIDE DEF d
  <1>2. DOMAIN d.transactionHashesMap = DOMAIN c.transactionHashesMap \cup txs
    <2> DEFINE f == c.transactionHashesMap
               g == d.transactionHashesMap
               v == c.blocksProcessed
    <2>1. g = PutIfAbsent(f, txs, v)
      BY <1>1
    <2> HIDE DEF f, g, v
    <2>2. DOMAIN g = DOMAIN f \cup txs
      BY <2>1, PutIfAbsentIs
    <2> QED
      BY <2>2 DEF f, g
  <1>3. /\ DOMAIN d.transactions = DOMAIN c.transactions \cup txs
        /\ \A tx \in DOMAIN d.transactions :
             d.transactions[tx] =
               IF tx \in DOMAIN c.transactions THEN c.transactions[tx] ELSE FALSE
        /\ d.transactions = [tx \in DOMAIN d.transactions |-> d.transactions[tx]]
    <2> DEFINE f == c.transactions
               g == d.transactions
    <2>1. g = PutIfAbsent(f, txs, FALSE)
      BY <1>1
    <2> HIDE DEF f, g
    <2>2. /\ DOMAIN g = DOMAIN f \cup txs
          /\ \A tx \in DOMAIN g : g[tx] = IF tx \in DOMAIN f THEN f[tx] ELSE FALSE
          /\ g = [tx \in DOMAIN g |-> g[tx]]
      BY <2>1 DEF PutIfAbsent
    <2> QED
      BY <2>2 DEF f, g
  <1>4. /\ d.transactions \in [DOMAIN d.transactions -> BOOLEAN]
        /\ DOMAIN d.transactions \subseteq Matching
    <2> DEFINE f == d.transactions
    <2>1. \A tx \in DOMAIN f : f[tx] \in BOOLEAN
      BY <1>0, <1>3
    <2>2. f = [tx \in DOMAIN f |-> f[tx]]
      BY <1>3
    <2> HIDE DEF f
    <2>3. f \in [DOMAIN f -> BOOLEAN]
      BY <2>1, <2>2
    <2> QED
      BY <2>3, <1>0, <1>3 DEF f
  <1>5. IsCacheOfCall(d)
    BY <1>1, <1>4 DEF CacheOf, IsCacheOfCall
  <1>6. CacheOf(d, ch, q)
    <2>1. \A i \in 1..Len(c.blocks) : c.merkleBlocks[i].matched \subseteq DOMAIN d.transactions
      BY <1>3 DEF CacheOf
    <2> QED
      BY <1>1, <1>5, <2>1 DEF CacheOf
  <1>7. OnlyAdds(c, d, ch, q)
    BY <1>3 DEF OnlyAdds
  <1>8. \A tx \in DOMAIN c.transactions : d.transactions[tx] = c.transactions[tx]
    BY <1>3
  <1> QED
    BY <1>1, <1>2, <1>3, <1>6, <1>7, <1>8 DEF d

\* What does not touch transactions and blocks.
LEMMA SameCached ==
  ASSUME NEW ch, NEW q, NEW c, CacheOf(c, ch, q), NEW d, IsCache(d),
         d.transactions = c.transactions, d.merkleBlocks = c.merkleBlocks,
         d.blocks = c.blocks, d.unretrievedInstantLocks \subseteq Matching
  PROVE  CacheOf(d, ch, q) /\ OnlyAdds(c, d, ch, q)
  BY DEF CacheOf, IsCacheOfCall, OnlyAdds

\* The oldest block goes from both arrays.
LEMMA RemoveFirstIsTail ==
  ASSUME NEW S, NEW s \in Seq(S), s # << >>
  PROVE  RemoveAt(s, 1) = Tail(s)
  <1>1. 1 \in 1..Len(s) /\ Len(s) \in Nat
    OBVIOUS
  <1>2. /\ RemoveAt(s, 1) \in Seq(S) /\ Len(RemoveAt(s, 1)) = Len(s) - 1
        /\ \A i \in 1..(Len(s) - 1) : RemoveAt(s, 1)[i] = IF i < 1 THEN s[i] ELSE s[i + 1]
    BY <1>1, RemoveAtCases
  <1>3. /\ Tail(s) \in Seq(S) /\ Len(Tail(s)) = Len(s) - 1
        /\ \A i \in 1..(Len(s) - 1) : Tail(s)[i] = s[i + 1]
    BY HeadTailProperties
  <1>4. \A i \in 1..(Len(s) - 1) : RemoveAt(s, 1)[i] = s[i + 1]
    BY <1>1, <1>2
  <1> QED
    BY <1>2, <1>3, <1>4, SeqEqual

\* The eviction: nothing, or the block at position 1.
LEMMA EvictOldestIs ==
  ASSUME NEW ch \in Seq(SUBSET Tx), NEW q, NEW c, CacheOf(c, ch, q)
  PROVE  LET d == EvictOldest(c)
         IN  \/ d = c
             \/ /\ Len(c.blocks) > CacheSize
                /\ 1 \in 1..Len(c.blocks) /\ Dropped(c, d, 1)
                /\ d.transactionHashesMap = c.transactionHashesMap
  <1> DEFINE d == EvictOldest(c)
  <1>1. CASE ~ (Len(c.blocks) > CacheSize)
    BY <1>1 DEF EvictOldest
  <1>2. CASE Len(c.blocks) > CacheSize
    <2>1. /\ IsCache(c) /\ c.blocks \in Seq(CachedBlock) /\ c.merkleBlocks \in Seq(MerkleBlock)
          /\ Len(c.merkleBlocks) = Len(c.blocks)
      BY DEF CacheOf, IsCacheOfCall
    <2>2. 1 \in 1..Len(c.blocks) /\ c.blocks # << >> /\ CacheSize \in Nat
      BY <1>2, <2>1, CacheSizeAssumption
    <2> DEFINE b == Head(c.blocks)
               r == [c EXCEPT !.blocks = Tail(c.blocks)]
    <2>3. d = RemoveDataByBlock(r, b)
      BY <1>2 DEF EvictOldest
    <2>4. b = c.blocks[1]
      BY <2>1, <2>2
    <2> HIDE DEF b, d
    <2>5. /\ IsCache(r) /\ r.blocks = Tail(c.blocks)
          /\ r.transactions = c.transactions /\ r.merkleBlocks = c.merkleBlocks
          /\ r.transactionHashesMap = c.transactionHashesMap
          /\ r.unretrievedInstantLocks = c.unretrievedInstantLocks
      <3> DEFINE t == Tail(c.blocks)
      <3> HIDE DEF t
      <3>1. LET e == [c EXCEPT !.blocks = t]
            IN  /\ IsCache(e) /\ e.blocks = t
                /\ e.transactions = c.transactions /\ e.merkleBlocks = c.merkleBlocks
                /\ e.transactionHashesMap = c.transactionHashesMap
                /\ e.unretrievedInstantLocks = c.unretrievedInstantLocks
        BY <2>1 DEF IsCache
      <3> QED
        BY <3>1 DEF t
    <2> HIDE DEF r
    <2>6. /\ \A i \in 1..Len(c.blocks) : c.blocks[i].hash = b.hash => i = 1
          /\ \A i \in 1..Len(c.merkleBlocks) : c.merkleBlocks[i].hash = b.hash => i = 1
          /\ c.merkleBlocks[1].hash = b.hash
      BY <2>2, <2>4, OneHash
    <2>7. RemoveLastWithHash(c.merkleBlocks, b.hash) = RemoveAt(c.merkleBlocks, 1)
      <3>1. 1 \in 1..Len(c.merkleBlocks)
        BY <2>1, <2>2
      <3> QED
        BY <3>1, <2>1, <2>6, RemoveUnique
    <2>8. RemoveLastWithHash(Tail(c.blocks), b.hash) = RemoveAt(c.blocks, 1)
      <3> DEFINE t == Tail(c.blocks)
      <3>1. /\ t \in Seq(CachedBlock) /\ Len(t) = Len(c.blocks) - 1
            /\ \A i \in 1..Len(t) : t[i] = c.blocks[i + 1]
        BY <2>1, <2>2, HeadTailProperties
      <3>2. t = RemoveAt(c.blocks, 1)
        BY <2>1, <2>2, RemoveFirstIsTail
      <3> HIDE DEF t
      <3>3. ASSUME NEW i \in 1..Len(t)
            PROVE  t[i].hash # b.hash
        <4>1. i + 1 \in 1..Len(c.blocks) /\ i + 1 # 1
          BY <3>1, <2>1
        <4> QED
          BY <4>1, <3>1, <2>6
      <3>4. RemoveLastWithHash(t, b.hash) = t
        BY <3>1, <3>3, RemoveAbsent
      <3> QED
        BY <3>2, <3>4 DEF t
    <2>9. /\ IsCache(d)
          /\ d.transactions = Restrict(c.transactions, DOMAIN c.transactions \ b.txs)
          /\ d.merkleBlocks = RemoveAt(c.merkleBlocks, 1)
          /\ d.blocks = RemoveAt(c.blocks, 1)
          /\ d.transactionHashesMap = c.transactionHashesMap
          /\ d.unretrievedInstantLocks = c.unretrievedInstantLocks
      <3>1. /\ IsCache(d)
            /\ d.transactions = Restrict(r.transactions, DOMAIN r.transactions \ b.txs)
            /\ d.merkleBlocks = RemoveLastWithHash(r.merkleBlocks, b.hash)
            /\ d.blocks = RemoveLastWithHash(r.blocks, b.hash)
            /\ d.transactionHashesMap = r.transactionHashesMap
            /\ d.unretrievedInstantLocks = r.unretrievedInstantLocks
        <4>1. IsCache(r)
          BY <2>5
        <4> QED
          BY <4>1, <2>3, RemoveDataByBlockIs
      <3> QED
        BY <3>1, <2>5, <2>7, <2>8
    <2>10. Dropped(c, d, 1)
      BY <2>4, <2>9 DEF Dropped
    <2> QED
      BY <1>2, <2>2, <2>9, <2>10 DEF d
  <1> QED
    BY <1>1, <1>2

\* A merkle block and a block are pushed: the block comes after those cached
\* and its matching transactions are.
LEMMA PushNext ==
  ASSUME NEW ch \in Seq(SUBSET Tx), NEW q, NEW c, CacheOf(c, ch, q),
         NEW h, Past(h, ch, q), \A i \in 1..Len(c.blocks) : c.blocks[i].hash < h,
         ch[h] \cap Matching \subseteq DOMAIN c.transactions,
         ch[h] \cap DOMAIN c.transactions # {}
  PROVE  LET d == PushBlock(c, [hash |-> h, txs |-> ch[h]])
         IN  /\ CacheOf(d, ch, q)
             /\ \A i \in 1..Len(d.merkleBlocks) :
                  \/ \E j \in 1..Len(c.merkleBlocks) : d.merkleBlocks[i] = c.merkleBlocks[j]
                  \/ d.merkleBlocks[i].hash = h /\ ~ d.merkleBlocks[i].isRetrieved
             /\ d.transactions = c.transactions
             /\ d.transactionHashesMap = c.transactionHashesMap
             /\ d.unretrievedInstantLocks = c.unretrievedInstantLocks
  <1> DEFINE b == [hash |-> h, txs |-> ch[h]]
             m == [hash |-> h, matched |-> ch[h] \cap DOMAIN c.transactions,
                   isRetrieved |-> FALSE]
             d == PushBlock(c, b)
             n == Len(c.blocks)
  <1>1. /\ IsCacheOfCall(c) /\ IsCache(c)
        /\ c.blocks \in Seq(CachedBlock) /\ c.merkleBlocks \in Seq(MerkleBlock)
        /\ Len(c.merkleBlocks) = n /\ n \in Nat
        /\ DOMAIN c.transactions \subseteq Matching
    BY DEF CacheOf, IsCacheOfCall
  <1>2. h \in 1..Len(ch) /\ h \in Nat /\ ch[h] \in SUBSET Tx
    BY DEF Past
  <1>3. /\ b \in CachedBlock /\ b.hash = h /\ b.txs = ch[h]
        /\ m \in MerkleBlock /\ m.hash = h /\ ~ m.isRetrieved
        /\ m.matched = ch[h] \cap DOMAIN c.transactions
    BY <1>2 DEF CachedBlock, MerkleBlock
  <1>4. /\ IsCache(d)
        /\ d.merkleBlocks = Append(c.merkleBlocks, m) /\ d.blocks = Append(c.blocks, b)
        /\ d.transactions = c.transactions
        /\ d.transactionHashesMap = c.transactionHashesMap
        /\ d.unretrievedInstantLocks = c.unretrievedInstantLocks
    <2> HIDE DEF b
    <2>1. /\ IsCache(d)
          /\ d.merkleBlocks =
               Append(c.merkleBlocks, [hash |-> b.hash,
                                       matched |-> b.txs \cap DOMAIN c.transactions,
                                       isRetrieved |-> FALSE])
          /\ d.blocks = Append(c.blocks, b)
          /\ d.transactions = c.transactions
          /\ d.transactionHashesMap = c.transactionHashesMap
          /\ d.unretrievedInstantLocks = c.unretrievedInstantLocks
      BY <1>1, PushBlockIs
    <2> QED
      BY <2>1, <1>3
  <1> HIDE DEF b, m, d
  <1>5. m.matched = ch[h] \cap Matching /\ m.matched # {} /\ m.matched \subseteq DOMAIN c.transactions
    BY <1>1, <1>3
  <1>6. /\ d.blocks \in Seq(CachedBlock) /\ Len(d.blocks) = n + 1
        /\ \A i \in 1..n : d.blocks[i] = c.blocks[i]
        /\ d.blocks[n + 1] = b
    BY <1>1, <1>3, <1>4, AppendProperties
  <1>7. /\ d.merkleBlocks \in Seq(MerkleBlock) /\ Len(d.merkleBlocks) = n + 1
        /\ \A i \in 1..n : d.merkleBlocks[i] = c.merkleBlocks[i]
        /\ d.merkleBlocks[n + 1] = m
    BY <1>1, <1>3, <1>4, AppendProperties
  <1>8. /\ \A i \in 1..(n + 1) : i \in 1..n \/ i = n + 1
        /\ \A i, j \in 1..(n + 1) : i < j => i \in 1..n
    BY <1>1
  <1>9. IsCacheOfCall(d)
    BY <1>1, <1>4, <1>6, <1>7 DEF IsCacheOfCall
  <1>10. ASSUME NEW i \in 1..(n + 1)
         PROVE  /\ Past(d.blocks[i].hash, ch, q)
                /\ d.blocks[i].txs = ch[d.blocks[i].hash]
                /\ d.merkleBlocks[i].hash = d.blocks[i].hash
                /\ d.merkleBlocks[i].matched = ch[d.blocks[i].hash] \cap Matching
                /\ d.merkleBlocks[i].matched # {}
                /\ d.merkleBlocks[i].matched \subseteq DOMAIN d.transactions
    <2>1. CASE i \in 1..n
      BY <2>1, <1>4, <1>6, <1>7 DEF CacheOf
    <2>2. CASE i = n + 1
      BY <2>2, <1>3, <1>4, <1>5, <1>6, <1>7
    <2> QED
      BY <2>1, <2>2, <1>8
  <1>11. ASSUME NEW i \in 1..(n + 1), NEW j \in 1..(n + 1), i < j
         PROVE  d.blocks[i].hash < d.blocks[j].hash
    <2>1. CASE j \in 1..n
      BY <2>1, <1>6, <1>8, <1>11 DEF CacheOf
    <2>2. CASE j = n + 1
      BY <2>2, <1>3, <1>6, <1>8, <1>11
    <2> QED
      BY <2>1, <2>2, <1>8
  <1>12. CacheOf(d, ch, q)
    BY <1>6, <1>7, <1>9, <1>10, <1>11 DEF CacheOf
  <1>13. \A i \in 1..Len(d.merkleBlocks) :
           \/ \E j \in 1..Len(c.merkleBlocks) : d.merkleBlocks[i] = c.merkleBlocks[j]
           \/ d.merkleBlocks[i].hash = h /\ ~ d.merkleBlocks[i].isRetrieved
    BY <1>1, <1>3, <1>7, <1>8
  <1> QED
    BY <1>4, <1>12, <1>13 DEF d, b

\* The 'block' listener, for a block that comes after those cached and whose
\* matching transactions are cached unless no block is.
LEMMA HearBlock ==
  ASSUME NEW ch, NEW mp, ChainOK(ch, mp), NEW q, NEW c, CacheOf(c, ch, q),
         NEW h, Past(h, ch, q), \A i \in 1..Len(c.blocks) : c.blocks[i].hash < h,
         c.blocks = << >> \/ ch[h] \cap Matching \subseteq DOMAIN c.transactions
  PROVE  LET d == BlockListener(c, [hash |-> h, txs |-> ch[h]])
         IN  /\ CacheOf(d, ch, q)
             /\ OnlyAdds(c, d, ch, q)
             /\ DOMAIN d.transactions \subseteq DOMAIN c.transactions \cup ch[h]
             /\ \A i \in 1..Len(d.merkleBlocks) :
                  \/ \E j \in 1..Len(c.merkleBlocks) : d.merkleBlocks[i] = c.merkleBlocks[j]
                  \/ d.merkleBlocks[i].hash = h /\ ~ d.merkleBlocks[i].isRetrieved
             /\ d.unretrievedInstantLocks = c.unretrievedInstantLocks
             /\ FewBlocks(ch) =>
                  /\ DOMAIN c.transactions \subseteq DOMAIN d.transactions
                  /\ DOMAIN d.transactionHashesMap
                       \subseteq DOMAIN c.transactionHashesMap \cup DOMAIN d.transactions
  <1> DEFINE b == [hash |-> h, txs |-> ch[h]]
             X == ch[h] \cap Matching
             t == IF GetBlockCount(c) = 0 THEN AddTransactions(c, b.txs \cap Matching) ELSE c
             a == AgeWaitingList(t)
             p == PushBlock(a, b)
             d == BlockListener(c, b)
  <1>0. ch \in Seq(SUBSET Tx)
    BY DEF ChainOK
  <1>1. b.txs = ch[h] /\ b.hash = h
    OBVIOUS
  <1>2. d = IF ch[h] \cap DOMAIN t.transactions = {} THEN a ELSE EvictOldest(p)
    BY <1>1 DEF BlockListener, AddBlock
  <1>3. /\ CacheOf(t, ch, q) /\ OnlyAdds(c, t, ch, q)
        /\ t.blocks = c.blocks /\ t.merkleBlocks = c.merkleBlocks
        /\ DOMAIN c.transactions \subseteq DOMAIN t.transactions
        /\ DOMAIN t.transactions \subseteq DOMAIN c.transactions \cup ch[h]
        /\ X \subseteq DOMAIN t.transactions
        /\ DOMAIN t.transactionHashesMap
             \subseteq DOMAIN c.transactionHashesMap \cup DOMAIN t.transactions
        /\ t.unretrievedInstantLocks = c.unretrievedInstantLocks
    <2>1. CASE GetBlockCount(c) = 0
      <3>1. t = AddTransactions(c, X) /\ X \in SUBSET Matching
        BY <1>1, <2>1
      <3> HIDE DEF t, X
      <3>2. /\ CacheOf(t, ch, q) /\ OnlyAdds(c, t, ch, q)
            /\ t.blocks = c.blocks /\ t.merkleBlocks = c.merkleBlocks
            /\ DOMAIN t.transactions = DOMAIN c.transactions \cup X
            /\ DOMAIN t.transactionHashesMap = DOMAIN c.transactionHashesMap \cup X
            /\ t.unretrievedInstantLocks = c.unretrievedInstantLocks
        BY <3>1, AddTested
      <3>3. X \subseteq ch[h]
        BY DEF X
      <3> QED
        BY <3>2, <3>3
    <2>2. CASE GetBlockCount(c) # 0
      <3>1. t = c
        BY <2>2
      <3> HIDE DEF t
      <3>2. c.blocks # << >>
        BY <2>2 DEF GetBlockCount
      <3>3. X \subseteq DOMAIN c.transactions
        BY <3>2
      <3>4. OnlyAdds(c, c, ch, q)
        BY DEF OnlyAdds
      <3> HIDE DEF X
      <3> QED
        BY <3>1, <3>3, <3>4
    <2> QED
      BY <2>1, <2>2
  <1> HIDE DEF t, d, b
  <1>4. /\ CacheOf(a, ch, q)
        /\ a.blocks = t.blocks /\ a.merkleBlocks = t.merkleBlocks
        /\ a.transactions = t.transactions
        /\ DOMAIN a.transactionHashesMap \subseteq DOMAIN t.transactionHashesMap
        /\ a.unretrievedInstantLocks = t.unretrievedInstantLocks
    <2>1. IsCache(t) /\ t.unretrievedInstantLocks \subseteq Matching
      BY <1>3 DEF CacheOf, IsCacheOfCall
    <2>2. /\ IsCache(a)
          /\ DOMAIN a.transactionHashesMap \subseteq DOMAIN t.transactionHashesMap
          /\ a.transactions = t.transactions
          /\ a.merkleBlocks = t.merkleBlocks /\ a.blocks = t.blocks
          /\ a.unretrievedInstantLocks = t.unretrievedInstantLocks
      BY <2>1, AgeWaitingListIs
    <2> HIDE DEF a
    <2>3. CacheOf(a, ch, q)
      BY <1>3, <2>1, <2>2, SameCached
    <2> QED
      BY <2>2, <2>3
  <1> HIDE DEF a
  <1>5. CASE ch[h] \cap DOMAIN t.transactions = {}
    <2>1. d = a
      BY <1>2, <1>5
    <2>2. OnlyAdds(c, a, ch, q)
      BY <1>3, <1>4 DEF OnlyAdds
    <2>3. DOMAIN a.transactionHashesMap
            \subseteq DOMAIN c.transactionHashesMap \cup DOMAIN a.transactions
      BY <1>3, <1>4
    <2> QED
      BY <1>3, <1>4, <2>1, <2>2, <2>3 DEF d, b
  <1>6. CASE ch[h] \cap DOMAIN t.transactions # {}
    <2>1. d = EvictOldest(p)
      BY <1>2, <1>6
    <2>2. /\ CacheOf(p, ch, q)
          /\ \A i \in 1..Len(p.merkleBlocks) :
               \/ \E j \in 1..Len(a.merkleBlocks) : p.merkleBlocks[i] = a.merkleBlocks[j]
               \/ p.merkleBlocks[i].hash = h /\ ~ p.merkleBlocks[i].isRetrieved
          /\ p.transactions = a.transactions
          /\ p.transactionHashesMap = a.transactionHashesMap
          /\ p.unretrievedInstantLocks = a.unretrievedInstantLocks
      <3>1. /\ \A i \in 1..Len(a.blocks) : a.blocks[i].hash < h
            /\ ch[h] \cap Matching \subseteq DOMAIN a.transactions
            /\ ch[h] \cap DOMAIN a.transactions # {}
        BY <1>3, <1>4, <1>6
      <3>2. p = PushBlock(a, [hash |-> h, txs |-> ch[h]])
        BY DEF b
      <3> HIDE DEF p
      <3> QED
        BY <3>1, <3>2, <1>0, <1>4, PushNext, SMTT(30)
    <2> HIDE DEF p
    <2>3. /\ OnlyAdds(c, p, ch, q)
          /\ DOMAIN c.transactions \subseteq DOMAIN p.transactions
          /\ DOMAIN p.transactions \subseteq DOMAIN c.transactions \cup ch[h]
          /\ \A i \in 1..Len(p.merkleBlocks) :
               \/ \E j \in 1..Len(c.merkleBlocks) : p.merkleBlocks[i] = c.merkleBlocks[j]
               \/ p.merkleBlocks[i].hash = h /\ ~ p.merkleBlocks[i].isRetrieved
          /\ DOMAIN p.transactionHashesMap
               \subseteq DOMAIN c.transactionHashesMap \cup DOMAIN p.transactions
          /\ p.unretrievedInstantLocks = c.unretrievedInstantLocks
      BY <1>3, <1>4, <2>2 DEF OnlyAdds
    <2>4. \/ d = p
          \/ /\ Len(p.blocks) > CacheSize
             /\ 1 \in 1..Len(p.blocks) /\ Dropped(p, d, 1)
             /\ d.transactionHashesMap = p.transactionHashesMap
      BY <1>0, <2>1, <2>2, EvictOldestIs
    <2>5. CASE d = p
      BY <2>2, <2>3, <2>5 DEF d, b
    <2>6. CASE /\ Len(p.blocks) > CacheSize
               /\ 1 \in 1..Len(p.blocks) /\ Dropped(p, d, 1)
               /\ d.transactionHashesMap = p.transactionHashesMap
      <3>1. ~ FewBlocks(ch)
        <4>1. Len(p.blocks) \in Nat /\ CacheSize \in Nat
          BY <2>2, CacheSizeAssumption DEF CacheOf, IsCacheOfCall
        <4>2. FewBlocks(ch) => Len(p.blocks) <= CacheSize
          BY <1>0, <2>2, BlocksFit
        <4> QED
          BY <4>1, <4>2, <2>6
      <3>2. /\ CacheOf(d, ch, q)
            /\ \A i \in 1..Len(d.merkleBlocks) :
                 \E j \in 1..Len(p.merkleBlocks) : d.merkleBlocks[i] = p.merkleBlocks[j]
        BY <2>2, <2>6, DropBlock
      <3>3. \A i \in 1..Len(d.merkleBlocks) :
              \/ \E j \in 1..Len(c.merkleBlocks) : d.merkleBlocks[i] = c.merkleBlocks[j]
              \/ d.merkleBlocks[i].hash = h /\ ~ d.merkleBlocks[i].isRetrieved
        BY <3>2, <2>3
      <3> DEFINE g == p.blocks[1].hash
      <3>4. Past(g, ch, q) /\ p.blocks[1].txs = ch[g] /\ g \in 1..Len(ch)
        BY <2>2, <2>6 DEF CacheOf, Past
      <3>5. /\ d.transactions = Restrict(p.transactions, DOMAIN p.transactions \ ch[g])
            /\ d.unretrievedInstantLocks = p.unretrievedInstantLocks
        BY <3>4, <2>6 DEF Dropped
      <3> HIDE DEF g
      <3>6. /\ DOMAIN d.transactions = DOMAIN p.transactions \ ch[g]
            /\ \A tx \in DOMAIN d.transactions : d.transactions[tx] = p.transactions[tx]
        BY <3>5, RestrictIs
      <3>7. OnlyAdds(c, d, ch, q)
        <4>1. ASSUME NEW tx \in DOMAIN d.transactions, d.transactions[tx]
              PROVE  tx \in DOMAIN c.transactions /\ c.transactions[tx]
          BY <4>1, <3>6, <2>3 DEF OnlyAdds
        <4>2. ASSUME NEW tx \in DOMAIN c.transactions
              PROVE  \/ tx \in DOMAIN d.transactions /\ d.transactions[tx] = c.transactions[tx]
                     \/ tx \notin DOMAIN d.transactions
                        /\ \E x \in 1..Len(ch) : tx \in ch[x] /\ Past(x, ch, q)
          <5>1. tx \in DOMAIN p.transactions /\ p.transactions[tx] = c.transactions[tx]
            BY <2>3 DEF OnlyAdds
          <5>2. CASE tx \in ch[g]
            BY <5>2, <3>4, <3>6
          <5>3. CASE tx \notin ch[g]
            BY <5>1, <5>3, <3>6
          <5> QED
            BY <5>2, <5>3
        <4> QED
          BY <4>1, <4>2 DEF OnlyAdds
      <3>8. DOMAIN d.transactions \subseteq DOMAIN c.transactions \cup ch[h]
        BY <2>3, <3>6
      <3> QED
        BY <2>3, <3>1, <3>2, <3>3, <3>5, <3>7, <3>8 DEF d, b
    <2> QED
      BY <2>4, <2>5, <2>6
  <1> QED
    BY <1>5, <1>6

---------------------------------------------------------------------------
(***************************************************************************)
(* The cache and the stream                                                 *)
(***************************************************************************)

\* The cache changes, nothing is written.
LEMMA StreamCache ==
  ASSUME NEW ch, NEW q, NEW q2, \A h : Past(h, ch, q) => Past(h, ch, q2),
         NEW c, NEW s, StreamOK(c, s, ch, q),
         NEW d, OnlyAdds(c, d, ch, q2),
         FewBlocks(ch) =>
           /\ DOMAIN d.transactionHashesMap
                \subseteq DOMAIN c.transactionHashesMap \cup DOMAIN d.transactions
           /\ DOMAIN c.transactions \ DOMAIN d.transactions \subseteq Sent("transactions", s),
         Calm(ch) =>
           \A tx \in LiveSent("transactions", s) :
             /\ tx \in DOMAIN d.transactions => tx \in DOMAIN c.transactions
             /\ FewBlocks(ch) /\ tx \in DOMAIN c.transactions => tx \in DOMAIN d.transactions,
         \A i \in 1..Len(d.merkleBlocks) :
           \/ \E j \in 1..Len(c.merkleBlocks) : d.merkleBlocks[i] = c.merkleBlocks[j]
           \/ /\ ~ d.merkleBlocks[i].isRetrieved
              /\ d.merkleBlocks[i].hash \notin LiveSent("proofs", s)
  PROVE  StreamOK(d, s, ch, q2)
  <1>1. FollowsIn(s, ch)
    BY DEF StreamOK
  <1>2. FlagsOK(d, s)
    BY DEF StreamOK, FlagsOK, OnlyAdds
  <1>3. ASSUME FewBlocks(ch)
        PROVE  KnownOK(d, s)
    BY <1>3 DEF StreamOK, KnownOK
  <1>4. ASSUME Calm(ch)
        PROVE  OnceOK(d, s, ch, q2)
    <2>1. OnceOK(c, s, ch, q)
      BY <1>4 DEF StreamOK
    <2> SUFFICES ASSUME NEW tx \in LiveSent("transactions", s)
                 PROVE  IF tx \in DOMAIN d.transactions THEN d.transactions[tx]
                        ELSE Settled(tx, ch, q2)
      BY <2>1 DEF OnceOK
    <2>2. CASE tx \in DOMAIN d.transactions
      <3>1. tx \in DOMAIN c.transactions /\ c.transactions[tx]
        BY <1>4, <2>1, <2>2 DEF OnceOK
      <3> QED
        BY <2>2, <3>1 DEF OnlyAdds
    <2>3. CASE tx \notin DOMAIN d.transactions /\ tx \in DOMAIN c.transactions
      <3>1. \E h \in 1..Len(ch) : tx \in ch[h] /\ Past(h, ch, q2)
        BY <2>3 DEF OnlyAdds
      <3>2. "otherCall" \notin Disturbances
        BY <1>4, <2>3 DEF Calm
      <3> QED
        BY <2>3, <3>1, <3>2 DEF Settled
    <2>4. CASE tx \notin DOMAIN d.transactions /\ tx \notin DOMAIN c.transactions
      <3>1. Settled(tx, ch, q)
        BY <2>1, <2>4 DEF OnceOK
      <3>2. Settled(tx, ch, q2)
        BY <3>1 DEF Settled
      <3> QED
        BY <2>4, <3>2
    <2> QED
      BY <2>2, <2>3, <2>4
  <1>5. ProofsOK(d, s, ch, q2)
    BY DEF StreamOK, ProofsOK
  <1> QED
    BY <1>1, <1>2, <1>3, <1>4, <1>5 DEF StreamOK

\* The items of a write of the historical phase: a proof follows its
\* transactions.
HistoryItems(type, items, s, ch) ==
  /\ type \in {"transactions", "proofs"}
  /\ type = "proofs" =>
       \A h \in items : h \in 1..Len(ch) /\ ch[h] \cap Matching \subseteq Sent("transactions", s)

\* The historical phase writes.
LEMMA StreamHistory ==
  ASSUME NEW ch, NEW q, NEW c, NEW s, StreamOK(c, s, ch, q), NEW lk, LockOK(q, c, s, lk),
         NEW s2, NEW type, NEW items, HistoryItems(type, items, s, ch),
         Written(s, s2, type, items, FALSE)
  PROVE  StreamOK(c, s2, ch, q) /\ LockOK(q, c, s2, lk)
  <1>1. /\ \A t : Sent(t, s) \subseteq Sent(t, s2)
        /\ Sent("locks", s2) = Sent("locks", s)
        /\ \A t : LiveSent(t, s2) = LiveSent(t, s)
        /\ \A t : LiveOnce(t, s) => LiveOnce(t, s2)
    BY DEF Written, HistoryItems
  <1>2. FollowsIn(s2, ch)
    BY DEF Written, StreamOK, HistoryItems
  <1>3. FlagsOK(c, s2)
    BY <1>1 DEF StreamOK, FlagsOK
  <1>4. FewBlocks(ch) => KnownOK(c, s2)
    BY <1>1 DEF StreamOK, KnownOK
  <1>5. Calm(ch) => OnceOK(c, s2, ch, q)
    BY <1>1 DEF StreamOK, OnceOK
  <1>6. ProofsOK(c, s2, ch, q)
    BY <1>1 DEF StreamOK, ProofsOK
  <1>7. LockOK(q, c, s2, lk)
    BY <1>1 DEF LockOK
  <1> QED
    BY <1>2, <1>3, <1>4, <1>5, <1>6, <1>7 DEF StreamOK

\* The lock listener writes the lock of a transaction that waits for it.
LEMMA StreamLock ==
  ASSUME NEW ch, NEW q, NEW c, NEW s, StreamOK(c, s, ch, q),
         NEW tx \in DOMAIN c.transactionHashesMap, NEW s2, Written(s, s2, "locks", {tx}, TRUE),
         NEW d, d.transactions = c.transactions, d.merkleBlocks = c.merkleBlocks,
         DOMAIN d.transactionHashesMap \subseteq DOMAIN c.transactionHashesMap
  PROVE  StreamOK(d, s2, ch, q)
  <1>1. /\ Sent("transactions", s2) = Sent("transactions", s)
        /\ Sent("proofs", s2) = Sent("proofs", s)
        /\ Sent("locks", s2) = Sent("locks", s) \cup {tx}
        /\ LiveSent("transactions", s2) = LiveSent("transactions", s)
        /\ LiveSent("proofs", s2) = LiveSent("proofs", s)
        /\ LiveOnce("transactions", s) => LiveOnce("transactions", s2)
        /\ LiveOnce("proofs", s) => LiveOnce("proofs", s2)
    BY DEF Written
  <1>2. FollowsIn(s2, ch)
    BY DEF Written, StreamOK
  <1>3. FlagsOK(d, s2)
    BY <1>1 DEF StreamOK, FlagsOK
  <1>4. FewBlocks(ch) => KnownOK(d, s2)
    BY <1>1 DEF StreamOK, KnownOK
  <1>5. Calm(ch) => OnceOK(d, s2, ch, q)
    BY <1>1 DEF StreamOK, OnceOK
  <1>6. ProofsOK(d, s2, ch, q)
    BY <1>1 DEF StreamOK, ProofsOK
  <1> QED
    BY <1>2, <1>3, <1>4, <1>5, <1>6 DEF StreamOK

\* The merkle blocks that the loop sends.
LEMMA UnretrievedProofs ==
  ASSUME NEW c, c.merkleBlocks \in Seq(MerkleBlock)
  PROVE  LET P == {m.hash : m \in UnretrievedMerkleBlocks(c)}
         IN  /\ P \in SUBSET Nat
             /\ \A h : h \in P <=> \E i \in 1..Len(c.merkleBlocks) :
                                     /\ ~ c.merkleBlocks[i].isRetrieved
                                     /\ c.merkleBlocks[i].hash = h
  <1> DEFINE P == {m.hash : m \in UnretrievedMerkleBlocks(c)}
             n == Len(c.merkleBlocks)
  <1>1. /\ DOMAIN c.merkleBlocks = 1..n
        /\ \A i \in 1..n : c.merkleBlocks[i].hash \in Nat
    <2>1. \A m \in MerkleBlock : m.hash \in Nat
      BY DEF MerkleBlock
    <2>2. DOMAIN c.merkleBlocks = 1..n /\ \A i \in 1..n : c.merkleBlocks[i] \in MerkleBlock
      OBVIOUS
    <2> QED
      BY <2>1, <2>2
  <1>2. \A m : m \in UnretrievedMerkleBlocks(c) <=>
                 \E i \in 1..n : m = c.merkleBlocks[i] /\ ~ c.merkleBlocks[i].isRetrieved
    BY <1>1 DEF UnretrievedMerkleBlocks, ToSet
  <1>3. \A h : h \in P <=> \E i \in 1..n : /\ ~ c.merkleBlocks[i].isRetrieved
                                           /\ c.merkleBlocks[i].hash = h
    BY <1>2
  <1> HIDE DEF P
  <1>4. P \in SUBSET Nat
    BY <1>1, <1>3
  <1> QED
    BY <1>3, <1>4 DEF P

\* What is left of the cache after a turn.
LEMMA TurnCache ==
  ASSUME NEW ch, NEW q, NEW c, CacheOf(c, ch, q)
  PROVE  LET d == TurnLeaves(c)
         IN  /\ CacheOf(d, ch, q)
             /\ DOMAIN d.transactions = DOMAIN c.transactions
             /\ \A tx \in DOMAIN d.transactions : d.transactions[tx]
             /\ d.blocks = c.blocks
             /\ Len(d.merkleBlocks) = Len(c.merkleBlocks)
             /\ \A i \in 1..Len(d.merkleBlocks) :
                  d.merkleBlocks[i].isRetrieved /\ d.merkleBlocks[i].hash = c.merkleBlocks[i].hash
             /\ d.transactionHashesMap = c.transactionHashesMap
             /\ d.unretrievedInstantLocks = {}
  <1> DEFINE d == TurnLeaves(c)
             n == Len(c.merkleBlocks)
  <1>1. /\ IsCache(c) /\ c.merkleBlocks \in Seq(MerkleBlock)
        /\ n \in Nat /\ DOMAIN c.merkleBlocks = 1..n
        /\ \A i \in 1..n : c.merkleBlocks[i] \in MerkleBlock
    BY DEF CacheOf, IsCacheOfCall
  <1>2. /\ IsCache(d)
        /\ d.transactions = [tx \in DOMAIN c.transactions |-> TRUE]
        /\ d.merkleBlocks = [i \in DOMAIN c.merkleBlocks |->
                               [c.merkleBlocks[i] EXCEPT !.isRetrieved = TRUE]]
        /\ d.unretrievedInstantLocks = {}
        /\ d.blocks = c.blocks
        /\ d.transactionHashesMap = c.transactionHashesMap
    BY <1>1, RetrieveIs DEF TurnLeaves
  <1> HIDE DEF d
  <1>3. /\ DOMAIN d.transactions = DOMAIN c.transactions
        /\ \A tx \in DOMAIN d.transactions : d.transactions[tx]
        /\ d.transactions \in [DOMAIN d.transactions -> BOOLEAN]
    BY <1>2
  <1>4. /\ \A i \in 1..n : /\ d.merkleBlocks[i] \in MerkleBlock
                           /\ d.merkleBlocks[i].hash = c.merkleBlocks[i].hash
                           /\ d.merkleBlocks[i].matched = c.merkleBlocks[i].matched
                           /\ d.merkleBlocks[i].isRetrieved
        /\ d.merkleBlocks \in Seq(MerkleBlock) /\ Len(d.merkleBlocks) = n
    <2> DEFINE f == d.merkleBlocks
    <2>1. f = [i \in 1..n |-> [c.merkleBlocks[i] EXCEPT !.isRetrieved = TRUE]]
      BY <1>1, <1>2
    <2> HIDE DEF f
    <2>2. \A m \in MerkleBlock : LET e == [m EXCEPT !.isRetrieved = TRUE]
                                 IN  /\ e \in MerkleBlock
                                     /\ e.hash = m.hash /\ e.matched = m.matched
                                     /\ e.isRetrieved
      BY DEF MerkleBlock
    <2>3. \A i \in 1..n : /\ f[i] \in MerkleBlock
                          /\ f[i].hash = c.merkleBlocks[i].hash
                          /\ f[i].matched = c.merkleBlocks[i].matched
                          /\ f[i].isRetrieved
      BY <1>1, <2>1, <2>2
    <2>4. f \in [1..n -> MerkleBlock]
      BY <2>1, <2>3
    <2>5. f \in Seq(MerkleBlock) /\ Len(f) = n
      BY <1>1, <2>4
    <2> QED
      BY <2>3, <2>5 DEF f
  <1>5. IsCacheOfCall(d)
    BY <1>2, <1>3, <1>4 DEF CacheOf, IsCacheOfCall
  <1>6. CacheOf(d, ch, q)
    BY <1>2, <1>3, <1>4, <1>5 DEF CacheOf
  <1> QED
    BY <1>2, <1>3, <1>4, <1>6 DEF d

\* The three writers write responses.
LEMMA ResponsesTyped ==
  ASSUME NEW txs \in SUBSET Tx, NEW locks \in SUBSET Tx, NEW hs \in SUBSET Nat
  PROVE  /\ Transactions(txs, TRUE) \in Seq(Response)
         /\ Locks(locks) \in Seq(Response)
         /\ Proofs(hs, TRUE) \in Seq(Response)
  <1>1. /\ << >> \in Seq(Response)
        /\ \A m \in Response : <<m>> \in Seq(Response)
    OBVIOUS
  <1>2. [type |-> "transactions", items |-> txs, live |-> TRUE] \in Response
    BY DEF Response
  <1>3. [type |-> "locks", items |-> locks, live |-> TRUE] \in Response
    BY DEF Response
  <1>4. [type |-> "proofs", items |-> hs, live |-> TRUE] \in Response
    BY DEF Response
  <1>5. Transactions(txs, TRUE) \in Seq(Response)
    BY <1>1, <1>2 DEF Transactions
  <1>6. Locks(locks) \in Seq(Response)
    BY <1>1, <1>3 DEF Locks
  <1>7. Proofs(hs, TRUE) \in Seq(Response)
    BY <1>1, <1>4 DEF Proofs
  <1> QED
    BY <1>5, <1>6, <1>7

\* Written one after the other or at once. The concatenations of the sequences
\* s, v and w, and what the two groupings of them share, are stated as predicates,
\* so that the lemma can be cited for sequences that are themselves concatenations.
InARow(s, v, w, sv, vw) ==
  /\ s \in Seq(Response) /\ v \in Seq(Response) /\ w \in Seq(Response)
  /\ sv = s \o v
  /\ vw = v \o w

SameConcat(s, vw, sv, w) == s \o vw = sv \o w

\* Grouping does not matter.
LEMMA Regrouped ==
  ASSUME NEW s, NEW v, NEW w, NEW sv, NEW vw, InARow(s, v, w, sv, vw)
  PROVE  SameConcat(s, vw, sv, w)
  <1>1. s \in Seq(Response) /\ v \in Seq(Response) /\ w \in Seq(Response)
    BY DEF InARow
  <1>2. (s \o v) \o w = s \o (v \o w)
    BY <1>1, ConcatAssociative, SMT
  <1> QED
    BY <1>2, Zenon DEF InARow, SameConcat

OneByOne(s, w1, w2, w3) == s \o ((w1 \o w2) \o w3) = ((s \o w1) \o w2) \o w3

\* Three writes in a row, one after the other or at once.
LEMMA ThreeWrites ==
  ASSUME NEW s \in Seq(Response), NEW w1 \in Seq(Response), NEW w2 \in Seq(Response),
         NEW w3 \in Seq(Response)
  PROVE  OneByOne(s, w1, w2, w3)
  <1> DEFINE w == w1 \o w2
             x == w \o w3
             t == s \o w1
             t2 == t \o w2
  <1>1. w \in Seq(Response)
    OBVIOUS
  <1>2. InARow(s, w1, w2, t, w)
    BY Zenon DEF InARow
  <1>3. s \o w = t2
    <2> HIDE DEF w, x, t, t2
    <2>1. SameConcat(s, w, t, w2)
      BY <1>2, Regrouped
    <2> QED
      BY <2>1, Zenon DEF SameConcat, t2
  <1>4. InARow(s, w, w3, t2, x)
    <2> HIDE DEF w, t2
    <2> QED
      BY <1>1, <1>3, Zenon DEF InARow
  <1>5. SameConcat(s, x, t2, w3)
    <2> HIDE DEF w, x, t, t2
    <2> QED
      BY <1>4, Regrouped
  <1> QED
    BY <1>5, Zenon DEF w, x, t, t2, SameConcat, OneByOne

\* One turn of the loop: what the cache holds as unsent is sent, and marked.
LEMMA Turn ==
  ASSUME NEW ch \in Seq(SUBSET Tx), NEW q, NEW c, CacheOf(c, ch, q),
         NEW s \in Seq(Response), StreamOK(c, s, ch, q), NEW lk, LockOK(q, c, s, lk)
  PROVE  LET d  == TurnLeaves(c)
             s2 == s \o TurnWrites(c)
         IN  /\ s2 \in Seq(Response)
             /\ StreamOK(d, s2, ch, q)
             /\ LockOK(q, d, s2, lk)
  <1> DEFINE d == TurnLeaves(c)
             U == UnretrievedTransactions(c)
             L == {tx \in c.unretrievedInstantLocks : IsInInstantLockCache(c, tx)}
             P == {m.hash : m \in UnretrievedMerkleBlocks(c)}
             s1 == s \o Transactions(U, TRUE)
             s2 == s1 \o Locks(L)
             s3 == s2 \o Proofs(P, TRUE)
  <1>1. /\ c.merkleBlocks \in Seq(MerkleBlock)
        /\ Len(c.merkleBlocks) = Len(c.blocks)
        /\ DOMAIN c.transactions \subseteq Tx /\ c.unretrievedInstantLocks \subseteq Tx
    BY MatchingAssumption DEF CacheOf, IsCacheOfCall
  <1>2. U = {tx \in DOMAIN c.transactions : ~ c.transactions[tx]} /\ U \in SUBSET Tx
    BY <1>1 DEF UnretrievedTransactions
  <1>3. /\ L \in SUBSET Tx /\ L \subseteq c.unretrievedInstantLocks
        /\ L \subseteq DOMAIN c.transactionHashesMap
    BY <1>1 DEF IsInInstantLockCache
  <1>4. /\ P \in SUBSET Nat
        /\ \A h : h \in P <=> \E i \in 1..Len(c.merkleBlocks) :
                                /\ ~ c.merkleBlocks[i].isRetrieved
                                /\ c.merkleBlocks[i].hash = h
    BY <1>1, UnretrievedProofs
  <1>5. /\ CacheOf(d, ch, q)
        /\ DOMAIN d.transactions = DOMAIN c.transactions
        /\ \A tx \in DOMAIN d.transactions : d.transactions[tx]
        /\ Len(d.merkleBlocks) = Len(c.merkleBlocks)
        /\ \A i \in 1..Len(d.merkleBlocks) :
             d.merkleBlocks[i].isRetrieved /\ d.merkleBlocks[i].hash = c.merkleBlocks[i].hash
        /\ d.transactionHashesMap = c.transactionHashesMap
        /\ d.unretrievedInstantLocks = {}
    <2>1. d = TurnLeaves(c)
      OBVIOUS
    <2> HIDE DEF d, U, L, P, s1, s2, s3
    <2>2. CacheOf(c, ch, q)
      OBVIOUS
    <2> QED
      BY <2>1, <2>2, TurnCache, SMTT(30)
  <1>6. s \o TurnWrites(c) = s3
    <2>1. TurnWrites(c) = (Transactions(U, TRUE) \o Locks(L)) \o Proofs(P, TRUE)
      BY DEF TurnWrites
    <2> HIDE DEF U, L, P
    <2>2. /\ Transactions(U, TRUE) \in Seq(Response)
          /\ Locks(L) \in Seq(Response)
          /\ Proofs(P, TRUE) \in Seq(Response)
      BY <1>2, <1>3, <1>4, ResponsesTyped
    <2> DEFINE w1 == Transactions(U, TRUE)
               w2 == Locks(L)
               w3 == Proofs(P, TRUE)
    <2>3. w1 \in Seq(Response) /\ w2 \in Seq(Response) /\ w3 \in Seq(Response)
      BY <2>2
    <2> HIDE DEF w1, w2, w3
    <2>4. OneByOne(s, w1, w2, w3)
      BY <2>3, ThreeWrites
    <2> QED
      BY <2>1, <2>4, Zenon DEF w1, w2, w3, OneByOne
  <1>7. Written(s, s1, "transactions", U, TRUE)
    BY <1>2, WriteTransactions
  <1>8. Written(s1, s2, "locks", L, TRUE)
    <2>1. s1 \in Seq(Response)
      BY <1>7 DEF Written
    <2> HIDE DEF s1, L
    <2> QED
      BY <2>1, <1>3, WriteLocks
  <1>9. Written(s2, s3, "proofs", P, TRUE)
    <2>1. s2 \in Seq(Response)
      BY <1>8 DEF Written
    <2> HIDE DEF s2, P
    <2> QED
      BY <2>1, <1>4, WriteProofs
  <1> HIDE DEF U, L, P, s1, s2, s3, d
  <1>10. /\ Sent("transactions", s1) = Sent("transactions", s) \cup U
         /\ Sent("locks", s1) = Sent("locks", s)
         /\ Sent("proofs", s1) = Sent("proofs", s)
         /\ LiveSent("transactions", s1) = LiveSent("transactions", s) \cup U
         /\ LiveSent("locks", s1) = LiveSent("locks", s)
         /\ LiveSent("proofs", s1) = LiveSent("proofs", s)
    BY <1>7 DEF Written
  <1>11. /\ Sent("transactions", s2) = Sent("transactions", s1)
         /\ Sent("locks", s2) = Sent("locks", s1) \cup L
         /\ Sent("proofs", s2) = Sent("proofs", s1)
         /\ LiveSent("transactions", s2) = LiveSent("transactions", s1)
         /\ LiveSent("locks", s2) = LiveSent("locks", s1) \cup L
         /\ LiveSent("proofs", s2) = LiveSent("proofs", s1)
    BY <1>8 DEF Written
  <1>12. /\ Sent("transactions", s3) = Sent("transactions", s2)
         /\ Sent("locks", s3) = Sent("locks", s2)
         /\ Sent("proofs", s3) = Sent("proofs", s2) \cup P
         /\ LiveSent("transactions", s3) = LiveSent("transactions", s2)
         /\ LiveSent("locks", s3) = LiveSent("locks", s2)
         /\ LiveSent("proofs", s3) = LiveSent("proofs", s2) \cup P
    BY <1>9 DEF Written
  <1>13. /\ Sent("transactions", s3) = Sent("transactions", s) \cup U
         /\ Sent("transactions", s2) = Sent("transactions", s) \cup U
         /\ Sent("locks", s3) = Sent("locks", s) \cup L
         /\ Sent("proofs", s3) = Sent("proofs", s) \cup P
    BY <1>10, <1>11, <1>12
  <1>14. /\ LiveSent("transactions", s3) = LiveSent("transactions", s) \cup U
         /\ LiveSent("locks", s3) = LiveSent("locks", s) \cup L
         /\ LiveSent("locks", s1) = LiveSent("locks", s)
         /\ LiveSent("proofs", s3) = LiveSent("proofs", s) \cup P
         /\ LiveSent("proofs", s2) = LiveSent("proofs", s)
    BY <1>10, <1>11, <1>12
  <1>15. DOMAIN c.transactions \subseteq Sent("transactions", s) \cup U
    BY <1>2 DEF StreamOK, FlagsOK
  <1>16. ASSUME NEW h \in P
         PROVE  /\ h \in 1..Len(ch) /\ Past(h, ch, q)
                /\ ch[h] \cap Matching \subseteq DOMAIN c.transactions
                /\ h \notin LiveSent("proofs", s)
    <2>1. PICK i \in 1..Len(c.merkleBlocks) :
                 ~ c.merkleBlocks[i].isRetrieved /\ c.merkleBlocks[i].hash = h
      BY <1>4
    <2>2. i \in 1..Len(c.blocks)
      BY <1>1
    <2>3. /\ Past(h, ch, q)
          /\ ch[h] \cap Matching \subseteq DOMAIN c.transactions
      BY <2>1, <2>2 DEF CacheOf
    <2>4. h \notin LiveSent("proofs", s)
      BY <2>1 DEF StreamOK, ProofsOK
    <2> QED
      BY <2>3, <2>4 DEF Past
  <1>17. FollowsIn(s3, ch)
    <2>1. FollowsIn(s, ch)
      BY DEF StreamOK
    <2>2. FollowsIn(s2, ch)
      <3>1. FollowsIn(s1, ch)
        BY <2>1, <1>7 DEF Written
      <3> QED
        BY <3>1, <1>8 DEF Written
    <2>3. \A h \in P : h \in 1..Len(ch) /\ ch[h] \cap Matching \subseteq Sent("transactions", s2)
      BY <1>13, <1>15, <1>16
    <2> QED
      BY <2>2, <2>3, <1>9 DEF Written
  <1>18. FlagsOK(d, s3)
    <2>1. \A i \in 1..Len(c.merkleBlocks) : c.merkleBlocks[i].hash \in Sent("proofs", s) \cup P
      BY <1>4 DEF StreamOK, FlagsOK
    <2> QED
      BY <2>1, <1>5, <1>13, <1>15 DEF FlagsOK
  <1>19. FewBlocks(ch) => KnownOK(d, s3)
    BY <1>3, <1>5, <1>13, <1>15 DEF StreamOK, KnownOK
  <1>20. ASSUME Calm(ch)
         PROVE  OnceOK(d, s3, ch, q)
    <2>1. OnceOK(c, s, ch, q)
      BY <1>20 DEF StreamOK
    <2>2. U \cap LiveSent("transactions", s) = {}
      BY <2>1, <1>2 DEF OnceOK
    <2>3. LiveOnce("transactions", s3)
      <3>1. LiveOnce("transactions", s1)
        BY <2>1, <2>2, <1>7 DEF OnceOK, Written
      <3>2. LiveOnce("transactions", s2)
        BY <3>1, <1>8 DEF Written
      <3> QED
        BY <3>2, <1>9 DEF Written
    <2>4. ASSUME NEW tx \in LiveSent("transactions", s3), tx \notin DOMAIN d.transactions
          PROVE  Settled(tx, ch, q)
      BY <2>1, <2>4, <1>2, <1>5, <1>14 DEF OnceOK
    <2> QED
      BY <2>3, <2>4, <1>5 DEF OnceOK
  <1>21. ProofsOK(d, s3, ch, q)
    <2>1. LiveOnce("proofs", s3)
      <3>1. LiveOnce("proofs", s1)
        BY <1>7 DEF Written, StreamOK, ProofsOK
      <3>2. LiveOnce("proofs", s2)
        BY <3>1, <1>8 DEF Written
      <3>3. P \cap LiveSent("proofs", s2) = {}
        BY <1>14, <1>16
      <3> QED
        BY <3>2, <3>3, <1>9 DEF Written
    <2>2. \A h \in LiveSent("proofs", s3) : Past(h, ch, q)
      BY <1>14, <1>16 DEF StreamOK, ProofsOK
    <2> QED
      BY <2>1, <2>2, <1>5 DEF ProofsOK
  <1>22. StreamOK(d, s3, ch, q)
    BY <1>17, <1>18, <1>19, <1>20, <1>21 DEF StreamOK
  <1>23. LockOK(q, d, s3, lk)
    <2>1. LiveOnce("locks", s3)
      <3>1. LiveOnce("locks", s1)
        BY <1>7 DEF Written, LockOK
      <3>2. L \cap LiveSent("locks", s1) = {}
        BY <1>3, <1>14 DEF LockOK
      <3>3. LiveOnce("locks", s2)
        BY <3>1, <3>2, <1>8 DEF Written
      <3> QED
        BY <3>3, <1>9 DEF Written
    <2>2. LiveSent("locks", s3) \subseteq c.unretrievedInstantLocks \cup LiveSent("locks", s)
      BY <1>3, <1>14
    <2> QED
      BY <2>1, <2>2, <1>5 DEF LockOK
  <1>24. s3 \in Seq(Response)
    BY <1>9 DEF Written
  <1> QED
    BY <1>6, <1>22, <1>23, <1>24 DEF d

---------------------------------------------------------------------------
(***************************************************************************)
(* What the actions need of the queue and the cache                         *)
(***************************************************************************)

\* Before the loop runs nothing was sent by it.
LEMMA NoneLiveSent ==
  ASSUME NEW s, NoneLive(s), NEW type
  PROVE  LiveSent(type, s) = {}
  BY DEF NoneLive, LiveSent

\* An emitter that has no block cached tests the transactions of the next one.
LEMMA GroupEmpty ==
  ASSUME NEW q, NEW ch, NEW c, NEW col, GroupOK(q, ch, c, col), c.blocks = << >>,
         NEW col2 \in BOOLEAN
  PROVE  GroupOK(q, ch, c, col2)
  BY DEF GroupOK, TestedBefore

\* A cache that still holds the transactions of the blocks to come.
LEMMA GroupCache ==
  ASSUME NEW q, NEW ch, NEW c, NEW col \in BOOLEAN, GroupOK(q, ch, c, col),
         NEW d, c.blocks = << >> => d.blocks = << >>,
         \A i \in 1..Len(q) : IsBlock(q, i) =>
           ch[q[i].item] \cap DOMAIN c.transactions \subseteq DOMAIN d.transactions,
         NEW col2 \in BOOLEAN, col2 => col
  PROVE  GroupOK(q, ch, d, col2)
  <1> SUFFICES ASSUME NEW i \in 1..Len(q), IsBlock(q, i),
                      NEW tx \in ch[q[i].item] \cap Matching
               PROVE  TestedBefore(q, i, tx, d, col2)
    BY DEF GroupOK
  <1>1. TestedBefore(q, i, tx, c, col)
    BY DEF GroupOK
  <1>2. tx \in DOMAIN c.transactions => tx \in DOMAIN d.transactions
    OBVIOUS
  <1> QED
    BY <1>1, <1>2 DEF TestedBefore

\* A transaction of a block to come is in no block that was announced.
LEMMA NotYetPast ==
  ASSUME NEW ch, NEW mp, ChainOK(ch, mp), NEW q, ZmqOK(q, ch, mp),
         NEW i \in 1..Len(q), IsBlock(q, i), NEW h, Past(h, ch, q)
  PROVE  /\ h < q[i].item /\ h \in Nat /\ q[i].item \in Nat
         /\ h # q[i].item
         /\ ch[h] \cap ch[q[i].item] = {}
  <1>1. /\ h \in 1..Len(ch) /\ q[i].item \in 1..Len(ch) /\ Len(ch) \in Nat
        /\ h < q[i].item
    BY DEF Past, ZmqOK, ChainOK
  <1>2. h # q[i].item /\ h \in Nat /\ q[i].item \in Nat
    BY <1>1
  <1> QED
    BY <1>1, <1>2 DEF ChainOK

\* A cache that lost transactions of announced blocks only.
LEMMA GroupKeeps ==
  ASSUME NEW ch, NEW mp, ChainOK(ch, mp), NEW q, ZmqOK(q, ch, mp),
         NEW c, NEW col \in BOOLEAN, GroupOK(q, ch, c, col),
         NEW d, OnlyAdds(c, d, ch, q), c.blocks = << >> => d.blocks = << >>
  PROVE  GroupOK(q, ch, d, col)
  <1>1. ASSUME NEW i \in 1..Len(q), IsBlock(q, i),
               NEW tx \in ch[q[i].item] \cap DOMAIN c.transactions
        PROVE  tx \in DOMAIN d.transactions
    <2>1. ASSUME NEW h \in 1..Len(ch), tx \in ch[h], Past(h, ch, q)
          PROVE  FALSE
      <3>1. ch[h] \cap ch[q[i].item] = {}
        BY <1>1, <2>1, NotYetPast
      <3> QED
        BY <2>1, <3>1
    <2> QED
      BY <2>1 DEF OnlyAdds
  <1>2. \A i \in 1..Len(q) : IsBlock(q, i) =>
          ch[q[i].item] \cap DOMAIN c.transactions \subseteq DOMAIN d.transactions
    BY <1>1
  <1> QED
    BY <1>2, GroupCache

\* A transaction that is announced is not settled.
LEMMA AnnouncedNotSettled ==
  ASSUME NEW ch, NEW mp, ChainOK(ch, mp), NEW q, ZmqOK(q, ch, mp), q # << >>,
         q[1].topic = "rawtx"
  PROVE  ~ Settled(q[1].item, ch, q)
  <1> DEFINE tx == q[1].item
  <1>1. 1 \in 1..Len(q)
    BY DEF ZmqOK
  <1>2. ASSUME NEW h \in 1..Len(ch), tx \in ch[h], Past(h, ch, q)
        PROVE  FALSE
    <2>1. CASE tx \in mp
      BY <2>1, <1>2 DEF ChainOK
    <2>2. ASSUME NEW j \in 1..Len(q), IsBlock(q, j), tx \in ch[q[j].item]
          PROVE  FALSE
      <3>1. ch[h] \cap ch[q[j].item] = {}
        BY <1>2, <2>2, NotYetPast
      <3> QED
        BY <1>2, <2>2, <3>1
    <2> QED
      BY <1>1, <2>1, <2>2 DEF ZmqOK
  <1> QED
    BY <1>2 DEF Settled

\* The block that is announced: once it is taken it is past, later than those
\* past before, and shares no transaction with them.
LEMMA BlockHeard ==
  ASSUME NEW ch, NEW mp, ChainOK(ch, mp), NEW q, ZmqOK(q, ch, mp), q # << >>,
         q[1].topic = "rawblock"
  PROVE  /\ IsBlock(q, 1)
         /\ Past(q[1].item, ch, Tail(q))
         /\ \A h : Past(h, ch, q) => h < q[1].item
         /\ ~ Past(q[1].item, ch, q)
         /\ \A tx \in ch[q[1].item] : ~ Settled(tx, ch, q)
  <1> DEFINE q2 == Tail(q)
             b  == q[1].item
  <1>1. q \in Seq(Message)
    BY DEF ZmqOK
  <1>2. IsBlock(q, 1) /\ 1 \in 1..Len(q) /\ b \in 1..Len(ch) /\ Len(ch) \in Nat
    BY <1>1 DEF IsBlock, ZmqOK, ChainOK
  <1>3. /\ Len(q2) \in Nat
        /\ \A i \in 1..Len(q2) : q2[i] = q[i + 1] /\ i + 1 \in 1..Len(q)
        /\ \A i \in 1..Len(q2) : IsBlock(q2, i) <=> IsBlock(q, i + 1)
    BY <1>1, TakeNotice
  <1>4. Past(b, ch, q2)
    <2>1. ASSUME NEW i \in 1..Len(q2), IsBlock(q2, i)
          PROVE  b < q2[i].item
      <3>1. i + 1 \in 1..Len(q) /\ IsBlock(q, i + 1) /\ 1 < i + 1 /\ q2[i] = q[i + 1]
        BY <1>3, <2>1
      <3> QED
        BY <3>1, <1>2 DEF ZmqOK
    <2> QED
      BY <2>1, <1>2 DEF Past
  <1>5. \A h : Past(h, ch, q) => h < b /\ h # b
    BY <1>2, NotYetPast
  <1>6. ASSUME NEW tx \in ch[b], Settled(tx, ch, q)
        PROVE  FALSE
    <2>1. PICK h \in 1..Len(ch) : tx \in ch[h] /\ Past(h, ch, q)
      BY <1>6 DEF Settled
    <2>2. ch[h] \cap ch[b] = {}
      BY <2>1, <1>2, NotYetPast
    <2> QED
      BY <2>1, <2>2, <1>6
  <1> QED
    BY <1>2, <1>4, <1>5, <1>6

\* The lock that is announced: it is announced once.
LEMMA LockHeard ==
  ASSUME NEW q \in Seq(Message), q # << >>, q[1].topic = "rawtxlocksig",
         NEW c, NEW s, NEW lk, LockOK(q, c, s, lk)
  PROVE  /\ q[1].item \in lk
         /\ q[1].item \notin c.unretrievedInstantLocks
         /\ q[1].item \notin LiveSent("locks", s)
         /\ \A i \in 1..Len(Tail(q)) :
              Tail(q)[i].topic = "rawtxlocksig" => Tail(q)[i].item # q[1].item
  <1> DEFINE q2 == Tail(q)
  <1>1. /\ 1 \in 1..Len(q) /\ Len(q2) \in Nat
        /\ \A i \in 1..Len(q2) : q2[i] = q[i + 1] /\ i + 1 \in 1..Len(q)
    BY TakeNotice
  <1> HIDE DEF q2
  <1>2. /\ q[1].item \in lk
        /\ q[1].item \notin c.unretrievedInstantLocks
        /\ q[1].item \notin LiveSent("locks", s)
        /\ \A j \in 1..Len(q) : q[j] = q[1] => 1 = j
    BY <1>1 DEF LockOK
  <1>3. \A m, n \in Message : m.topic = "rawtxlocksig" /\ n.topic = "rawtxlocksig"
                              /\ m.item = n.item => m = n
    BY DEF Message
  <1>4. ASSUME NEW i \in 1..Len(q2), q2[i].topic = "rawtxlocksig", q2[i].item = q[1].item
        PROVE  FALSE
    <2>1. i + 1 \in 1..Len(q) /\ q[i + 1] = q2[i]
      BY <1>1
    <2>2. q[i + 1] \in Message /\ q[1] \in Message
      BY <2>1, <1>1
    <2>3. q[i + 1] = q[1]
      BY <2>1, <2>2, <1>3, <1>4
    <2>4. 1 = i + 1
      BY <2>1, <2>3, <1>2
    <2> QED
      BY <2>4, <1>1
  <1> QED
    BY <1>2, <1>4 DEF q2

\* It is collected ...
LEMMA LockCollected ==
  ASSUME NEW q \in Seq(Message), q # << >>, q[1].topic = "rawtxlocksig",
         NEW ch, NEW mp, ZmqOK(q, ch, mp), NEW c, NEW s, NEW lk, LockOK(q, c, s, lk),
         NEW d, d.unretrievedInstantLocks = c.unretrievedInstantLocks \cup {q[1].item}
  PROVE  LockOK(Tail(q), d, s, lk)
  <1> DEFINE q2 == Tail(q)
  <1>1. LockOK(q2, c, s, lk)
    BY TakeNoticeKeeps
  <1>2. /\ q[1].item \in lk
        /\ q[1].item \notin c.unretrievedInstantLocks
        /\ q[1].item \notin LiveSent("locks", s)
        /\ \A i \in 1..Len(q2) : q2[i].topic = "rawtxlocksig" => q2[i].item # q[1].item
    BY LockHeard
  <1> HIDE DEF q2
  <1> QED
    BY <1>1, <1>2 DEF LockOK, q2

\* ... or sent at once.
LEMMA LockWritten ==
  ASSUME NEW q \in Seq(Message), q # << >>, q[1].topic = "rawtxlocksig",
         NEW ch, NEW mp, ZmqOK(q, ch, mp), NEW c, NEW s, NEW lk, LockOK(q, c, s, lk),
         NEW d, d.unretrievedInstantLocks = c.unretrievedInstantLocks,
         NEW s2, Written(s, s2, "locks", {q[1].item}, TRUE)
  PROVE  LockOK(Tail(q), d, s2, lk)
  <1> DEFINE q2 == Tail(q)
  <1>1. LockOK(q2, c, s, lk)
    BY TakeNoticeKeeps
  <1>2. /\ q[1].item \in lk
        /\ q[1].item \notin c.unretrievedInstantLocks
        /\ q[1].item \notin LiveSent("locks", s)
        /\ \A i \in 1..Len(q2) : q2[i].topic = "rawtxlocksig" => q2[i].item # q[1].item
    BY LockHeard
  <1> HIDE DEF q2
  <1>3. /\ LiveSent("locks", s2) = LiveSent("locks", s) \cup {q[1].item}
        /\ LiveOnce("locks", s2)
    BY <1>1, <1>2 DEF Written, LockOK
  <1> QED
    BY <1>1, <1>2, <1>3 DEF LockOK, q2

---------------------------------------------------------------------------
(***************************************************************************)
(* The initial states, and the steps that touch neither dashd's data nor    *)
(* the cache nor the stream                                                 *)
(***************************************************************************)
LEMMA InitOK == Init => IInv
  <1> SUFFICES ASSUME Init PROVE IInv
    OBVIOUS
  <1>1. /\ chain \in Seq(SUBSET Tx) /\ Len(chain) = 1 /\ chain[1] = {}
        /\ zmq \in Seq(Message) /\ Len(zmq) = 0
        /\ stream \in Seq(Response) /\ Len(stream) = 0
        /\ mempool = {} /\ locked = {}
    BY DEF Init
  <1>2. \A type : Sent(type, stream) = {} /\ LiveSent(type, stream) = {}
    <2>1. DOMAIN stream = {}
      BY <1>1
    <2> QED
      BY <1>1, <2>1 DEF Sent, LiveSent
  <1>3. /\ cache = EmptyCache
        /\ DOMAIN cache.transactions = {} /\ cache.transactions = << >>
        /\ cache.blocks = << >> /\ cache.merkleBlocks = << >>
        /\ DOMAIN cache.transactionHashesMap = {}
        /\ cache.unretrievedInstantLocks = {}
    BY DEF Init, EmptyCache
  <1>4. ControlOK
    <2>1. NoneLive(stream)
      BY <1>1 DEF NoneLive
    <2>2. /\ request \in Requests /\ pc = "accept" /\ next = 1 /\ last = 0
          /\ snapshot = {} /\ otherSnapshot = {}
          /\ collected = FALSE /\ looping = FALSE /\ listening = FALSE
          /\ connected = FALSE /\ attached = FALSE /\ relaying = FALSE
      BY DEF Init
    <2>3. next \in 1..(Len(chain) + 1) /\ last \in 0..Len(chain)
      <3>1. \A n : n = 1 => 1 \in 1..(n + 1) /\ 0 \in 0..n
        OBVIOUS
      <3> QED
        BY <1>1, <2>2, <3>1
    <2>6. /\ collected \in BOOLEAN /\ looping \in BOOLEAN /\ listening \in BOOLEAN
          /\ relaying \in BOOLEAN /\ connected = collected /\ attached = collected
      BY <2>2
    <2>4. /\ locked \subseteq Tx /\ snapshot \subseteq Tx /\ otherSnapshot \subseteq Tx
          /\ stream \in Seq(Response)
      BY <1>1, <2>2
    <2>5. cache = EmptyCache
      BY <1>3
    <2> QED
      BY <2>1, <2>2, <2>3, <2>4, <2>5, <2>6, Zenon DEF ControlOK
  <1>5. ChainOK(chain, mempool)
    BY <1>1 DEF ChainOK
  <1>6. ZmqOK(zmq, chain, mempool)
    BY <1>1 DEF ZmqOK
  <1>7. GroupOK(zmq, chain, cache, collected)
    BY <1>1 DEF GroupOK
  <1>8. CacheOf(cache, chain, zmq)
    <2>1. IsCache(EmptyCache)
      BY DEF EmptyCache, IsCache
    <2>2. cache.transactions \in [DOMAIN cache.transactions -> BOOLEAN]
      BY <1>3
    <2>3. /\ cache.blocks \in Seq(CachedBlock) /\ Len(cache.blocks) = 0
          /\ cache.merkleBlocks \in Seq(MerkleBlock) /\ Len(cache.merkleBlocks) = 0
      BY <1>3
    <2>4. IsCacheOfCall(cache)
      BY <1>3, <2>1, <2>2, <2>3 DEF IsCacheOfCall
    <2> QED
      BY <2>3, <2>4 DEF CacheOf
  <1>9. LockOK(zmq, cache, stream, locked)
    BY <1>1, <1>2, <1>3 DEF LockOK, LiveOnce
  <1>10. StreamOK(cache, stream, chain, zmq)
    <2>1. Len(cache.merkleBlocks) = 0
      BY <1>3
    <2> QED
      BY <1>1, <1>2, <1>3, <2>1
      DEF StreamOK, FollowsIn, FlagsOK, KnownOK, OnceOK, ProofsOK, LiveOnce
  <1> QED
    BY <1>4, <1>5, <1>6, <1>7, <1>8, <1>9, <1>10 DEF IInv, DataOK

SameData == UNCHANGED <<chain, mempool, zmq, collected, cache, stream, locked>>

\* Such a step keeps the parts of the invariant about data.
LEMMA DataStays ==
  ASSUME DataOK, SameData
  PROVE  DataOK'
  BY DEF DataOK, SameData

\* The emitter is collected while its cache is empty.
LEMMA AcceptOK ==
  ASSUME IInv, Accept
  PROVE  IInv'
  <1>1. /\ pc = "accept" /\ relaying' = TRUE
        /\ connected' = IsNew /\ attached' = IsNew /\ collected' = IsNew
        /\ pc' \in {"getBlock", "getBlockHash", "failed"}
        /\ UNCHANGED <<chain, mempool, locked, zmq, request, next, last, snapshot,
                       otherSnapshot, cache, looping, cancelled, listening, stream>>
    <2>1. request.from \in {"hash", "height", "none"}
      BY RequestsAssumption DEF IInv, ControlOK
    <2> QED
      BY <2>1 DEF Accept, dashd, client
  <1>2. IsNew' = IsNew /\ IsNew \in BOOLEAN
    BY <1>1 DEF IsNew
  <1>3. ControlOK'
    BY <1>1, <1>2 DEF IInv, ControlOK, MatchingIn
  <1>4. GroupOK(zmq, chain, cache, collected')
    <2>1. cache.blocks = << >>
      BY <1>1 DEF IInv, ControlOK, EmptyCache
    <2>2. GroupOK(zmq, chain, cache, collected)
      BY DEF IInv, DataOK
    <2>3. collected' \in BOOLEAN
      BY <1>1, <1>2
    <2> QED
      BY <2>1, <2>2, <2>3, GroupEmpty
  <1> QED
    BY <1>1, <1>3, <1>4 DEF IInv, DataOK

\* dashd answers getBlockHash ...
LEMMA GetBlockHashOK ==
  ASSUME IInv, GetBlockHash
  PROVE  IInv'
  <1>1. /\ pc = "getBlockHash" /\ pc' = "getBlock"
        /\ UNCHANGED <<chain, mempool, locked, zmq, request, next, last, snapshot,
                       otherSnapshot, connected, attached, collected, relaying, cache,
                       looping, listening, stream>>
    BY DEF GetBlockHash, dashd, session, client, links
  <1>2. ControlOK'
    BY <1>1 DEF IInv, ControlOK, MatchingIn, IsNew
  <1> QED
    BY <1>1, <1>2, DataStays DEF IInv, SameData

\* ... and getBlock: the first block is in the chain.
LEMMA GetBlockOK ==
  ASSUME IInv, NEW h \in DOMAIN chain, GetBlock(h)
  PROVE  IInv'
  <1>1. /\ pc = "getBlock" /\ pc' = "getBestBlockHeight" /\ next' = h
        /\ UNCHANGED <<chain, mempool, locked, zmq, request, last, snapshot,
                       otherSnapshot, connected, attached, collected, relaying, cache,
                       looping, listening, stream>>
    BY DEF GetBlock, dashd, session, client, links
  <1>2. h \in 1..Len(chain) /\ h \in 1..(Len(chain) + 1)
    BY DEF IInv, DataOK, ChainOK
  <1>3. ControlOK'
    BY <1>1, <1>2 DEF IInv, ControlOK, IsNew
  <1> QED
    BY <1>1, <1>3, DataStays DEF IInv, SameData

\* The iterator is never asked for a block above the tip.
LEMMA HistoricalCountFits ==
  ASSUME NEW from \in Nat \ {0}, NEW count \in Nat, NEW best \in Nat, from <= best
  PROVE  from + HistoricalCount(from, count, best) - 1 \in from..best
  <1>1. CASE count = 0 \/ from + count > best + 1
    BY <1>1 DEF HistoricalCount
  <1>2. CASE ~ (count = 0 \/ from + count > best + 1)
    BY <1>2 DEF HistoricalCount
  <1> QED
    BY <1>1, <1>2

\* ... and getBestBlockHeight: so is the last.
LEMMA GetBestBlockHeightOK ==
  ASSUME IInv, GetBestBlockHeight
  PROVE  IInv'
  <1>1. /\ pc = "getBestBlockHeight" /\ pc' = "iterate"
        /\ last' = next + HistoricalCount(next, request.count, Len(chain)) - 1
        /\ UNCHANGED <<chain, mempool, locked, zmq, request, next, snapshot,
                       otherSnapshot, connected, attached, collected, relaying, cache,
                       looping, listening, stream>>
    BY DEF GetBestBlockHeight, dashd, session, client, links
  <1>2. last' \in 0..Len(chain)
    <2>1. request.count \in Nat
      BY RequestsAssumption DEF IInv, ControlOK
    <2>2. next \in Nat \ {0} /\ Len(chain) \in Nat /\ next <= Len(chain)
      BY <1>1 DEF IInv, ControlOK, DataOK, ChainOK
    <2>3. last' \in next..Len(chain)
      BY <1>1, <2>1, <2>2, HistoricalCountFits
    <2> QED
      BY <2>2, <2>3
  <1>3. ControlOK'
    BY <1>1, <1>2 DEF IInv, ControlOK, IsNew
  <1> QED
    BY <1>1, <1>3, DataStays DEF IInv, SameData

\* A call for history only ends.
LEMMA EndHistoricalStreamOK ==
  ASSUME IInv, EndHistoricalStream
  PROVE  IInv'
  <1>1. /\ pc = "iterate" /\ pc' = "ended" /\ listening' = TRUE
        /\ UNCHANGED <<chain, mempool, locked, zmq, request, next, last, snapshot,
                       otherSnapshot, connected, attached, collected, relaying, cache,
                       looping, stream>>
    BY DEF EndHistoricalStream, dashd, session, links
  <1>2. ControlOK'
    BY <1>1 DEF IInv, ControlOK, IsNew
  <1> QED
    BY <1>1, <1>2, DataStays DEF IInv, SameData

\* What is read of the mempool are transactions.
LEMMA ReadMemPoolOK ==
  ASSUME IInv, ReadMemPool
  PROVE  IInv'
  <1>1. /\ pc = "iterate" /\ pc' = "memPoolRead" /\ snapshot' = mempool
        /\ UNCHANGED <<chain, mempool, locked, zmq, request, next, last, otherSnapshot,
                       connected, attached, collected, relaying, cache, looping,
                       listening, stream>>
    BY DEF ReadMemPool, dashd, session, client, links
  <1>2. mempool \subseteq Tx
    BY DEF IInv, DataOK, ChainOK
  <1>3. ControlOK'
    BY <1>1, <1>2 DEF IInv, ControlOK, IsNew
  <1> QED
    BY <1>1, <1>3, DataStays DEF IInv, SameData

\* A handler that gave up never wrote from the loop.
LEMMA RpcFailsOK ==
  ASSUME IInv, RpcFails
  PROVE  IInv'
  <1>1. /\ pc \notin {"accept", "streaming", "ended"} /\ pc' = "failed"
        /\ UNCHANGED <<chain, mempool, locked, zmq, request, next, last, snapshot,
                       otherSnapshot, connected, attached, collected, relaying, cache,
                       looping, listening, stream>>
    BY DEF RpcFails, dashd, session, client, links
  <1>2. ControlOK'
    BY <1>1 DEF IInv, ControlOK, IsNew
  <1> QED
    BY <1>1, <1>2, DataStays DEF IInv, SameData

\* Another call reads the mempool: only if others interfere.
LEMMA OtherReadsMemPoolOK ==
  ASSUME IInv, OtherReadsMemPool
  PROVE  IInv'
  <1>1. /\ "otherCall" \in Disturbances /\ otherSnapshot' = mempool
        /\ UNCHANGED <<chain, mempool, locked, zmq, pc, request, next, last, snapshot,
                       connected, attached, collected, relaying, cache, looping,
                       listening, stream>>
    BY DEF OtherReadsMemPool, dashd, handler, session, client, links
  <1>2. mempool \subseteq Tx
    BY DEF IInv, DataOK, ChainOK
  <1>3. ControlOK'
    BY <1>1, <1>2 DEF IInv, ControlOK, IsNew, MatchingIn
  <1> QED
    BY <1>1, <1>3, DataStays DEF IInv, SameData

\* An emitter that left the collection hears of no block.
LEMMA CancelOK ==
  ASSUME IInv, Cancel
  PROVE  IInv'
  <1>1. /\ pc # "accept"
        /\ \/ /\ listening
              /\ ~ connected' /\ ~ attached' /\ ~ collected' /\ ~ relaying'
              /\ collected' \in BOOLEAN /\ relaying' \in BOOLEAN
              /\ connected' = collected' /\ attached' = collected'
           \/ UNCHANGED <<connected, attached, collected, relaying>>
        /\ UNCHANGED <<chain, mempool, locked, zmq, pc, request, next, last, snapshot,
                       otherSnapshot, cache, looping, listening, stream>>
    BY DEF Cancel, ClientDisconnected, dashd, handler, links
  <1>2. collected' \in BOOLEAN /\ (collected' => collected) /\ collected \in BOOLEAN
    BY <1>1 DEF IInv, ControlOK
  <1>3. ControlOK'
    BY <1>1, <1>2 DEF IInv, ControlOK, IsNew, MatchingIn
  <1>4. GroupOK(zmq, chain, cache, collected')
    <2>1. GroupOK(zmq, chain, cache, collected)
      BY DEF IInv, DataOK
    <2> QED
      BY <1>2, <2>1, GroupCache
  <1> QED
    BY <1>1, <1>3, <1>4 DEF IInv, DataOK

---------------------------------------------------------------------------
(***************************************************************************)
(* dashd's steps                                                            *)
(***************************************************************************)

\* The chain is as it was or longer, and nothing of the call moves.
LEMMA ControlUnderDashd ==
  ASSUME ControlOK, chain \in Seq(SUBSET Tx), chain' \in Seq(SUBSET Tx),
         Len(chain) <= Len(chain'), \A h \in 1..Len(chain) : chain'[h] = chain[h],
         locked' \subseteq Tx,
         UNCHANGED <<pc, request, next, last, snapshot, otherSnapshot, connected,
                     attached, collected, relaying, cache, looping, listening, stream>>
  PROVE  ControlOK'
  <1>1. /\ Len(chain) \in Nat /\ Len(chain') \in Nat
        /\ 1..Len(chain) \subseteq 1..Len(chain')
        /\ 1..(Len(chain) + 1) \subseteq 1..(Len(chain') + 1)
        /\ 0..Len(chain) \subseteq 0..Len(chain')
    OBVIOUS
  <1>2. IsNew' = IsNew
    BY DEF IsNew
  <1>3. next \in 1..Len(chain) => MatchingIn(next)' = MatchingIn(next)
    BY DEF MatchingIn
  <1> QED
    BY <1>1, <1>2, <1>3 DEF ControlOK

\* A message that is no block, at the end of the queue.
LEMMA OneNotice ==
  ASSUME NEW m \in Message
  PROVE  /\ \A q \in Seq(Message) : Append(q, m) = q \o <<m>>
         /\ <<m>> \in Seq(Message) /\ Len(<<m>>) = 1
         /\ \A i \in 1..Len(<<m>>) : <<m>>[i] = m
  <1>1. \A q \in Seq(Message) : Append(q, m) = q \o <<m>>
    BY AppendIsConcat
  <1> QED
    BY <1>1

\* A transaction enters the mempool and is announced.
LEMMA EnterMempoolOK ==
  ASSUME IInv, NEW tx \in Tx, EnterMempool(tx)
  PROVE  IInv'
  <1> DEFINE m == RawTx(tx)
             g == <<m>>
  <1>1. /\ tx \notin mempool \cup Mined
        /\ mempool' = mempool \cup {tx}
        /\ zmq' = Append(zmq, m)
        /\ UNCHANGED <<chain, locked, pc, request, next, last, snapshot, otherSnapshot,
                       connected, attached, collected, relaying, cache, looping,
                       listening, stream>>
    BY DEF EnterMempool, handler, session, client, links
  <1>2. /\ ChainOK(chain, mempool) /\ ZmqOK(zmq, chain, mempool)
        /\ chain \in Seq(SUBSET Tx) /\ Len(chain) \in Nat /\ zmq \in Seq(Message)
    BY DEF IInv, DataOK, ChainOK, ZmqOK
  <1>3. m \in Message /\ m.topic = "rawtx" /\ m.item = tx
    BY DEF RawTx, Message
  <1> HIDE DEF m
  <1>4. /\ zmq' = zmq \o g /\ g \in Seq(Message)
        /\ \A i \in 1..Len(g) : g[i].topic = "rawtx" /\ g[i].item = tx
        /\ \A i \in 1..Len(g) : g[i].topic # "rawblock"
    BY <1>1, <1>2, <1>3, OneNotice
  <1> HIDE DEF g
  <1>5. /\ ZmqOK(zmq', chain, mempool')
        /\ \A h : Past(h, chain, zmq') <=> Past(h, chain, zmq)
        /\ \A c, col : GroupOK(zmq, chain, c, col) => GroupOK(zmq', chain, c, col)
    <2>1. mempool \subseteq mempool'
      BY <1>1
    <2>2. \A i \in 1..Len(g) : g[i].topic = "rawtx" => g[i].item \in mempool'
      BY <1>1, <1>4
    <2>3. /\ ZmqOK(zmq \o g, chain, mempool')
          /\ \A h : Past(h, chain, zmq \o g) <=> Past(h, chain, zmq)
          /\ \A c, col : GroupOK(zmq, chain, c, col) => GroupOK(zmq \o g, chain, c, col)
      BY <1>2, <1>4, <2>1, <2>2, AddNoticesKeeps
    <2> QED
      BY <1>4, <2>3
  <1>6. ChainOK(chain, mempool')
    <2>1. \A h \in 1..Len(chain) : tx \notin chain[h]
      BY <1>1, <1>2 DEF Mined
    <2> QED
      BY <1>1, <1>2, <2>1 DEF ChainOK
  <1>7. LockOK(zmq', cache, stream, locked)
    <2>1. LockOK(zmq, cache, stream, locked)
      BY DEF IInv, DataOK
    <2> QED
      BY <1>2, <1>4, <2>1, AddTxNoticesLocks
  <1>8. CacheOf(cache, chain, zmq') /\ StreamOK(cache, stream, chain, zmq')
    <2>1. CacheOf(cache, chain, zmq) /\ StreamOK(cache, stream, chain, zmq)
      BY DEF IInv, DataOK
    <2> QED
      BY <1>2, <1>5, <2>1, LaterKeeps
  <1>9. ControlOK'
    BY <1>1, <1>2, ControlUnderDashd DEF IInv, ControlOK
  <1> QED
    BY <1>1, <1>5, <1>6, <1>7, <1>8, <1>9 DEF IInv, DataOK

\* A transaction is locked, once.
LEMMA LockTransactionOK ==
  ASSUME IInv, NEW tx, LockTransaction(tx)
  PROVE  IInv'
  <1> DEFINE m == RawLock(tx)
             g == <<m>>
  <1>1. /\ tx \in (mempool \cup Mined) \ locked
        /\ locked' = locked \cup {tx}
        /\ zmq' = Append(zmq, m)
        /\ UNCHANGED <<chain, mempool, pc, request, next, last, snapshot, otherSnapshot,
                       connected, attached, collected, relaying, cache, looping,
                       listening, stream>>
    BY DEF LockTransaction, handler, session, client, links
  <1>2. /\ ChainOK(chain, mempool) /\ ZmqOK(zmq, chain, mempool)
        /\ chain \in Seq(SUBSET Tx) /\ Len(chain) \in Nat /\ zmq \in Seq(Message)
        /\ mempool \subseteq Tx
    BY DEF IInv, DataOK, ChainOK, ZmqOK
  <1>3. tx \in Tx
    <2>1. Mined \subseteq Tx
      BY <1>2 DEF Mined
    <2> QED
      BY <1>1, <1>2, <2>1
  <1>4. m \in Message /\ m.topic = "rawtxlocksig"
    BY <1>3 DEF RawLock, Message
  <1>5. \A q : LockOK(q, cache, stream, locked) /\ q \in Seq(Message)
                 => LockOK(q \o g, cache, stream, locked')
    BY <1>1, <1>3, AddLockNotice
  <1> HIDE DEF m
  <1>6. /\ zmq' = zmq \o g /\ g \in Seq(Message)
        /\ \A i \in 1..Len(g) : g[i].topic = "rawtxlocksig"
        /\ \A i \in 1..Len(g) : g[i].topic # "rawblock"
        /\ \A i \in 1..Len(g) : g[i].topic # "rawtx"
    BY <1>1, <1>2, <1>4, OneNotice
  <1> HIDE DEF g
  <1>7. /\ ZmqOK(zmq', chain, mempool)
        /\ \A h : Past(h, chain, zmq') <=> Past(h, chain, zmq)
        /\ \A c, col : GroupOK(zmq, chain, c, col) => GroupOK(zmq', chain, c, col)
    <2>1. /\ ZmqOK(zmq \o g, chain, mempool)
          /\ \A h : Past(h, chain, zmq \o g) <=> Past(h, chain, zmq)
          /\ \A c, col : GroupOK(zmq, chain, c, col) => GroupOK(zmq \o g, chain, c, col)
      BY <1>2, <1>6, AddNoticesKeeps
    <2> QED
      BY <1>6, <2>1
  <1>8. LockOK(zmq', cache, stream, locked')
    BY <1>2, <1>5, <1>6 DEF IInv, DataOK
  <1>9. CacheOf(cache, chain, zmq') /\ StreamOK(cache, stream, chain, zmq')
    <2>1. CacheOf(cache, chain, zmq) /\ StreamOK(cache, stream, chain, zmq)
      BY DEF IInv, DataOK
    <2> QED
      BY <1>2, <1>7, <2>1, LaterKeeps
  <1>10. ControlOK'
    <2>1. locked' \subseteq Tx /\ ControlOK
      BY <1>1, <1>3 DEF IInv, ControlOK
    <2> QED
      BY <1>1, <1>2, <2>1, ControlUnderDashd
  <1> QED
    BY <1>1, <1>2, <1>7, <1>8, <1>9, <1>10 DEF IInv, DataOK

\* A block is connected: its transactions are announced, then the block.
LEMMA MineBlockOK ==
  ASSUME IInv, NEW txs \in SUBSET Tx, MineBlock(txs)
  PROVE  IInv'
  <1>1. /\ txs \cap Mined = {}
        /\ chain' = Append(chain, txs)
        /\ mempool' = mempool \ txs
        /\ UNCHANGED <<locked, pc, request, next, last, snapshot, otherSnapshot,
                       connected, attached, collected, relaying, cache, looping,
                       listening, stream>>
    BY DEF MineBlock, handler, session, client, links
  <1>2. /\ ChainOK(chain, mempool) /\ ZmqOK(zmq, chain, mempool)
        /\ chain \in Seq(SUBSET Tx) /\ Len(chain) \in Nat /\ zmq \in Seq(Message)
    BY DEF IInv, DataOK, ChainOK, ZmqOK
  <1>3. chain' \in Seq(SUBSET Tx) /\ Len(chain') = Len(chain) + 1
        /\ \A h \in 1..Len(chain) : chain'[h] = chain[h]
    BY <1>1, <1>2, AppendProperties
  <1>4. PICK order \in SetToSeqs(txs) :
               zmq' = zmq \o [i \in DOMAIN order |-> RawTx(order[i])] \o <<RawBlock(Len(chain'))>>
    BY DEF MineBlock
  <1>5. \A h \in 1..Len(chain) : txs \cap chain[h] = {}
    BY <1>1, <1>2 DEF Mined
  <1>6. /\ ChainOK(chain', mempool')
        /\ ZmqOK(zmq', chain', mempool')
        /\ \A h : Past(h, chain, zmq) => Past(h, chain', zmq')
        /\ \A c, col : GroupOK(zmq, chain, c, col) => GroupOK(zmq', chain', c, col)
        /\ \A c, s, lk : LockOK(zmq, c, s, lk) => LockOK(zmq', c, s, lk)
    <2> DEFINE g  == [i \in DOMAIN order |-> RawTx(order[i])]
               q3 == zmq \o g \o <<RawBlock(Len(chain) + 1)>>
    <2>1. zmq' = q3
      BY <1>3, <1>4
    <2>2. /\ ChainOK(Append(chain, txs), mempool \ txs)
          /\ ZmqOK(q3, Append(chain, txs), mempool \ txs)
          /\ \A h : Past(h, chain, zmq) => Past(h, Append(chain, txs), q3)
          /\ \A c, col : GroupOK(zmq, chain, c, col) => GroupOK(q3, Append(chain, txs), c, col)
          /\ \A c, s, lk : LockOK(zmq, c, s, lk) => LockOK(q3, c, s, lk)
      BY <1>2, <1>5, AddBlockNotice
    <2> HIDE DEF q3
    <2> QED
      BY <1>1, <2>1, <2>2
  <1>7. GroupOK(zmq', chain', cache, collected) /\ LockOK(zmq', cache, stream, locked)
    BY <1>6 DEF IInv, DataOK
  <1>8. CacheOf(cache, chain', zmq') /\ StreamOK(cache, stream, chain', zmq')
    <2>1. CacheOf(cache, chain, zmq) /\ StreamOK(cache, stream, chain, zmq)
      BY DEF IInv, DataOK
    <2>2. Len(chain) <= Len(chain')
      BY <1>2, <1>3
    <2> QED
      BY <1>2, <1>3, <1>6, <2>1, <2>2, LaterKeeps
  <1>9. ControlOK'
    <2>1. locked' \subseteq Tx /\ ControlOK
      BY <1>1 DEF IInv, ControlOK
    <2>2. Len(chain) <= Len(chain')
      BY <1>2, <1>3
    <2> QED
      BY <1>1, <1>2, <1>3, <2>1, <2>2, ControlUnderDashd
  <1> QED
    BY <1>1, <1>6, <1>7, <1>8, <1>9 DEF IInv, DataOK

---------------------------------------------------------------------------
(***************************************************************************)
(* The historical phase and the mempool                                     *)
(***************************************************************************)
LEMMA SendHistoricalTransactionsOK ==
  ASSUME IInv, SendHistoricalTransactions
  PROVE  IInv'
  <1>1. PICK h \in MatchingBlocksLeft :
               next' = h /\ stream' = stream \o Transactions(chain[h] \cap Matching, FALSE)
    BY DEF SendHistoricalTransactions
  <1>2. /\ pc = "iterate" /\ pc' = "sendHistoricalProof"
        /\ UNCHANGED <<chain, mempool, locked, zmq, request, last, snapshot,
                       otherSnapshot, connected, attached, collected, relaying, cache,
                       looping, listening>>
    BY DEF SendHistoricalTransactions, dashd, session, client, links
  <1>3. /\ chain \in Seq(SUBSET Tx) /\ Len(chain) \in Nat
        /\ next \in 1..(Len(chain) + 1) /\ last \in 0..Len(chain)
        /\ stream \in Seq(Response) /\ NoneLive(stream)
    BY <1>2 DEF IInv, DataOK, ControlOK, ChainOK
  <1>4. h \in 1..Len(chain) /\ h <= last /\ h \in 1..(Len(chain) + 1)
    <2>1. h \in next..last
      BY DEF MatchingBlocksLeft
    <2> QED
      BY <2>1, <1>3
  <1>5. Written(stream, stream', "transactions", MatchingIn(h), FALSE)
    <2>1. MatchingIn(h) \in SUBSET Tx /\ FALSE \in BOOLEAN
      BY MatchingAssumption DEF MatchingIn
    <2>2. stream' = stream \o Transactions(MatchingIn(h), FALSE)
      BY <1>1 DEF MatchingIn
    <2> QED
      BY <1>3, <2>1, <2>2, WriteTransactions
  <1>6. /\ stream' \in Seq(Response) /\ NoneLive(stream')
        /\ MatchingIn(h) \subseteq Sent("transactions", stream')
    BY <1>3, <1>5 DEF Written
  <1>7. /\ StreamOK(cache, stream', chain, zmq)
        /\ LockOK(zmq, cache, stream', locked)
    <2>1. StreamOK(cache, stream, chain, zmq) /\ LockOK(zmq, cache, stream, locked)
      BY DEF IInv, DataOK
    <2>2. HistoryItems("transactions", MatchingIn(h), stream, chain)
      BY DEF HistoryItems
    <2> QED
      BY <1>5, <2>1, <2>2, StreamHistory
  <1>8. ControlOK'
    <2>1. MatchingIn(h)' = MatchingIn(h) /\ IsNew' = IsNew
      BY <1>2 DEF MatchingIn, IsNew
    <2> QED
      BY <1>1, <1>2, <1>3, <1>4, <1>6, <2>1 DEF IInv, ControlOK
  <1> QED
    BY <1>2, <1>7, <1>8 DEF IInv, DataOK

\* The proof follows the transactions of its block.
LEMMA SendHistoricalProofOK ==
  ASSUME IInv, SendHistoricalProof
  PROVE  IInv'
  <1>1. /\ pc = "sendHistoricalProof" /\ pc' = "historicalBlockSent"
        /\ stream' = stream \o Proofs({next}, FALSE)
        /\ UNCHANGED <<chain, mempool, locked, zmq, request, next, last, snapshot,
                       otherSnapshot, connected, attached, collected, relaying, cache,
                       looping, listening>>
    BY DEF SendHistoricalProof, dashd, session, client, links
  <1>2. /\ Len(chain) \in Nat
        /\ next \in 1..Len(chain) /\ MatchingIn(next) \subseteq Sent("transactions", stream)
        /\ stream \in Seq(Response) /\ NoneLive(stream)
    BY <1>1 DEF IInv, DataOK, ControlOK, ChainOK
  <1>3. Written(stream, stream', "proofs", {next}, FALSE)
    <2>1. {next} \in SUBSET Nat /\ FALSE \in BOOLEAN
      BY <1>2
    <2> QED
      BY <1>1, <1>2, <2>1, WriteProofs
  <1>4. /\ stream' \in Seq(Response) /\ NoneLive(stream')
        /\ Sent("transactions", stream') = Sent("transactions", stream)
    BY <1>2, <1>3 DEF Written
  <1>5. /\ StreamOK(cache, stream', chain, zmq)
        /\ LockOK(zmq, cache, stream', locked)
    <2>1. StreamOK(cache, stream, chain, zmq) /\ LockOK(zmq, cache, stream, locked)
      BY DEF IInv, DataOK
    <2>2. HistoryItems("proofs", {next}, stream, chain)
      BY <1>2 DEF MatchingIn, HistoryItems
    <2> QED
      BY <1>3, <2>1, <2>2, StreamHistory
  <1>6. ControlOK'
    <2>1. MatchingIn(next)' = MatchingIn(next) /\ IsNew' = IsNew
      BY <1>1 DEF MatchingIn, IsNew
    <2> QED
      BY <1>1, <1>2, <1>4, <2>1 DEF IInv, ControlOK
  <1> QED
    BY <1>1, <1>5, <1>6 DEF IInv, DataOK

\* What is pruned from the cache was sent, and its block announced.
LEMMA HistoricalBlockSentOK ==
  ASSUME IInv, HistoricalBlockSent
  PROVE  IInv'
  <1>1. /\ pc = "historicalBlockSent" /\ pc' = "iterate" /\ next' = next + 1
        /\ cache' = IF IsNew THEN RemoveDataByBlockHash(cache, next) ELSE cache
        /\ UNCHANGED <<chain, mempool, locked, zmq, request, last, snapshot,
                       otherSnapshot, connected, attached, collected, relaying, looping,
                       listening, stream>>
    BY DEF HistoricalBlockSent, dashd, client, links
  <1>2. /\ ChainOK(chain, mempool) /\ ZmqOK(zmq, chain, mempool)
        /\ GroupOK(zmq, chain, cache, collected) /\ CacheOf(cache, chain, zmq)
        /\ LockOK(zmq, cache, stream, locked) /\ StreamOK(cache, stream, chain, zmq)
        /\ collected \in BOOLEAN /\ Len(chain) \in Nat
    BY DEF IInv, DataOK, ControlOK, ChainOK
  <1>3. /\ next \in 1..Len(chain) /\ MatchingIn(next) \subseteq Sent("transactions", stream)
        /\ NoneLive(stream)
    BY <1>1 DEF IInv, ControlOK
  <1>4. ControlOK'
    <2>1. next + 1 \in 1..(Len(chain) + 1)
      BY <1>2, <1>3
    <2>2. IsNew' = IsNew
      BY <1>1 DEF IsNew
    <2> QED
      BY <1>1, <1>3, <2>1, <2>2 DEF IInv, ControlOK
  <1>5. CASE cache' = cache
    BY <1>1, <1>2, <1>4, <1>5 DEF IInv, DataOK
  <1>6. CASE cache' = RemoveDataByBlockHash(cache, next)
    <2> DEFINE d == cache'
    <2>1. /\ CacheOf(d, chain, zmq)
          /\ \A i \in 1..Len(d.merkleBlocks) :
               \E j \in 1..Len(cache.merkleBlocks) : d.merkleBlocks[i] = cache.merkleBlocks[j]
          /\ OnlyAdds(cache, d, chain, zmq)
          /\ DOMAIN d.transactions \subseteq DOMAIN cache.transactions
          /\ DOMAIN cache.transactions \ DOMAIN d.transactions \subseteq chain[next] \cap Matching
          /\ d.transactionHashesMap = cache.transactionHashesMap
          /\ d.unretrievedInstantLocks = cache.unretrievedInstantLocks
          /\ cache.blocks = << >> => d.blocks = << >>
      BY <1>2, <1>6, ForgetBlock
    <2>2. GroupOK(zmq, chain, d, collected)
      BY <1>2, <2>1, GroupKeeps
    <2>3. LockOK(zmq, d, stream, locked)
      BY <1>2, <2>1 DEF LockOK
    <2>4. StreamOK(d, stream, chain, zmq)
      <3>1. LiveSent("transactions", stream) = {}
        BY <1>3, NoneLiveSent
      <3>2. DOMAIN cache.transactions \ DOMAIN d.transactions \subseteq Sent("transactions", stream)
        BY <1>3, <2>1 DEF MatchingIn
      <3>3. FewBlocks(chain) =>
              /\ DOMAIN d.transactionHashesMap
                   \subseteq DOMAIN cache.transactionHashesMap \cup DOMAIN d.transactions
              /\ DOMAIN cache.transactions \ DOMAIN d.transactions
                   \subseteq Sent("transactions", stream)
        BY <2>1, <3>2
      <3>4. Calm(chain) =>
              \A tx \in LiveSent("transactions", stream) :
                /\ tx \in DOMAIN d.transactions => tx \in DOMAIN cache.transactions
                /\ FewBlocks(chain) /\ tx \in DOMAIN cache.transactions
                     => tx \in DOMAIN d.transactions
        BY <3>1
      <3>5. \A i \in 1..Len(d.merkleBlocks) :
              \/ \E j \in 1..Len(cache.merkleBlocks) : d.merkleBlocks[i] = cache.merkleBlocks[j]
              \/ /\ ~ d.merkleBlocks[i].isRetrieved
                 /\ d.merkleBlocks[i].hash \notin LiveSent("proofs", stream)
        BY <2>1
      <3> HIDE DEF d
      <3> QED
        BY <1>2, <2>1, <3>3, <3>4, <3>5, StreamCache
    <2> QED
      BY <1>1, <1>2, <1>4, <2>1, <2>2, <2>3, <2>4 DEF IInv, DataOK
  <1> QED
    BY <1>1, <1>5, <1>6

\* A turn of the loop, whatever the cache was before it.
LEMMA TurnOK ==
  ASSUME NEW ch \in Seq(SUBSET Tx), NEW q, NEW c, CacheOf(c, ch, q),
         NEW s \in Seq(Response), StreamOK(c, s, ch, q), NEW lk, LockOK(q, c, s, lk),
         NEW col \in BOOLEAN, GroupOK(q, ch, c, col)
  PROVE  LET d  == TurnLeaves(c)
             s2 == s \o TurnWrites(c)
         IN  /\ s2 \in Seq(Response)
             /\ CacheOf(d, ch, q)
             /\ StreamOK(d, s2, ch, q)
             /\ LockOK(q, d, s2, lk)
             /\ GroupOK(q, ch, d, col)
             /\ d.unretrievedInstantLocks = {}
  <1> DEFINE d  == TurnLeaves(c)
             s2 == s \o TurnWrites(c)
  <1>1. /\ s2 \in Seq(Response) /\ StreamOK(d, s2, ch, q) /\ LockOK(q, d, s2, lk)
    BY Turn
  <1>2. /\ CacheOf(d, ch, q)
        /\ DOMAIN d.transactions = DOMAIN c.transactions
        /\ d.blocks = c.blocks
        /\ d.unretrievedInstantLocks = {}
    <2>1. d = TurnLeaves(c)
      OBVIOUS
    <2> HIDE DEF d, s2
    <2>2. CacheOf(c, ch, q)
      OBVIOUS
    <2> QED
      BY <2>1, <2>2, TurnCache, SMTT(30)
  <1>3. GroupOK(q, ch, d, col)
    BY <1>2, GroupCache
  <1> QED
    BY <1>1, <1>2, <1>3

\* The mempool is tested and the loop's first turn sends what is cached.
LEMMA MemPoolDataSentOK ==
  ASSUME IInv, MemPoolDataSent
  PROVE  IInv'
  <1> DEFINE tested == AddTransactions(cache, snapshot \cap Matching)
  <1>1. /\ pc = "memPoolRead" /\ pc' = "streaming"
        /\ stream' = stream \o Relay(TurnWrites(tested)) /\ cache' = TurnLeaves(tested)
        /\ looping' = TRUE /\ listening' = TRUE /\ snapshot' = {}
        /\ UNCHANGED <<chain, mempool, locked, zmq, request, next, last, otherSnapshot,
                       connected, attached, collected, relaying>>
    BY DEF MemPoolDataSent, dashd, links
  <1>2. /\ ChainOK(chain, mempool) /\ ZmqOK(zmq, chain, mempool)
        /\ GroupOK(zmq, chain, cache, collected) /\ CacheOf(cache, chain, zmq)
        /\ LockOK(zmq, cache, stream, locked) /\ StreamOK(cache, stream, chain, zmq)
        /\ collected \in BOOLEAN /\ chain \in Seq(SUBSET Tx)
        /\ stream \in Seq(Response) /\ NoneLive(stream) /\ relaying
    BY <1>1 DEF IInv, DataOK, ControlOK, ChainOK
  <1>3. /\ CacheOf(tested, chain, zmq)
        /\ OnlyAdds(cache, tested, chain, zmq)
        /\ tested.blocks = cache.blocks /\ tested.merkleBlocks = cache.merkleBlocks
        /\ DOMAIN tested.transactions = DOMAIN cache.transactions \cup (snapshot \cap Matching)
        /\ DOMAIN tested.transactionHashesMap
             = DOMAIN cache.transactionHashesMap \cup (snapshot \cap Matching)
        /\ tested.unretrievedInstantLocks = cache.unretrievedInstantLocks
    <2>1. snapshot \cap Matching \in SUBSET Matching
      OBVIOUS
    <2> QED
      BY <1>2, <2>1, AddTested
  <1> HIDE DEF tested
  <1>4. GroupOK(zmq, chain, tested, collected)
    BY <1>2, <1>3, GroupKeeps
  <1>5. LockOK(zmq, tested, stream, locked)
    BY <1>2, <1>3 DEF LockOK
  <1>6. StreamOK(tested, stream, chain, zmq)
    <2>1. LiveSent("transactions", stream) = {}
      BY <1>2, NoneLiveSent
    <2>2. /\ DOMAIN tested.transactionHashesMap
               \subseteq DOMAIN cache.transactionHashesMap \cup DOMAIN tested.transactions
          /\ DOMAIN cache.transactions \ DOMAIN tested.transactions
               \subseteq Sent("transactions", stream)
      BY <1>3
    <2>3. Calm(chain) =>
            \A tx \in LiveSent("transactions", stream) :
              /\ tx \in DOMAIN tested.transactions => tx \in DOMAIN cache.transactions
              /\ FewBlocks(chain) /\ tx \in DOMAIN cache.transactions
                   => tx \in DOMAIN tested.transactions
      BY <2>1
    <2>4. \A i \in 1..Len(tested.merkleBlocks) :
            \/ \E j \in 1..Len(cache.merkleBlocks) :
                 tested.merkleBlocks[i] = cache.merkleBlocks[j]
            \/ /\ ~ tested.merkleBlocks[i].isRetrieved
               /\ tested.merkleBlocks[i].hash \notin LiveSent("proofs", stream)
      BY <1>3
    <2> QED
      BY <1>2, <1>3, <2>2, <2>3, <2>4, StreamCache
  <1>7. /\ stream' \in Seq(Response)
        /\ CacheOf(cache', chain, zmq)
        /\ StreamOK(cache', stream', chain, zmq)
        /\ LockOK(zmq, cache', stream', locked)
        /\ GroupOK(zmq, chain, cache', collected)
        /\ cache'.unretrievedInstantLocks = {}
    <2> DEFINE d  == TurnLeaves(tested)
               s2 == stream \o TurnWrites(tested)
    <2>1. /\ s2 \in Seq(Response)
          /\ CacheOf(d, chain, zmq)
          /\ StreamOK(d, s2, chain, zmq)
          /\ LockOK(zmq, d, s2, locked)
          /\ GroupOK(zmq, chain, d, collected)
          /\ d.unretrievedInstantLocks = {}
      BY <1>2, <1>3, <1>4, <1>5, <1>6, TurnOK
    <2> QED
      BY <1>1, <1>2, <2>1 DEF Relay
  <1>8. ControlOK'
    <2>1. IsNew' = IsNew
      BY <1>1 DEF IsNew
    <2> QED
      BY <1>1, <1>7, <2>1 DEF IInv, ControlOK
  <1> QED
    BY <1>1, <1>2, <1>7, <1>8 DEF IInv, DataOK

---------------------------------------------------------------------------
(***************************************************************************)
(* The listeners and the loop                                               *)
(***************************************************************************)

\* What a listener, the loop or another call's test leaves alone.
LEMMA ControlUnderListener ==
  ASSUME ControlOK,
         UNCHANGED <<chain, locked, pc, request, next, last, snapshot, connected,
                     attached, collected, relaying, looping, listening>>,
         otherSnapshot' \in {{}, otherSnapshot},
         pc = "accept" => cache' = cache,
         pc = "streaming" => cache'.unretrievedInstantLocks = {},
         stream' \in Seq(Response), pc # "streaming" => stream' = stream,
         Sent("transactions", stream) \subseteq Sent("transactions", stream')
  PROVE  ControlOK'
  <1>1. IsNew' = IsNew /\ MatchingIn(next)' = MatchingIn(next)
    BY DEF IsNew, MatchingIn
  <1> QED
    BY <1>1 DEF ControlOK

\* A message is taken.
LEMMA Taken ==
  ASSUME IInv, NEW topic, Take(topic)
  PROVE  /\ zmq # << >> /\ zmq \in Seq(Message) /\ zmq[1] \in Message
         /\ Head(zmq) = zmq[1] /\ zmq[1].topic = topic /\ zmq' = Tail(zmq)
         /\ ZmqOK(zmq', chain, mempool)
         /\ \A h : Past(h, chain, zmq) => Past(h, chain, zmq')
         /\ \A c, s, lk : LockOK(zmq, c, s, lk) => LockOK(zmq', c, s, lk)
         /\ \A c : CacheOf(c, chain, zmq) => CacheOf(c, chain, zmq')
         /\ \A c, s : StreamOK(c, s, chain, zmq) => StreamOK(c, s, chain, zmq')
         /\ UNCHANGED <<chain, mempool, locked, pc, request, next, last, snapshot,
                        otherSnapshot, connected, attached, collected, relaying,
                        looping, listening>>
  <1>1. /\ ChainOK(chain, mempool) /\ ZmqOK(zmq, chain, mempool)
        /\ chain \in Seq(SUBSET Tx) /\ Len(chain) \in Nat /\ zmq \in Seq(Message)
    <2>1. ChainOK(chain, mempool) /\ ZmqOK(zmq, chain, mempool)
      BY DEF IInv, DataOK
    <2>2. chain \in Seq(SUBSET Tx) /\ zmq \in Seq(Message)
      BY <2>1 DEF ChainOK, ZmqOK
    <2> QED
      BY <2>1, <2>2
  <1>2. /\ zmq # << >> /\ Head(zmq).topic = topic /\ zmq' = Tail(zmq)
        /\ UNCHANGED <<chain, mempool, locked, pc, request, next, last, snapshot,
                       otherSnapshot, connected, attached, collected, relaying, looping,
                       listening>>
    BY DEF Take, handler, client, links
  <1>3. Head(zmq) = zmq[1] /\ zmq[1] \in Message
    BY <1>1, <1>2, TakeNotice
  <1>4. /\ ZmqOK(zmq', chain, mempool)
        /\ \A h : Past(h, chain, zmq) => Past(h, chain, zmq')
        /\ \A c, s, lk : LockOK(zmq, c, s, lk) => LockOK(zmq', c, s, lk)
    BY <1>1, <1>2, TakeNoticeKeeps
  <1>5. /\ \A c : CacheOf(c, chain, zmq) => CacheOf(c, chain, zmq')
        /\ \A c, s : StreamOK(c, s, chain, zmq) => StreamOK(c, s, chain, zmq')
    BY <1>1, <1>4, LaterKeeps
  <1> QED
    BY <1>1, <1>2, <1>3, <1>4, <1>5

\* What the invariant says of a listener's data.
LEMMA DataParts ==
  ASSUME IInv
  PROVE  /\ ChainOK(chain, mempool) /\ ZmqOK(zmq, chain, mempool)
         /\ GroupOK(zmq, chain, cache, collected) /\ CacheOf(cache, chain, zmq)
         /\ LockOK(zmq, cache, stream, locked) /\ StreamOK(cache, stream, chain, zmq)
         /\ collected \in BOOLEAN /\ looping \in BOOLEAN
         /\ chain \in Seq(SUBSET Tx) /\ stream \in Seq(Response)
         /\ ControlOK
         /\ IsCache(cache) /\ cache.unretrievedInstantLocks \subseteq Matching
         /\ pc = "streaming" => cache.unretrievedInstantLocks = {}
         /\ pc = "accept" => ~ collected
         /\ Hearing = collected /\ (collected => relaying)
  BY DEF Hearing, IInv, DataOK, ControlOK, ChainOK, CacheOf, IsCacheOfCall

\* The transactions are tested of a mempool read or of a notice; those that
\* the loop has sent are cached.
LEMMA StreamTested ==
  ASSUME NEW ch, NEW q, NEW c, CacheOf(c, ch, q), NEW s, StreamOK(c, s, ch, q),
         NEW txs \in SUBSET Matching,
         Calm(ch) => \A tx \in txs \cap LiveSent("transactions", s) : tx \in DOMAIN c.transactions
  PROVE  StreamOK(AddTransactions(c, txs), s, ch, q)
  <1> DEFINE d == AddTransactions(c, txs)
  <1>1. /\ OnlyAdds(c, d, ch, q)
        /\ d.merkleBlocks = c.merkleBlocks
        /\ DOMAIN d.transactions = DOMAIN c.transactions \cup txs
        /\ DOMAIN d.transactionHashesMap = DOMAIN c.transactionHashesMap \cup txs
    BY AddTested
  <1> HIDE DEF d
  <1>2. /\ DOMAIN d.transactionHashesMap
             \subseteq DOMAIN c.transactionHashesMap \cup DOMAIN d.transactions
        /\ DOMAIN c.transactions \ DOMAIN d.transactions \subseteq Sent("transactions", s)
    BY <1>1
  <1>3. Calm(ch) => \A tx \in LiveSent("transactions", s) :
          /\ tx \in DOMAIN d.transactions => tx \in DOMAIN c.transactions
          /\ FewBlocks(ch) /\ tx \in DOMAIN c.transactions => tx \in DOMAIN d.transactions
    BY <1>1
  <1>4. \A i \in 1..Len(d.merkleBlocks) :
          \/ \E j \in 1..Len(c.merkleBlocks) : d.merkleBlocks[i] = c.merkleBlocks[j]
          \/ /\ ~ d.merkleBlocks[i].isRetrieved
             /\ d.merkleBlocks[i].hash \notin LiveSent("proofs", s)
    BY <1>1
  <1>5. StreamOK(d, s, ch, q)
    BY <1>1, <1>2, <1>3, <1>4, StreamCache
  <1> QED
    BY <1>5 DEF d

\* A transaction that is announced was not sent and forgotten.
LEMMA OnRawTransactionOK ==
  ASSUME IInv, OnRawTransaction
  PROVE  IInv'
  <1> DEFINE tx == zmq[1].item
  <1>1. Take("rawtx") /\ stream' = stream
        /\ cache' = IF Hearing /\ Head(zmq).item \in Matching
                    THEN AddTransaction(cache, Head(zmq).item)
                    ELSE cache
    BY DEF OnRawTransaction
  <1>2. /\ zmq # << >> /\ zmq \in Seq(Message)
        /\ Head(zmq) = zmq[1] /\ zmq[1].topic = "rawtx" /\ zmq' = Tail(zmq)
        /\ ZmqOK(zmq', chain, mempool)
        /\ \A c, s, lk : LockOK(zmq, c, s, lk) => LockOK(zmq', c, s, lk)
        /\ \A c : CacheOf(c, chain, zmq) => CacheOf(c, chain, zmq')
        /\ \A c, s : StreamOK(c, s, chain, zmq) => StreamOK(c, s, chain, zmq')
        /\ UNCHANGED <<chain, mempool, locked, pc, request, next, last, snapshot,
                       otherSnapshot, connected, attached, collected, relaying, looping,
                       listening>>
    BY <1>1, Taken
  <1>3. /\ ChainOK(chain, mempool) /\ ZmqOK(zmq, chain, mempool)
        /\ GroupOK(zmq, chain, cache, collected) /\ CacheOf(cache, chain, zmq)
        /\ LockOK(zmq, cache, stream, locked) /\ StreamOK(cache, stream, chain, zmq)
        /\ collected \in BOOLEAN /\ stream \in Seq(Response) /\ ControlOK
        /\ pc = "streaming" => cache.unretrievedInstantLocks = {}
        /\ pc = "accept" => ~ collected
        /\ Hearing = collected
    BY DataParts
  <1>4. /\ cache'.blocks = cache.blocks
        /\ cache'.unretrievedInstantLocks = cache.unretrievedInstantLocks
        /\ DOMAIN cache.transactions \subseteq DOMAIN cache'.transactions
        /\ CacheOf(cache', chain, zmq)
        /\ StreamOK(cache', stream, chain, zmq)
        /\ collected /\ tx \in Matching => tx \in DOMAIN cache'.transactions
        /\ ~ collected => cache' = cache
    <2>1. CASE ~ (collected /\ tx \in Matching)
      <3>1. cache' = cache
        BY <1>1, <1>2, <1>3, <2>1
      <3> QED
        BY <3>1, <1>3, <2>1
    <2>2. CASE collected /\ tx \in Matching
      <3> DEFINE d == AddTransactions(cache, {tx})
      <3>1. cache' = d /\ {tx} \in SUBSET Matching
        BY <1>1, <1>2, <1>3, <2>2 DEF AddTransaction
      <3>2. /\ CacheOf(d, chain, zmq)
            /\ d.blocks = cache.blocks
            /\ DOMAIN d.transactions = DOMAIN cache.transactions \cup {tx}
            /\ d.unretrievedInstantLocks = cache.unretrievedInstantLocks
        BY <1>3, <3>1, AddTested
      <3>3. StreamOK(d, stream, chain, zmq)
        <4>1. ~ Settled(tx, chain, zmq)
          BY <1>2, <1>3, AnnouncedNotSettled
        <4>2. Calm(chain) => \A t \in {tx} \cap LiveSent("transactions", stream) :
                                t \in DOMAIN cache.transactions
          BY <4>1, <1>3 DEF StreamOK, OnceOK
        <4> QED
          BY <4>2, <1>3, <3>1, StreamTested
      <3> HIDE DEF d
      <3> QED
        BY <3>1, <3>2, <3>3, <2>2
    <2> QED
      BY <2>1, <2>2
  <1>5. GroupOK(zmq', chain, cache', collected)
    <2>1. ~ IsBlock(zmq, 1)
      BY <1>2 DEF IsBlock
    <2>2. \A t \in Matching : zmq[1] = RawTx(t) /\ collected => t \in DOMAIN cache'.transactions
      BY <1>4 DEF RawTx
    <2> DEFINE d == cache'
    <2>3. GroupOK(Tail(zmq), chain, d, collected)
      BY <1>2, <1>3, <1>4, <2>1, <2>2, TakeTxNoticeGroup
    <2> QED
      BY <2>3, <1>2
  <1>6. LockOK(zmq', cache', stream, locked)
    <2>1. LockOK(zmq', cache, stream, locked)
      BY <1>2, <1>3
    <2> QED
      BY <2>1, <1>4 DEF LockOK
  <1>7. ControlOK'
    BY <1>1, <1>2, <1>3, <1>4, ControlUnderListener
  <1> QED
    BY <1>1, <1>2, <1>3, <1>4, <1>5, <1>6, <1>7 DEF IInv, DataOK

\* A block that is announced finds its transactions in the cache.
LEMMA OnRawBlockOK ==
  ASSUME IInv, OnRawBlock
  PROVE  IInv'
  <1> DEFINE h == zmq[1].item
  <1>1. Take("rawblock") /\ stream' = stream
        /\ cache' = IF Hearing THEN BlockListener(cache, Block(Head(zmq).item)) ELSE cache
    BY DEF OnRawBlock
  <1>2. /\ zmq # << >> /\ zmq \in Seq(Message)
        /\ Head(zmq) = zmq[1] /\ zmq[1].topic = "rawblock" /\ zmq' = Tail(zmq)
        /\ ZmqOK(zmq', chain, mempool)
        /\ \A k : Past(k, chain, zmq) => Past(k, chain, zmq')
        /\ \A c, s, lk : LockOK(zmq, c, s, lk) => LockOK(zmq', c, s, lk)
        /\ \A c : CacheOf(c, chain, zmq) => CacheOf(c, chain, zmq')
        /\ \A c, s : StreamOK(c, s, chain, zmq) => StreamOK(c, s, chain, zmq')
        /\ UNCHANGED <<chain, mempool, locked, pc, request, next, last, snapshot,
                       otherSnapshot, connected, attached, collected, relaying, looping,
                       listening>>
    BY <1>1, Taken
  <1>3. /\ ChainOK(chain, mempool) /\ ZmqOK(zmq, chain, mempool)
        /\ GroupOK(zmq, chain, cache, collected) /\ CacheOf(cache, chain, zmq)
        /\ LockOK(zmq, cache, stream, locked) /\ StreamOK(cache, stream, chain, zmq)
        /\ collected \in BOOLEAN /\ stream \in Seq(Response) /\ ControlOK
        /\ pc = "streaming" => cache.unretrievedInstantLocks = {}
        /\ pc = "accept" => ~ collected
        /\ Hearing = collected
    BY DataParts
  <1>4. /\ IsBlock(zmq, 1)
        /\ Past(h, chain, zmq')
        /\ \A k : Past(k, chain, zmq) => k < h
        /\ ~ Past(h, chain, zmq)
        /\ \A tx \in chain[h] : ~ Settled(tx, chain, zmq)
    BY <1>2, <1>3, BlockHeard
  <1>5. /\ \A tx \in chain[h] \cap Matching :
             ~ collected \/ cache.blocks = << >> \/ tx \in DOMAIN cache.transactions
        /\ \A c : GroupOK(zmq', chain, c, collected)
    BY <1>2, <1>3, <1>4, TakeBlockNoticeGroup
  <1>6. /\ CacheOf(cache', chain, zmq')
        /\ StreamOK(cache', stream, chain, zmq')
        /\ cache'.unretrievedInstantLocks = cache.unretrievedInstantLocks
        /\ ~ collected => cache' = cache
    <2>1. CASE ~ collected
      <3>1. cache' = cache
        BY <1>1, <1>3, <2>1
      <3> QED
        BY <3>1, <1>2, <1>3
    <2>2. CASE collected
      <3> DEFINE d == BlockListener(cache, [hash |-> h, txs |-> chain[h]])
      <3>1. cache' = d
        BY <1>1, <1>2, <1>3, <2>2 DEF Block
      <3>2. /\ CacheOf(d, chain, zmq')
            /\ OnlyAdds(cache, d, chain, zmq')
            /\ DOMAIN d.transactions \subseteq DOMAIN cache.transactions \cup chain[h]
            /\ \A i \in 1..Len(d.merkleBlocks) :
                 \/ \E j \in 1..Len(cache.merkleBlocks) :
                      d.merkleBlocks[i] = cache.merkleBlocks[j]
                 \/ d.merkleBlocks[i].hash = h /\ ~ d.merkleBlocks[i].isRetrieved
            /\ d.unretrievedInstantLocks = cache.unretrievedInstantLocks
            /\ FewBlocks(chain) =>
                 /\ DOMAIN cache.transactions \subseteq DOMAIN d.transactions
                 /\ DOMAIN d.transactionHashesMap
                      \subseteq DOMAIN cache.transactionHashesMap \cup DOMAIN d.transactions
        <4>1. CacheOf(cache, chain, zmq')
          BY <1>2, <1>3
        <4>2. \A i \in 1..Len(cache.blocks) : cache.blocks[i].hash < h
          BY <1>3, <1>4 DEF CacheOf
        <4>3. cache.blocks = << >> \/ chain[h] \cap Matching \subseteq DOMAIN cache.transactions
          BY <1>5, <2>2
        <4> HIDE DEF h
        <4> QED
          BY <1>3, <1>4, <4>1, <4>2, <4>3, HearBlock
      <3> HIDE DEF d
      <3>3. StreamOK(d, stream, chain, zmq')
        <4>1. FewBlocks(chain) =>
                /\ DOMAIN d.transactionHashesMap
                     \subseteq DOMAIN cache.transactionHashesMap \cup DOMAIN d.transactions
                /\ DOMAIN cache.transactions \ DOMAIN d.transactions
                     \subseteq Sent("transactions", stream)
          BY <3>2
        <4>2. Calm(chain) =>
                \A tx \in LiveSent("transactions", stream) :
                  tx \in DOMAIN d.transactions => tx \in DOMAIN cache.transactions
          BY <1>3, <1>4, <3>2 DEF StreamOK, OnceOK
        <4>3. Calm(chain) =>
                \A tx \in LiveSent("transactions", stream) :
                  /\ tx \in DOMAIN d.transactions => tx \in DOMAIN cache.transactions
                  /\ FewBlocks(chain) /\ tx \in DOMAIN cache.transactions
                       => tx \in DOMAIN d.transactions
          BY <3>2, <4>2
        <4>4. h \notin LiveSent("proofs", stream)
          BY <1>3, <1>4 DEF StreamOK, ProofsOK
        <4>5. \A i \in 1..Len(d.merkleBlocks) :
                \/ \E j \in 1..Len(cache.merkleBlocks) :
                     d.merkleBlocks[i] = cache.merkleBlocks[j]
                \/ /\ ~ d.merkleBlocks[i].isRetrieved
                   /\ d.merkleBlocks[i].hash \notin LiveSent("proofs", stream)
          BY <3>2, <4>4
        <4> QED
          BY <1>2, <1>3, <3>2, <4>1, <4>3, <4>5, StreamCache
      <3> QED
        BY <3>1, <3>2, <3>3, <2>2
    <2> QED
      BY <2>1, <2>2
  <1>7. LockOK(zmq', cache', stream, locked)
    <2>1. LockOK(zmq', cache, stream, locked)
      BY <1>2, <1>3
    <2> QED
      BY <2>1, <1>6 DEF LockOK
  <1>8. ControlOK'
    BY <1>1, <1>2, <1>3, <1>6, ControlUnderListener
  <1>9. GroupOK(zmq', chain, cache', collected)
    BY <1>5
  <1> QED
    BY <1>1, <1>2, <1>3, <1>6, <1>7, <1>8, <1>9 DEF IInv, DataOK

\* A lock is collected before the loop runs ...
LEMMA CollectInstantLockOK ==
  ASSUME IInv, CollectInstantLock
  PROVE  IInv'
  <1> DEFINE tx == zmq[1].item
  <1>1. pc # "streaming" /\ Take("rawtxlocksig") /\ stream' = stream
        /\ cache' = IF Hearing /\ Head(zmq).item \in Matching
                    THEN AddInstantLock(cache, Head(zmq).item)
                    ELSE cache
    BY DEF CollectInstantLock
  <1>2. /\ zmq # << >> /\ zmq \in Seq(Message)
        /\ Head(zmq) = zmq[1] /\ zmq[1].topic = "rawtxlocksig" /\ zmq' = Tail(zmq)
        /\ ZmqOK(zmq', chain, mempool)
        /\ \A c, s, lk : LockOK(zmq, c, s, lk) => LockOK(zmq', c, s, lk)
        /\ \A c : CacheOf(c, chain, zmq) => CacheOf(c, chain, zmq')
        /\ \A c, s : StreamOK(c, s, chain, zmq) => StreamOK(c, s, chain, zmq')
        /\ UNCHANGED <<chain, mempool, locked, pc, request, next, last, snapshot,
                       otherSnapshot, connected, attached, collected, relaying, looping,
                       listening>>
    BY <1>1, Taken
  <1>3. /\ ChainOK(chain, mempool) /\ ZmqOK(zmq, chain, mempool)
        /\ GroupOK(zmq, chain, cache, collected) /\ CacheOf(cache, chain, zmq)
        /\ LockOK(zmq, cache, stream, locked) /\ StreamOK(cache, stream, chain, zmq)
        /\ collected \in BOOLEAN /\ stream \in Seq(Response) /\ ControlOK
        /\ IsCache(cache) /\ cache.unretrievedInstantLocks \subseteq Matching
        /\ pc = "accept" => ~ collected
        /\ Hearing = collected
    BY DataParts
  <1>4. /\ cache'.blocks = cache.blocks
        /\ cache'.transactions = cache.transactions
        /\ CacheOf(cache', chain, zmq)
        /\ StreamOK(cache', stream, chain, zmq)
        /\ LockOK(zmq', cache', stream, locked)
        /\ ~ collected => cache' = cache
    <2>1. CASE ~ (collected /\ tx \in Matching)
      <3>1. cache' = cache
        BY <1>1, <1>2, <1>3, <2>1
      <3> QED
        BY <3>1, <1>2, <1>3
    <2>2. CASE collected /\ tx \in Matching
      <3> DEFINE d == AddInstantLock(cache, tx)
      <3>1. cache' = d
        BY <1>1, <1>2, <1>3, <2>2
      <3>2. /\ IsCache(d)
            /\ d.unretrievedInstantLocks = cache.unretrievedInstantLocks \cup {tx}
            /\ d.transactions = cache.transactions
            /\ d.merkleBlocks = cache.merkleBlocks /\ d.blocks = cache.blocks
            /\ d.transactionHashesMap = cache.transactionHashesMap
        BY <1>3, AddInstantLockIs
      <3> HIDE DEF d
      <3>3. CacheOf(d, chain, zmq)
        <4>1. d.unretrievedInstantLocks \subseteq Matching
          BY <1>3, <2>2, <3>2
        <4> QED
          BY <1>3, <3>2, <4>1, SameCached
      <3>4. StreamOK(d, stream, chain, zmq)
        BY <1>3, <3>2 DEF StreamOK, FlagsOK, KnownOK, OnceOK, ProofsOK
      <3>5. LockOK(zmq', d, stream, locked)
        BY <1>2, <1>3, <3>2, LockCollected
      <3> QED
        BY <3>1, <3>2, <3>3, <3>4, <3>5, <2>2
    <2> QED
      BY <2>1, <2>2
  <1>5. GroupOK(zmq', chain, cache', collected)
    <2>1. ~ IsBlock(zmq, 1)
      BY <1>2 DEF IsBlock
    <2>2. \A t \in Matching : zmq[1] = RawTx(t) /\ collected => t \in DOMAIN cache'.transactions
      BY <1>2 DEF RawTx
    <2>3. GroupOK(Tail(zmq), chain, cache', collected)
      BY <1>2, <1>3, <1>4, <2>1, <2>2, TakeTxNoticeGroup
    <2> QED
      BY <2>3, <1>2
  <1>6. ControlOK'
    BY <1>1, <1>2, <1>3, <1>4, ControlUnderListener
  <1> QED
    BY <1>1, <1>2, <1>3, <1>4, <1>5, <1>6 DEF IInv, DataOK

\* ... and sent at once after.
LEMMA SendInstantLockOK ==
  ASSUME IInv, SendInstantLock
  PROVE  IInv'
  <1> DEFINE tx == zmq[1].item
  <1>1. pc = "streaming" /\ Take("rawtxlocksig")
        /\ IF Hearing /\ IsInInstantLockCache(cache, Head(zmq).item)
           THEN /\ cache' = RemoveFromWaitingList(cache, Head(zmq).item)
                /\ stream' = stream \o Relay(Locks({Head(zmq).item}))
           ELSE UNCHANGED <<cache, stream>>
    BY DEF SendInstantLock
  <1>2. /\ zmq # << >> /\ zmq \in Seq(Message) /\ zmq[1] \in Message
        /\ Head(zmq) = zmq[1] /\ zmq[1].topic = "rawtxlocksig" /\ zmq' = Tail(zmq)
        /\ ZmqOK(zmq', chain, mempool)
        /\ \A c, s, lk : LockOK(zmq, c, s, lk) => LockOK(zmq', c, s, lk)
        /\ \A c : CacheOf(c, chain, zmq) => CacheOf(c, chain, zmq')
        /\ \A c, s : StreamOK(c, s, chain, zmq) => StreamOK(c, s, chain, zmq')
        /\ UNCHANGED <<chain, mempool, locked, pc, request, next, last, snapshot,
                       otherSnapshot, connected, attached, collected, relaying, looping,
                       listening>>
    BY <1>1, Taken
  <1>3. /\ ChainOK(chain, mempool) /\ ZmqOK(zmq, chain, mempool)
        /\ GroupOK(zmq, chain, cache, collected) /\ CacheOf(cache, chain, zmq)
        /\ LockOK(zmq, cache, stream, locked) /\ StreamOK(cache, stream, chain, zmq)
        /\ collected \in BOOLEAN /\ stream \in Seq(Response) /\ ControlOK
        /\ IsCache(cache) /\ cache.unretrievedInstantLocks \subseteq Matching
        /\ cache.unretrievedInstantLocks = {}
        /\ Hearing = collected /\ (collected => relaying)
    BY <1>1, DataParts
  <1>4. /\ cache'.blocks = cache.blocks
        /\ cache'.transactions = cache.transactions
        /\ cache'.unretrievedInstantLocks = {}
        /\ CacheOf(cache', chain, zmq)
        /\ StreamOK(cache', stream', chain, zmq)
        /\ LockOK(zmq', cache', stream', locked)
        /\ stream' \in Seq(Response)
        /\ Sent("transactions", stream') = Sent("transactions", stream)
    <2>1. CASE ~ (collected /\ IsInInstantLockCache(cache, tx))
      <3>1. cache' = cache /\ stream' = stream
        BY <1>1, <1>2, <1>3, <2>1
      <3> QED
        BY <3>1, <1>2, <1>3
    <2>2. CASE collected /\ IsInInstantLockCache(cache, tx)
      <3> DEFINE d  == RemoveFromWaitingList(cache, tx)
                 s2 == stream \o Locks({tx})
      <3>1. cache' = d /\ stream' = s2 /\ tx \in DOMAIN cache.transactionHashesMap
        BY <1>1, <1>2, <1>3, <2>2 DEF IsInInstantLockCache, Relay
      <3>2. /\ IsCache(d)
            /\ DOMAIN d.transactionHashesMap \subseteq DOMAIN cache.transactionHashesMap
            /\ d.unretrievedInstantLocks = cache.unretrievedInstantLocks
            /\ d.transactions = cache.transactions
            /\ d.merkleBlocks = cache.merkleBlocks /\ d.blocks = cache.blocks
        <4>1. /\ IsCache(d)
              /\ d.transactionHashesMap = Restrict(cache.transactionHashesMap,
                                                   DOMAIN cache.transactionHashesMap \ {tx})
              /\ d.unretrievedInstantLocks = cache.unretrievedInstantLocks
              /\ d.transactions = cache.transactions
              /\ d.merkleBlocks = cache.merkleBlocks /\ d.blocks = cache.blocks
          BY <1>3, RemoveFromWaitingListIs
        <4> HIDE DEF d
        <4> QED
          BY <4>1, RestrictIs
      <3>3. Written(stream, s2, "locks", {tx}, TRUE)
        <4>1. {tx} \in SUBSET Tx
          <5>1. \A m \in Message : m.topic = "rawtxlocksig" => m.item \in Tx
            BY DEF Message
          <5> QED
            BY <5>1, <1>2
        <4> QED
          BY <1>3, <4>1, WriteLocks
      <3> HIDE DEF d, s2
      <3>4. CacheOf(d, chain, zmq)
        BY <1>3, <3>2, SameCached
      <3>5. StreamOK(d, s2, chain, zmq)
        BY <1>3, <3>1, <3>2, <3>3, StreamLock
      <3>6. LockOK(zmq', d, s2, locked)
        BY <1>2, <1>3, <3>2, <3>3, LockWritten
      <3>7. /\ s2 \in Seq(Response)
            /\ Sent("transactions", s2) = Sent("transactions", stream)
        BY <3>3 DEF Written
      <3> QED
        BY <1>3, <3>1, <3>2, <3>4, <3>5, <3>6, <3>7
    <2> QED
      BY <2>1, <2>2
  <1>5. GroupOK(zmq', chain, cache', collected)
    <2>1. ~ IsBlock(zmq, 1)
      BY <1>2 DEF IsBlock
    <2>2. \A t \in Matching : zmq[1] = RawTx(t) /\ collected => t \in DOMAIN cache'.transactions
      BY <1>2 DEF RawTx
    <2>3. GroupOK(Tail(zmq), chain, cache', collected)
      BY <1>2, <1>3, <1>4, <2>1, <2>2, TakeTxNoticeGroup
    <2> QED
      BY <2>3, <1>2
  <1>6. ControlOK'
    BY <1>1, <1>2, <1>3, <1>4, ControlUnderListener
  <1> QED
    BY <1>2, <1>3, <1>4, <1>5, <1>6 DEF IInv, DataOK

\* A turn of the loop.
LEMMA LoopTurnOK ==
  ASSUME IInv, LoopTurn
  PROVE  IInv'
  <1>1. /\ looping /\ connected
        /\ stream' = stream \o Relay(TurnWrites(cache)) /\ cache' = TurnLeaves(cache)
        /\ UNCHANGED <<chain, mempool, locked, zmq, pc, request, next, last, snapshot,
                       otherSnapshot, connected, attached, collected, relaying, looping,
                       listening>>
    BY DEF LoopTurn, dashd, handler, client, links
  <1>2. /\ ChainOK(chain, mempool) /\ ZmqOK(zmq, chain, mempool)
        /\ GroupOK(zmq, chain, cache, collected) /\ CacheOf(cache, chain, zmq)
        /\ LockOK(zmq, cache, stream, locked) /\ StreamOK(cache, stream, chain, zmq)
        /\ collected \in BOOLEAN /\ chain \in Seq(SUBSET Tx) /\ stream \in Seq(Response)
        /\ ControlOK /\ pc = "streaming" /\ relaying
    BY <1>1, DataParts DEF ControlOK
  <1>3. /\ stream' \in Seq(Response)
        /\ CacheOf(cache', chain, zmq)
        /\ StreamOK(cache', stream', chain, zmq)
        /\ LockOK(zmq, cache', stream', locked)
        /\ GroupOK(zmq, chain, cache', collected)
        /\ cache'.unretrievedInstantLocks = {}
    <2> DEFINE d  == TurnLeaves(cache)
               s2 == stream \o TurnWrites(cache)
    <2>1. /\ s2 \in Seq(Response)
          /\ CacheOf(d, chain, zmq)
          /\ StreamOK(d, s2, chain, zmq)
          /\ LockOK(zmq, d, s2, locked)
          /\ GroupOK(zmq, chain, d, collected)
          /\ d.unretrievedInstantLocks = {}
      BY <1>2, TurnOK
    <2> QED
      BY <1>1, <1>2, <2>1 DEF Relay
  <1>4. ControlOK'
    <2>1. IsNew' = IsNew
      BY <1>1 DEF IsNew
    <2> QED
      BY <1>1, <1>2, <1>3, <2>1 DEF ControlOK
  <1> QED
    BY <1>1, <1>2, <1>3, <1>4 DEF IInv, DataOK

\* The loop ends.
LEMMA LoopEndsOK ==
  ASSUME IInv, LoopEnds
  PROVE  IInv'
  <1>1. /\ looping' = FALSE
        /\ UNCHANGED <<chain, mempool, locked, zmq, pc, request, next, last, snapshot,
                       otherSnapshot, connected, attached, collected, relaying, cache,
                       listening, stream>>
    BY DEF LoopEnds, dashd, handler, client, links
  <1>2. ControlOK'
    BY <1>1 DEF IInv, ControlOK, IsNew, MatchingIn
  <1> QED
    BY <1>1, <1>2, DataStays DEF IInv, SameData

\* Another call tests what it read of the mempool on this call's filter.
LEMMA OtherTestsMemPoolOK ==
  ASSUME IInv, OtherTestsMemPool
  PROVE  IInv'
  <1> DEFINE txs == otherSnapshot \cap Matching
  <1>1. /\ otherSnapshot # {} /\ otherSnapshot' = {}
        /\ cache' = IF Hearing THEN AddTransactions(cache, txs) ELSE cache
        /\ UNCHANGED <<chain, mempool, locked, zmq, pc, request, next, last, snapshot,
                       connected, attached, collected, relaying, looping, listening,
                       stream>>
    BY DEF OtherTestsMemPool, dashd, handler, client, links
  <1>2. /\ ChainOK(chain, mempool) /\ ZmqOK(zmq, chain, mempool)
        /\ GroupOK(zmq, chain, cache, collected) /\ CacheOf(cache, chain, zmq)
        /\ LockOK(zmq, cache, stream, locked) /\ StreamOK(cache, stream, chain, zmq)
        /\ collected \in BOOLEAN /\ stream \in Seq(Response) /\ ControlOK
        /\ pc = "streaming" => cache.unretrievedInstantLocks = {}
        /\ pc = "accept" => ~ collected
        /\ Hearing = collected
    BY DataParts
  <1>3. "otherCall" \in Disturbances /\ txs \in SUBSET Matching
    BY <1>1, <1>2 DEF ControlOK
  <1> HIDE DEF txs
  <1>4. /\ CacheOf(cache', chain, zmq)
        /\ StreamOK(cache', stream, chain, zmq)
        /\ GroupOK(zmq, chain, cache', collected)
        /\ cache'.unretrievedInstantLocks = cache.unretrievedInstantLocks
        /\ ~ collected => cache' = cache
    <2>1. CASE ~ collected
      <3>1. cache' = cache
        BY <1>1, <1>2, <2>1
      <3> QED
        BY <3>1, <1>2
    <2>2. CASE collected
      <3> DEFINE d == AddTransactions(cache, txs)
      <3>1. cache' = d
        BY <1>1, <1>2, <2>2
      <3>2. /\ CacheOf(d, chain, zmq)
            /\ OnlyAdds(cache, d, chain, zmq)
            /\ d.blocks = cache.blocks
            /\ d.unretrievedInstantLocks = cache.unretrievedInstantLocks
        BY <1>2, <1>3, AddTested
      <3>3. StreamOK(d, stream, chain, zmq)
        <4>1. Calm(chain) => \A t \in txs \cap LiveSent("transactions", stream) :
                                t \in DOMAIN cache.transactions
          BY <1>2, <1>3 DEF StreamOK, OnceOK, Settled
        <4> QED
          BY <4>1, <1>2, <1>3, StreamTested
      <3> HIDE DEF d
      <3>4. GroupOK(zmq, chain, d, collected)
        BY <1>2, <3>2, GroupKeeps
      <3> QED
        BY <3>1, <3>2, <3>3, <3>4, <2>2
    <2> QED
      BY <2>1, <2>2
  <1>5. LockOK(zmq, cache', stream, locked)
    BY <1>2, <1>4 DEF LockOK
  <1>6. ControlOK'
    BY <1>1, <1>2, <1>4, ControlUnderListener
  <1> QED
    BY <1>1, <1>2, <1>4, <1>5, <1>6 DEF IInv, DataOK

---------------------------------------------------------------------------
(***************************************************************************)
(* The invariant, and the properties                                        *)
(***************************************************************************)
LEMMA NextOK == IInv /\ [Next]_vars => IInv'
  <1> SUFFICES ASSUME IInv, [Next]_vars PROVE IInv'
    OBVIOUS
  <1>1. ASSUME NEW tx \in Tx, EnterMempool(tx)
        PROVE  IInv'
    BY <1>1, EnterMempoolOK
  <1>2. ASSUME NEW tx \in Tx, LockTransaction(tx)
        PROVE  IInv'
    BY <1>2, LockTransactionOK
  <1>3. ASSUME NEW txs \in SUBSET Tx, MineBlock(txs)
        PROVE  IInv'
    BY <1>3, MineBlockOK
  <1>4. CASE OtherReadsMemPool
    BY <1>4, OtherReadsMemPoolOK
  <1>5. CASE OtherTestsMemPool
    BY <1>5, OtherTestsMemPoolOK
  <1>6. CASE Cancel
    BY <1>6, CancelOK
  <1>7. CASE Accept
    BY <1>7, AcceptOK
  <1>8. CASE GetBlockHash
    BY <1>8, GetBlockHashOK
  <1>9. ASSUME NEW h \in DOMAIN chain, GetBlock(h)
        PROVE  IInv'
    BY <1>9, GetBlockOK
  <1>10. CASE GetBestBlockHeight
    BY <1>10, GetBestBlockHeightOK
  <1>11. CASE SendHistoricalTransactions
    BY <1>11, SendHistoricalTransactionsOK
  <1>12. CASE SendHistoricalProof
    BY <1>12, SendHistoricalProofOK
  <1>13. CASE HistoricalBlockSent
    BY <1>13, HistoricalBlockSentOK
  <1>14. CASE EndHistoricalStream
    BY <1>14, EndHistoricalStreamOK
  <1>15. CASE ReadMemPool
    BY <1>15, ReadMemPoolOK
  <1>16. CASE MemPoolDataSent
    BY <1>16, MemPoolDataSentOK
  <1>17. CASE RpcFails
    BY <1>17, RpcFailsOK
  <1>18. CASE OnRawTransaction
    BY <1>18, OnRawTransactionOK
  <1>19. CASE OnRawBlock
    BY <1>19, OnRawBlockOK
  <1>20. CASE CollectInstantLock
    BY <1>20, CollectInstantLockOK
  <1>21. CASE SendInstantLock
    BY <1>21, SendInstantLockOK
  <1>22. CASE Loop
    BY <1>22, LoopTurnOK, LoopEndsOK DEF Loop
  <1>23. CASE UNCHANGED vars
    <2>1. UNCHANGED <<chain, mempool, locked, zmq, pc, request, next, last, snapshot,
                      otherSnapshot, connected, attached, collected, relaying, cache,
                      looping, listening, stream>>
      BY <1>23 DEF vars, dashd, handler, session, client, links
    <2>2. ControlOK'
      BY <2>1 DEF IInv, ControlOK, MatchingIn, IsNew
    <2> QED
      BY <2>1, <2>2, DataStays DEF IInv, SameData
  <1>24. CASE Environment
    BY <1>24, <1>1, <1>2, <1>3, <1>4, <1>5, <1>6 DEF Environment
  <1>25. CASE HandlerStep
    BY <1>25, <1>7, <1>8, <1>9, <1>10, <1>11, <1>12, <1>13, <1>14, <1>15, <1>16 DEF HandlerStep
  <1>26. CASE ZmqStep
    BY <1>26, <1>18, <1>19, <1>20, <1>21 DEF ZmqStep
  <1> QED
    BY <1>17, <1>22, <1>23, <1>24, <1>25, <1>26 DEF Next

\* In every behaviour of the call.
LEMMA IInvHolds == Spec => []IInv
  BY InitOK, NextOK, PTL DEF Spec

\* The variables have their types; the history lies within the chain, an
\* emitter is collected only for a call that subscribes, and the loop runs only
\* once the cancellation of the call is listened to.
THEOREM StreamTypeCorrect == Spec => []TypeOK
  <1>1. IInv => TypeOK
    <2> SUFFICES ASSUME IInv PROVE TypeOK
      OBVIOUS
    <2>1. ChainOK(chain, mempool) /\ CacheOf(cache, chain, zmq) /\ ControlOK
      BY DEF IInv, DataOK
    <2>2. mempool \subseteq Tx \ Mined
      BY <2>1 DEF ChainOK, Mined
    <2>3. chain \in Seq(SUBSET Tx) /\ DOMAIN cache.transactions \subseteq Matching
      BY <2>1 DEF ChainOK, CacheOf, IsCacheOfCall
    <2> QED
      BY <2>1, <2>2, <2>3 DEF ControlOK, TypeOK
  <1> QED
    BY <1>1, IInvHolds, PTL

\* A merkle block of the cache proves all the matching transactions of its
\* block, however the notices of the block's transactions, the subscription and
\* the mempool reads interleaved (the 'block' listener, addBlock).
THEOREM CachedProofsAreComplete == Spec => []CachedProofsComplete
  <1>1. IInv => CachedProofsComplete
    <2> SUFFICES ASSUME IInv, NEW m \in ToSet(cache.merkleBlocks)
                 PROVE  m.matched = MatchingIn(m.hash)
      BY DEF CachedProofsComplete
    <2>1. CacheOf(cache, chain, zmq) /\ cache.merkleBlocks \in Seq(MerkleBlock)
          /\ Len(cache.merkleBlocks) = Len(cache.blocks)
      BY DEF IInv, DataOK, CacheOf, IsCacheOfCall
    <2>2. PICK i \in 1..Len(cache.merkleBlocks) : cache.merkleBlocks[i] = m
      BY <2>1 DEF ToSet
    <2>3. i \in 1..Len(cache.blocks)
      BY <2>1
    <2> QED
      BY <2>1, <2>2, <2>3 DEF CacheOf, MatchingIn
  <1> QED
    BY <1>1, IInvHolds, PTL

\* The client never reads a proof before a transaction that it proves, whether
\* history or the loop sent the one or the other, and whatever was evicted.
THEOREM ProofsFollowTransactions == Spec => []ProofFollowsTransactions
  <1>1. IInv => ProofFollowsTransactions
    <2> SUFFICES ASSUME IInv, NEW i \in DOMAIN stream, stream[i].type = "proofs",
                        NEW h \in stream[i].items, NEW tx \in MatchingIn(h)
                 PROVE  tx \in Sent("transactions", SubSeq(stream, 1, i - 1))
      BY DEF ProofFollowsTransactions
    <2> DEFINE before == SubSeq(stream, 1, i - 1)
    <2>1. stream \in Seq(Response) /\ i \in 1..Len(stream) /\ FollowsIn(stream, chain)
      BY DEF IInv, ControlOK, DataOK, StreamOK
    <2>2. PICK j \in 1..(i - 1) : stream[j].type = "transactions" /\ tx \in stream[j].items
      BY <2>1 DEF FollowsIn, MatchingIn
    <2>3. /\ before \in Seq(Response) /\ Len(before) = i - 1
          /\ \A k \in 1..(i - 1) : before[k] = stream[k]
      <3>1. \A k \in 1..(i - 1) : stream[k] \in Response
        BY <2>1
      <3> QED
        BY <2>1, <3>1, SubSeqProperties
    <2> HIDE DEF before
    <2>4. tx \in Sent("transactions", before)
      BY <2>2, <2>3, SentDef
    <2> QED
      BY <2>4 DEF before
  <1> QED
    BY <1>1, IInvHolds, PTL

\* The parts of "nothing is sent twice after the historical phase" that hold
\* without condition: locks (collected, cleared, sent at once) and proofs.
LocksAndProofsOnce == LiveOnce("locks", stream) /\ LiveOnce("proofs", stream)

\* A lock is collected or sent at once, never both; a merkle block whose block
\* was evicted is not built again (addInstantLock, the lock listeners, addBlock).
THEOREM LocksAndProofsSentOnce == Spec => []LocksAndProofsOnce
  <1>1. IInv => LocksAndProofsOnce
    BY DEF IInv, DataOK, LockOK, StreamOK, ProofsOK, LocksAndProofsOnce
  <1> QED
    BY <1>1, IInvHolds, PTL

\* Transactions too, unless a block is evicted while another call still has to
\* test the mempool it read: its transactions then look new to addTransaction.
THEOREM NothingSentTwice == Spec => [](Calm(chain) => LiveAtMostOnce)
  <1>1. IInv => (Calm(chain) => LiveAtMostOnce)
    <2> SUFFICES ASSUME IInv, Calm(chain),
                        NEW i \in DOMAIN stream, NEW j \in DOMAIN stream,
                        stream[i].live, stream[j].live, i < j,
                        stream[i].type = stream[j].type
                 PROVE  stream[i].items \cap stream[j].items = {}
      BY DEF LiveAtMostOnce
    <2>1. stream \in Seq(Response) /\ i \in 1..Len(stream) /\ j \in 1..Len(stream)
      BY DEF IInv, ControlOK
    <2>2. /\ LiveOnce("transactions", stream)
          /\ LiveOnce("locks", stream)
          /\ LiveOnce("proofs", stream)
      BY DEF IInv, DataOK, LockOK, StreamOK, OnceOK, ProofsOK
    <2>3. stream[i].type \in {"transactions", "locks", "proofs"}
      <3>1. \A m \in Response : m.type \in {"transactions", "locks", "proofs"}
        BY DEF Response
      <3> QED
        BY <2>1, <3>1
    <2> QED
      BY <2>1, <2>2, <2>3 DEF LiveOnce
  <1> QED
    BY <1>1, IInvHolds, PTL

\* As long as the blocks with matching transactions fit the cache, a lock is
\* sent only for a transaction that the client has or that is still cached.
THEOREM LocksAreKnown == Spec => [](FewBlocks(chain) => LockedIsKnown)
  <1>1. IInv => (FewBlocks(chain) => LockedIsKnown)
    BY DEF IInv, DataOK, StreamOK, KnownOK, LockedIsKnown
  <1> QED
    BY <1>1, IInvHolds, PTL

\* What the cache marks as retrieved was written, whatever the getters, other
\* calls' tests, evictions and the client's disconnection did in between.
THEOREM RetrievedIsSent == Spec => []RetrievedWasSent
  <1>1. IInv => RetrievedWasSent
    <2> SUFFICES ASSUME IInv, NEW m \in ToSet(cache.merkleBlocks), m.isRetrieved
                 PROVE  m.hash \in Sent("proofs", stream)
      BY DEF RetrievedWasSent, IInv, DataOK, StreamOK, FlagsOK
    <2>1. FlagsOK(cache, stream) /\ cache.merkleBlocks \in Seq(MerkleBlock)
      BY DEF IInv, DataOK, StreamOK, CacheOf, IsCacheOfCall
    <2>2. PICK i \in 1..Len(cache.merkleBlocks) : cache.merkleBlocks[i] = m
      BY <2>1 DEF ToSet
    <2> QED
      BY <2>1, <2>2 DEF FlagsOK
  <1> QED
    BY <1>1, IInvHolds, PTL
===============================================================================
