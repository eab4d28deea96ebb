-------------------- MODULE WaitForStateTransition_proofs --------------------
(***************************************************************************)
(* The safety properties of WaitForStateTransition for any number of calls, *)
(* state transitions and blocks.  They are proved together: each is a       *)
(* conjunct of one inductive invariant.                                     *)
(***************************************************************************)
EXTENDS WaitForStateTransition, FiniteSetTheorems, SequenceTheorems, TLAPS

Included == {tx \in Tx : included[tx] # 0}

\* Events and replies that wait for the API server tell the truth.
TruthfulEvents ==
  /\ txEvents \in Seq(Included)
  /\ \A c \in Call : query[c] = "found" => included[TxOf[c]] # 0

\* A call that waits for a height waits for the block after its transaction's.
WaitsForNextBlock ==
  \A c \in Call : waitsFor[c] # 0 =>
    /\ included[TxOf[c]] # 0 /\ code[TxOf[c]] = "ok"
    /\ waitsFor[c] = included[TxOf[c]] + 1

IInv ==
  /\ TypeOK
  /\ TruthfulEvents
  /\ WaitsForNextBlock
  /\ ProvableWhenAnswered
  /\ ErrorIsOfTransaction
  /\ ListenerHasTimer
  /\ WaitsForFuture

---------------------------------------------------------------------------
\* A sequence over a set is one over a larger set.
LEMMA SeqMonotone ==
  ASSUME NEW A, NEW B, A \subseteq B, NEW s \in Seq(A)
  PROVE  s \in Seq(B)
  <1>1. /\ Len(s) \in Nat
        /\ s \in [1..Len(s) -> A]
    BY LenProperties
  <1>2. s \in [1..Len(s) -> B]
    BY <1>1
  <1> QED
    BY <1>1, <1>2

\* An order of a finite set's elements is a sequence over the set.
LEMMA OrderIsSeq ==
  ASSUME NEW S, IsFiniteSet(S), NEW order \in SetToSeqs(S)
  PROVE  order \in Seq(S)
  <1>1. Cardinality(S) \in Nat
    BY FS_CardinalityType
  <1>2. order \in [1..Cardinality(S) -> S]
    BY DEF SetToSeqs
  <1> QED
    BY <1>1, <1>2

---------------------------------------------------------------------------
\* Settle on calls whose transactions are included: whatever the results were,
\* the calls are answered or wait as they should (waitForTransactionToBeProvable,
\* waitForHeight).
LEMMA SettleKeeps ==
  ASSUME TypeOK, WaitsForNextBlock, ProvableWhenAnswered, ErrorIsOfTransaction,
         WaitsForFuture,
         NEW S \in SUBSET Call, \A c \in S : included[TxOf[c]] # 0,
         Settle(S),
         UNCHANGED <<height, included, code, currentHeight>>
  PROVE  /\ waitsFor' \in [Call -> 0..(height + 1)]
         /\ result' \in [Call -> {"none", "pending", "ok", "error", "rejected"}]
         /\ answer' \in [Call -> {"none", "waiting", "proving", "ok", "error",
                                  "deadline", "failed"}]
         /\ WaitsForNextBlock' /\ ProvableWhenAnswered' /\ ErrorIsOfTransaction'
         /\ WaitsForFuture'
  <1> DEFINE pending == {c \in S : result[c] = "pending"}
             ok      == {c \in pending : code[TxOf[c]] = "ok"}
             now     == {c \in ok : Provable(c, currentHeight)}
  <1>0. \A c \in Call : /\ TxOf[c] \in Tx /\ code[TxOf[c]] \in Verdict
                        /\ included[TxOf[c]] \in 0..height
    BY TxOfAssumption DEF TypeOK
  <1>1. /\ result' = [c \in Call |-> IF c \in pending THEN code[TxOf[c]] ELSE result[c]]
        /\ answer' = Answer(Answer(answer, now, "proving"), pending \ ok, "error")
        /\ waitsFor' = [c \in Call |-> IF c \in ok \ now THEN included[TxOf[c]] + 1
                                                        ELSE waitsFor[c]]
    BY DEF Settle
  <1>2. result' \in [Call -> {"none", "pending", "ok", "error", "rejected"}]
    BY <1>0, <1>1 DEF TypeOK, Verdict
  <1>3. waitsFor' \in [Call -> 0..(height + 1)]
    BY <1>0, <1>1 DEF TypeOK
  <1>4. \A c \in Call :
          answer'[c] = IF answer[c] # "waiting" THEN answer[c]
                       ELSE IF c \in now THEN "proving"
                       ELSE IF c \in pending \ ok THEN "error" ELSE answer[c]
    BY <1>1 DEF Answer
  <1>5. answer' \in [Call -> {"none", "waiting", "proving", "ok", "error",
                              "deadline", "failed"}]
    <2>1. DOMAIN answer' = Call /\ answer' = [c \in Call |-> answer'[c]]
      BY <1>1 DEF Answer
    <2> QED
      BY <1>4, <2>1 DEF TypeOK
  <1>6. WaitsForNextBlock'
    BY <1>0, <1>1 DEF WaitsForNextBlock
  <1>7. ProvableWhenAnswered'
    <2>1. \A c \in now : /\ included[TxOf[c]] # 0 /\ code[TxOf[c]] = "ok"
                         /\ height > included[TxOf[c]]
      BY <1>0 DEF Provable, TypeOK
    <2> QED
      BY <1>4, <2>1 DEF ProvableWhenAnswered
  <1>8. ErrorIsOfTransaction'
    BY <1>0, <1>4 DEF ErrorIsOfTransaction, Verdict
  <1>9. WaitsForFuture'
    <2>1. \A c \in ok \ now : currentHeight < included[TxOf[c]] + 1
      BY <1>0 DEF Provable, TypeOK
    <2> QED
      BY <1>1, <2>1 DEF WaitsForFuture
  <1> QED
    BY <1>2, <1>3, <1>5, <1>6, <1>7, <1>8, <1>9

\* Answering calls that wait changes no other answer.
LEMMA AnswerKeeps ==
  ASSUME TypeOK, NEW S \in SUBSET Call,
         NEW v \in {"proving", "error", "deadline", "failed"}
  PROVE  /\ Answer(answer, S, v) \in [Call -> {"none", "waiting", "proving", "ok", "error",
                                               "deadline", "failed"}]
         /\ \A c \in Call : \/ Answer(answer, S, v)[c] = answer[c]
                            \/ c \in S /\ Answer(answer, S, v)[c] = v
  BY DEF TypeOK, Answer

---------------------------------------------------------------------------
\* The invariant holds when the API server starts, on a chain of any height.
LEMMA InitIInv == Init => IInv
  <1> SUFFICES ASSUME Init PROVE IInv
    OBVIOUS
  <1>1. height \in Nat /\ included \in [Tx -> 0..height]
    BY MaxHeightAssumption DEF Init
  <1>2. TypeOK
    BY <1>1, EmptySeq DEF Init, TypeOK
  <1>3. TruthfulEvents
    BY EmptySeq DEF Init, TruthfulEvents
  <1> QED
    BY <1>2, <1>3 DEF Init, IInv, WaitsForNextBlock, ProvableWhenAnswered,
       ErrorIsOfTransaction, ListenerHasTimer, WaitsForFuture

\* Every step keeps the invariant: the two actions that settle results and the
\* two that answer calls by SettleKeeps and AnswerKeeps, and the environment
\* because a transaction that is included stays where it is.
LEMMA NextIInv == IInv /\ [Next]_vars => IInv'
  <1> SUFFICES ASSUME IInv, [Next]_vars PROVE IInv'
    OBVIOUS
  <1> USE DEF IInv
  <1>0. /\ height \in Nat /\ \A c \in Call : TxOf[c] \in Tx
        /\ \A c \in Call : code[TxOf[c]] \in Verdict /\ included[TxOf[c]] \in 0..height
    BY TxOfAssumption, MaxHeightAssumption DEF TypeOK
  <1>1. ASSUME NEW txs \in SUBSET Tx, Commit(txs) PROVE IInv'
    <2>1. /\ height' = height + 1 /\ height' \in 1..MaxHeight
          /\ included' = [tx \in Tx |-> IF tx \in txs THEN height' ELSE included[tx]]
          /\ blockEvents' = Append(blockEvents, height')
          /\ \A tx \in txs : included[tx] = 0
      BY <1>0, <1>1, MaxHeightAssumption DEF Commit, TypeOK
    <2>2. /\ included' \in [Tx -> 0..height']
          /\ \A tx \in Tx : included[tx] # 0 => included'[tx] = included[tx]
          /\ txs \subseteq Included' /\ Included \subseteq Included'
      BY <1>0, <2>1 DEF TypeOK, Included
    <2>3. blockEvents' \in Seq(1..height')
      <3>1. blockEvents \in Seq(1..height') /\ height' \in 1..height'
        BY <1>0, <2>1, SeqMonotone DEF TypeOK
      <3> QED
        BY <2>1, <3>1, AppendProperties
    <2>4. txEvents' \in Seq(Included')
      <3>1. PICK order \in SetToSeqs(txs) : txEvents' = txEvents \o order
        BY <1>1 DEF Commit
      <3>2. order \in Seq(txs)
        BY TxAssumption, FS_Subset, OrderIsSeq
      <3>3. order \in Seq(Included') /\ txEvents \in Seq(Included')
        BY <2>2, <3>2, SeqMonotone DEF TruthfulEvents
      <3> QED
        BY <3>1, <3>3, ConcatProperties
    <2>5. txEvents' \in Seq(Tx)
      BY <2>4, SeqMonotone DEF Included
    <2>6. TypeOK'
      BY <1>0, <1>1, <2>1, <2>2, <2>3, <2>5 DEF TypeOK, Commit
    <2>7. UNCHANGED <<code, query, currentHeight, txListeners, waitsFor, timer, result, answer>>
      BY <1>1 DEF Commit
    <2> QED
      BY <1>0, <2>1, <2>2, <2>4, <2>6, <2>7
      DEF TruthfulEvents, WaitsForNextBlock, ProvableWhenAnswered,
          ErrorIsOfTransaction, ListenerHasTimer, WaitsForFuture
  <1>2. ASSUME LoseEvents PROVE IInv'
    <2>1. /\ txEvents' \in Seq(Included) /\ txEvents' \in Seq(Tx)
          /\ blockEvents' \in Seq(1..height)
      <3>1. CASE txEvents # << >> /\ txEvents' = Tail(txEvents) /\ UNCHANGED blockEvents
        <4>1. Tail(txEvents) \in Seq(Included) /\ Tail(txEvents) \in Seq(Tx)
          BY <3>1, HeadTailProperties DEF TruthfulEvents, TypeOK
        <4> QED
          BY <3>1, <4>1 DEF TypeOK
      <3>2. CASE blockEvents # << >> /\ blockEvents' = Tail(blockEvents) /\ UNCHANGED txEvents
        <4>1. Tail(blockEvents) \in Seq(1..height)
          BY <3>2, HeadTailProperties DEF TypeOK
        <4> QED
          BY <3>2, <4>1 DEF TypeOK, TruthfulEvents
      <3> QED
        BY <1>2, <3>1, <3>2 DEF LoseEvents
    <2> QED
      BY <1>2, <2>1
      DEF LoseEvents, TypeOK, tenderdash, Included, TruthfulEvents, WaitsForNextBlock,
          ProvableWhenAnswered, ErrorIsOfTransaction, ListenerHasTimer, WaitsForFuture
  <1>3. ASSUME NEW c \in Call, Start(c) PROVE IInv'
    BY <1>3
    DEF Start, TypeOK, tenderdash, events, Included, TruthfulEvents, WaitsForNextBlock,
        ProvableWhenAnswered, ErrorIsOfTransaction, ListenerHasTimer, WaitsForFuture
  <1>4. ASSUME NEW c \in Call, ReadTx(c) PROVE IInv'
    BY <1>4
    DEF ReadTx, TypeOK, tenderdash, events, Included, TruthfulEvents, WaitsForNextBlock,
        ProvableWhenAnswered, ErrorIsOfTransaction, ListenerHasTimer, WaitsForFuture
  <1>5. ASSUME NEW c \in Call, ExistingResult(c) PROVE IInv'
    <2>1. /\ Settle({c}) /\ included[TxOf[c]] # 0
          /\ query' = [query EXCEPT ![c] = "none"] /\ txListeners' = txListeners \ {c}
          /\ UNCHANGED <<height, included, code, txEvents, blockEvents, currentHeight, timer>>
      BY <1>5 DEF ExistingResult, TruthfulEvents, tenderdash, events
    <2>2. /\ waitsFor' \in [Call -> 0..(height + 1)]
          /\ result' \in [Call -> {"none", "pending", "ok", "error", "rejected"}]
          /\ answer' \in [Call -> {"none", "waiting", "proving", "ok", "error",
                                   "deadline", "failed"}]
          /\ WaitsForNextBlock' /\ ProvableWhenAnswered' /\ ErrorIsOfTransaction'
          /\ WaitsForFuture'
      BY <2>1, SettleKeeps
    <2> QED
      BY <2>1, <2>2 DEF TypeOK, Included, TruthfulEvents, ListenerHasTimer
  <1>6. ASSUME NEW c \in Call, NoExistingResult(c) PROVE IInv'
    BY <1>6
    DEF NoExistingResult, TypeOK, tenderdash, events, Included, TruthfulEvents,
        WaitsForNextBlock, ProvableWhenAnswered, ErrorIsOfTransaction, ListenerHasTimer,
        WaitsForFuture
  <1>7. ASSUME NEW c \in Call, QueryFails(c) PROVE IInv'
    <2>1. /\ answer' \in [Call -> {"none", "waiting", "proving", "ok", "error",
                                   "deadline", "failed"}]
          /\ \A d \in Call : answer'[d] = answer[d] \/ answer'[d] = "failed"
      <3>1. CASE answer' = answer
        BY <3>1 DEF TypeOK
      <3>2. CASE answer' = Answer(answer, {c}, "failed")
        BY <3>2, AnswerKeeps
      <3> QED
        BY <1>7, <3>1, <3>2 DEF QueryFails
    <2> QED
      BY <1>7, <2>1
      DEF QueryFails, TypeOK, tenderdash, events, Included, TruthfulEvents,
          WaitsForNextBlock, ProvableWhenAnswered, ErrorIsOfTransaction, ListenerHasTimer,
          WaitsForFuture
  <1>8. ASSUME TxEvent PROVE IInv'
    <2> DEFINE heard == {c \in txListeners : TxOf[c] = Head(txEvents)}
    <2>1. /\ Head(txEvents) \in Included
          /\ txEvents' \in Seq(Included) /\ txEvents' \in Seq(Tx)
      BY <1>8, HeadTailProperties DEF TxEvent, TruthfulEvents, TypeOK
    <2>2. /\ Settle(heard) /\ heard \in SUBSET Call
          /\ \A c \in heard : included[TxOf[c]] # 0
          /\ txListeners' = txListeners \ heard
          /\ UNCHANGED <<height, included, code, blockEvents, query, currentHeight, timer>>
      BY <1>8, <2>1 DEF TxEvent, TypeOK, Included, tenderdash
    <2>3. /\ waitsFor' \in [Call -> 0..(height + 1)]
          /\ result' \in [Call -> {"none", "pending", "ok", "error", "rejected"}]
          /\ answer' \in [Call -> {"none", "waiting", "proving", "ok", "error",
                                   "deadline", "failed"}]
          /\ WaitsForNextBlock' /\ ProvableWhenAnswered' /\ ErrorIsOfTransaction'
          /\ WaitsForFuture'
      BY <2>2, SettleKeeps
    <2> HIDE DEF heard
    <2> QED
      BY <2>1, <2>2, <2>3 DEF TypeOK, Included, TruthfulEvents, ListenerHasTimer
  <1>9. ASSUME BlockEvent PROVE IInv'
    <2> DEFINE reached == {c \in Call : waitsFor[c] # 0 /\ currentHeight' >= waitsFor[c]}
    <2>1. /\ currentHeight' \in 1..height /\ blockEvents' \in Seq(1..height)
      BY <1>9, HeadTailProperties DEF BlockEvent, TypeOK
    <2>2. /\ waitsFor' = [c \in Call |-> IF c \in reached THEN 0 ELSE waitsFor[c]]
          /\ answer' = Answer(answer, reached, "proving")
          /\ UNCHANGED <<height, included, code, txEvents, query, txListeners, timer, result>>
      BY <1>9 DEF BlockEvent, tenderdash
    <2>3. \A c \in reached : /\ included[TxOf[c]] # 0 /\ code[TxOf[c]] = "ok"
                             /\ height > included[TxOf[c]]
      BY <1>0, <2>1 DEF WaitsForNextBlock, TypeOK
    <2>4. /\ answer' \in [Call -> {"none", "waiting", "proving", "ok", "error",
                                   "deadline", "failed"}]
          /\ \A c \in Call : answer'[c] = answer[c] \/ (c \in reached /\ answer'[c] = "proving")
      BY <2>2, AnswerKeeps
    <2>5. \A c \in Call : waitsFor'[c] # 0 =>
            waitsFor'[c] = waitsFor[c] /\ currentHeight' < waitsFor'[c]
      BY <1>0, <2>1, <2>2 DEF TypeOK
    <2>6. waitsFor' \in [Call -> 0..(height + 1)]
      BY <1>0, <2>2 DEF TypeOK
    <2> HIDE DEF reached
    <2>7. TypeOK'
      BY <1>0, <2>1, <2>2, <2>4, <2>6 DEF TypeOK
    <2>8. ProvableWhenAnswered' /\ ErrorIsOfTransaction'
      BY <2>2, <2>3, <2>4 DEF ProvableWhenAnswered, ErrorIsOfTransaction
    <2>9. WaitsForNextBlock' /\ WaitsForFuture'
      BY <2>2, <2>5 DEF WaitsForNextBlock, WaitsForFuture
    <2> QED
      BY <2>2, <2>7, <2>8, <2>9 DEF Included, TruthfulEvents, ListenerHasTimer
  <1>10. ASSUME NEW c \in Call, Timeout(c) PROVE IInv'
    <2>1. /\ answer' \in [Call -> {"none", "waiting", "proving", "ok", "error",
                                   "deadline", "failed"}]
          /\ \A d \in Call : answer'[d] = answer[d] \/ answer'[d] = "deadline"
      BY <1>10, AnswerKeeps DEF Timeout
    <2>2. /\ timer' = timer \ {c} /\ txListeners' = txListeners \ {c}
          /\ UNCHANGED <<tenderdash, events, query, currentHeight, waitsFor, result>>
      BY <1>10 DEF Timeout
    <2>3. TypeOK'
      BY <2>1, <2>2 DEF TypeOK, tenderdash, events
    <2>4. ProvableWhenAnswered' /\ ErrorIsOfTransaction'
      BY <2>1, <2>2 DEF ProvableWhenAnswered, ErrorIsOfTransaction, tenderdash
    <2> QED
      BY <2>2, <2>3, <2>4
      DEF tenderdash, events, Included, TruthfulEvents, WaitsForNextBlock, ListenerHasTimer,
          WaitsForFuture
  <1>11. ASSUME NEW c \in Call, Respond(c) PROVE IInv'
    BY <1>11
    DEF Respond, TypeOK, tenderdash, events, Included, TruthfulEvents,
        WaitsForNextBlock, ProvableWhenAnswered, ErrorIsOfTransaction, ListenerHasTimer,
        WaitsForFuture
  <1>12. CASE UNCHANGED vars
    BY <1>12
    DEF vars, TypeOK, tenderdash, events, Included, TruthfulEvents,
        WaitsForNextBlock, ProvableWhenAnswered, ErrorIsOfTransaction, ListenerHasTimer,
        WaitsForFuture
  <1> QED
    BY <1>1, <1>2, <1>3, <1>4, <1>5, <1>6, <1>7, <1>8, <1>9, <1>10, <1>11, <1>12 DEF Next

---------------------------------------------------------------------------
\* The conjunction of all safety properties is an invariant.
THEOREM InvariantIInv == Spec => []IInv
  BY InitIInv, NextIInv, PTL DEF Spec

\* The values of all variables are as the code has them.
THEOREM TypeCorrect == Spec => []TypeOK
  BY InvariantIInv, PTL DEF IInv

\* An ok answer comes after the block that proves the transaction.
THEOREM AnsweredWhenProvable == Spec => []ProvableWhenAnswered
  BY InvariantIInv, PTL DEF IInv

\* An error answer is about the call's own transaction.
THEOREM ErrorsOwn == Spec => []ErrorIsOfTransaction
  BY InvariantIInv, PTL DEF IInv

\* No transaction listener outlives its timer.
THEOREM ListenersTimed == Spec => []ListenerHasTimer
  BY InvariantIInv, PTL DEF IInv

\* No call waits for a block already seen.
THEOREM NoHeightMissed == Spec => []WaitsForFuture
  BY InvariantIInv, PTL DEF IInv

=============================================================================
