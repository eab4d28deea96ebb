----------------------- MODULE WaitForStateTransition -----------------------
(***************************************************************************)
(* Calls of waitForStateTransitionResult (grpcServer/handlers/platform/     *)
(* waitForStateTransitionResultHandlerFactory.js) and what they wait with   *)
(* (externalApis/tenderdash): a listener for the transaction's event, an    *)
(* RPC that looks for a result that exists already, a listener for the      *)
(* block after the transaction's, and a timer, raced against each other.    *)
(*                                                                          *)
(* Tenderdash is the environment: it commits blocks, answers the `tx` RPC   *)
(* and publishes two event streams, one per subscription of                 *)
(* BlockchainListener, each in order but with no order between them.        *)
(* Promise continuations run before the next event, so an event and all the *)
(* continuations it triggers are one action.                                *)
(***************************************************************************)
EXTENDS Integers, Sequences, FiniteSets, SequencesExt

CONSTANTS Call,          \* calls of the handler
          Tx,            \* state transitions
          TxOf,          \* the one each call asks for
          Disturbances,  \* what may go wrong (see Disturbance)
          MaxHeight      \* bound: blocks committed

\* The timer of a call may fire, the WebSocket may drop and lose events, an
\* RPC may fail.
Disturbance == {"timeout", "lostEvents", "rpcFails"}

ASSUME TxAssumption == IsFiniteSet(Tx)
ASSUME TxOfAssumption == TxOf \in [Call -> Tx]
ASSUME DisturbancesAssumption == Disturbances \subseteq Disturbance
ASSUME MaxHeightAssumption == MaxHeight \in Nat \ {0}

VARIABLES
  height, included, code,    \* Tenderdash: tip, height (0: none) and code of each tx
  txEvents, blockEvents,     \* events published and not yet received
  query,                     \* per call: the `tx` RPC
  currentHeight,             \* waitForHeight's currentHeight
  txListeners, waitsFor,     \* attached tx listeners; height waited for (0: none)
  timer,                     \* calls whose timer runs
  result,                    \* per call: the race of query and event
  answer                     \* per call: the race with the timer, then the proof

tenderdash == <<height, included, code>>
events     == <<txEvents, blockEvents>>
vars == <<tenderdash, events, query, currentHeight, txListeners, waitsFor, timer,
          result, answer>>

Verdict == {"ok", "error"}

\* The API server may be started on a chain that is already long: events of
\* the blocks before are never received.
Init ==
  /\ height \in 1..MaxHeight
  /\ included \in [Tx -> {0, height}]
  /\ code \in [Tx -> Verdict]
  /\ txEvents = << >> /\ blockEvents = << >>
  /\ query = [c \in Call |-> "none"]
  /\ currentHeight = 0
  /\ txListeners = {} /\ waitsFor = [c \in Call |-> 0]
  /\ timer = {}
  /\ result = [c \in Call |-> "none"]
  /\ answer = [c \in Call |-> "none"]

---------------------------------------------------------------------------
(***************************************************************************)
(* Tenderdash                                                               *)
(***************************************************************************)
Commit(txs) ==
  /\ height < MaxHeight
  /\ \A tx \in txs : included[tx] = 0
  /\ height' = height + 1
  /\ included' = [tx \in Tx |-> IF tx \in txs THEN height' ELSE included[tx]]
  /\ blockEvents' = Append(blockEvents, height')
  /\ \E order \in SetToSeqs(txs) : txEvents' = txEvents \o order
  /\ UNCHANGED <<code, query, currentHeight, txListeners, waitsFor, timer, result, answer>>

ReadTx(c) ==
  /\ query[c] = "sent"
  /\ query' = [query EXCEPT ![c] = IF included[TxOf[c]] = 0 THEN "notFound" ELSE "found"]
  /\ UNCHANGED <<tenderdash, events, currentHeight, txListeners, waitsFor, timer,
                 result, answer>>

LoseEvents ==
  /\ "lostEvents" \in Disturbances
  /\ \/ txEvents # << >> /\ txEvents' = Tail(txEvents) /\ UNCHANGED blockEvents
     \/ blockEvents # << >> /\ blockEvents' = Tail(blockEvents) /\ UNCHANGED txEvents
  /\ UNCHANGED <<tenderdash, query, currentHeight, txListeners, waitsFor, timer,
                 result, answer>>

---------------------------------------------------------------------------
(***************************************************************************)
(* A call.  answer[c] = "waiting" while the handler awaits                  *)
(* waitForTransactionToBeProvable, "proving" while it awaits the proof.     *)
(***************************************************************************)
\* (A definition set before another and not used here is a bug that
\* PROJECT.json puts in its place.)  The timer is not set.
StartWithoutTimer(c) ==
  /\ answer[c] = "none"
  /\ answer' = [answer EXCEPT ![c] = "waiting"]
  /\ result' = [result EXCEPT ![c] = "pending"]
  /\ txListeners' = txListeners \cup {c}
  /\ query' = [query EXCEPT ![c] = "sent"]
  /\ UNCHANGED <<tenderdash, events, currentHeight, waitsFor, timer>>

Start(c) ==
  /\ answer[c] = "none"
  /\ answer' = [answer EXCEPT ![c] = "waiting"]
  /\ result' = [result EXCEPT ![c] = "pending"]
  /\ txListeners' = txListeners \cup {c}
  /\ query' = [query EXCEPT ![c] = "sent"]
  /\ timer' = timer \cup {c}
  /\ UNCHANGED <<tenderdash, events, currentHeight, waitsFor>>

\* A promise of the outer race settles: only the first one counts.
Answer(a, calls, value) ==
  [c \in Call |-> IF c \in calls /\ a[c] = "waiting" THEN value ELSE a[c]]

(***************************************************************************)
(* The results of the calls in S are known.  An error result answers at     *)
(* once, an ok one when currentHeight has passed the transaction's height;  *)
(* until then waitForHeight leaves a listener, whether or not the call has  *)
(* timed out meanwhile.                                                     *)
(***************************************************************************)
\* The transaction's own block is taken for the next one.
ProvableInOwnBlock(c, h) == h >= included[TxOf[c]]

Provable(c, h) == h >= included[TxOf[c]] + 1

\* waitForHeight is asked for one block too many.
SettleLater(S) ==
  LET pending == {c \in S : result[c] = "pending"}
      ok      == {c \in pending : code[TxOf[c]] = "ok"}
      now     == {c \in ok : Provable(c, currentHeight)}
  IN  /\ result' = [c \in Call |-> IF c \in pending THEN code[TxOf[c]] ELSE result[c]]
      /\ answer' = Answer(Answer(answer, now, "proving"), pending \ ok, "error")
      /\ waitsFor' = [c \in Call |-> IF c \in ok \ now THEN included[TxOf[c]] + 2
                                                      ELSE waitsFor[c]]

Settle(S) ==
  LET pending == {c \in S : result[c] = "pending"}
      ok      == {c \in pending : code[TxOf[c]] = "ok"}
      now     == {c \in ok : Provable(c, currentHeight)}
  IN  /\ result' = [c \in Call |-> IF c \in pending THEN code[TxOf[c]] ELSE result[c]]
      /\ answer' = Answer(Answer(answer, now, "proving"), pending \ ok, "error")
      /\ waitsFor' = [c \in Call |-> IF c \in ok \ now THEN included[TxOf[c]] + 1
                                                      ELSE waitsFor[c]]

ExistingResult(c) ==
  /\ query[c] = "found"
  /\ query' = [query EXCEPT ![c] = "none"]
  /\ txListeners' = txListeners \ {c}
  /\ Settle({c})
  /\ UNCHANGED <<tenderdash, events, currentHeight, timer>>

\* The listener is detached whatever the RPC says.
NoExistingResultDetaching(c) ==
  /\ query[c] = "notFound"
  /\ query' = [query EXCEPT ![c] = "none"]
  /\ txListeners' = txListeners \ {c}
  /\ UNCHANGED <<tenderdash, events, currentHeight, waitsFor, timer, result, answer>>

\* The not found error leaves the race to the event.
NoExistingResult(c) ==
  /\ query[c] = "notFound"
  /\ query' = [query EXCEPT ![c] = "none"]
  /\ UNCHANGED <<tenderdash, events, currentHeight, txListeners, waitsFor, timer,
                 result, answer>>

\* Any other error rejects; the listener stays until its event or the timer.
QueryFails(c) ==
  /\ "rpcFails" \in Disturbances
  /\ query[c] = "sent"
  /\ query' = [query EXCEPT ![c] = "none"]
  /\ result' = [result EXCEPT ![c] = IF @ = "pending" THEN "rejected" ELSE @]
  /\ answer' = IF result[c] = "pending" THEN Answer(answer, {c}, "failed") ELSE answer
  /\ UNCHANGED <<tenderdash, events, currentHeight, txListeners, waitsFor, timer>>

\* All the listeners hear all the transactions.
TxEventForAll ==
  /\ txEvents # << >>
  /\ txListeners' = {}
  /\ Settle(txListeners)
  /\ txEvents' = Tail(txEvents)
  /\ UNCHANGED <<tenderdash, blockEvents, query, currentHeight, timer>>

TxEvent ==
  /\ txEvents # << >>
  /\ LET heard == {c \in txListeners : TxOf[c] = Head(txEvents)}
     IN  /\ txListeners' = txListeners \ heard
         /\ Settle(heard)
  /\ txEvents' = Tail(txEvents)
  /\ UNCHANGED <<tenderdash, blockEvents, query, currentHeight, timer>>

\* The waiting calls' listeners run first.
BlockEventStale ==
  /\ blockEvents # << >>
  /\ currentHeight' = Head(blockEvents)
  /\ LET reached == {c \in Call : waitsFor[c] # 0 /\ currentHeight >= waitsFor[c]}
     IN  /\ waitsFor' = [c \in Call |-> IF c \in reached THEN 0 ELSE waitsFor[c]]
         /\ answer' = Answer(answer, reached, "proving")
  /\ blockEvents' = Tail(blockEvents)
  /\ UNCHANGED <<tenderdash, txEvents, query, txListeners, timer, result>>

\* waitForHeight's own listener runs first, then those of the waiting calls.
BlockEvent ==
  /\ blockEvents # << >>
  /\ currentHeight' = Head(blockEvents)
  /\ LET reached == {c \in Call : waitsFor[c] # 0 /\ currentHeight' >= waitsFor[c]}
     IN  /\ waitsFor' = [c \in Call |-> IF c \in reached THEN 0 ELSE waitsFor[c]]
         /\ answer' = Answer(answer, reached, "proving")
  /\ blockEvents' = Tail(blockEvents)
  /\ UNCHANGED <<tenderdash, txEvents, query, txListeners, timer, result>>

\* The timer leaves the transaction's listener attached.
TimeoutKeepingListener(c) ==
  /\ "timeout" \in Disturbances
  /\ c \in timer
  /\ timer' = timer \ {c}
  /\ answer' = Answer(answer, {c}, "deadline")
  /\ UNCHANGED <<tenderdash, events, query, currentHeight, txListeners, waitsFor, result>>

\* The timer is never cleared: it also fires for a call that was answered.
Timeout(c) ==
  /\ "timeout" \in Disturbances
  /\ c \in timer
  /\ timer' = timer \ {c}
  /\ txListeners' = txListeners \ {c}
  /\ answer' = Answer(answer, {c}, "deadline")
  /\ UNCHANGED <<tenderdash, events, query, currentHeight, waitsFor, result>>

\* fetchProofForStateTransition, or no proof asked for.
Respond(c) ==
  /\ answer[c] = "proving"
  /\ \/ answer' = [answer EXCEPT ![c] = "ok"]
     \/ "rpcFails" \in Disturbances /\ answer' = [answer EXCEPT ![c] = "failed"]
  /\ UNCHANGED <<tenderdash, events, query, currentHeight, txListeners, waitsFor, timer,
                 result>>

Next ==
  \/ \E txs \in SUBSET Tx : Commit(txs)
  \/ LoseEvents
  \/ \E c \in Call : \/ Start(c) \/ ReadTx(c) \/ ExistingResult(c) \/ NoExistingResult(c)
                     \/ QueryFails(c) \/ Timeout(c) \/ Respond(c)
  \/ TxEvent
  \/ BlockEvent

Spec == Init /\ [][Next]_vars

\* Timers fire, the RPC is answered, events that are not lost are received.
Fairness ==
  /\ WF_vars(TxEvent) /\ WF_vars(BlockEvent)
  /\ \A c \in Call : /\ WF_vars(ReadTx(c))
                     /\ WF_vars(ExistingResult(c) \/ NoExistingResult(c))
                     /\ WF_vars(Timeout(c)) /\ WF_vars(Respond(c))

FairSpec == Spec /\ Fairness

---------------------------------------------------------------------------

Answered(c) == answer[c] \in {"ok", "error", "deadline", "failed"}

TypeOK ==
  /\ height \in 1..MaxHeight /\ currentHeight \in 0..height
  /\ included \in [Tx -> 0..height] /\ code \in [Tx -> Verdict]
  /\ txEvents \in Seq(Tx) /\ blockEvents \in Seq(1..height)
  /\ query \in [Call -> {"none", "sent", "found", "notFound"}]
  /\ txListeners \subseteq Call /\ timer \subseteq Call
  /\ waitsFor \in [Call -> 0..(height + 1)]
  /\ result \in [Call -> {"none", "pending", "ok", "error", "rejected"}]
  /\ answer \in [Call -> {"none", "waiting", "proving", "ok", "error", "deadline", "failed"}]

\* An ok answer, and the fetch of its proof, come only when the block after
\* the transaction's is committed, whichever of the RPC and the event told of
\* the transaction and however late the block events are (waitForHeight).
ProvableWhenAnswered ==
  \A c \in Call : answer[c] \in {"proving", "ok"} =>
    /\ included[TxOf[c]] # 0 /\ code[TxOf[c]] = "ok"
    /\ height > included[TxOf[c]]

\* A call is told of an error only if its own transaction failed.
ErrorIsOfTransaction ==
  \A c \in Call : answer[c] = "error" =>
    included[TxOf[c]] # 0 /\ code[TxOf[c]] = "error"

\* A transaction listener never outlives its call's timer: the calls that
\* leave it attached (a failed RPC, a timeout) have a timer that detaches it.
ListenerHasTimer == txListeners \subseteq timer

\* A call that has its result waits for a block that it has not seen yet:
\* the height read and the listener's registration leave no gap between them.
WaitsForFuture ==
  \A c \in Call : waitsFor[c] # 0 => currentHeight < waitsFor[c]

\* Every call is answered, at the latest by its timer.
EveryCallAnswered == \A c \in Call : answer[c] = "waiting" ~> Answered(c)

\* A result that exists is never missed, whether the transaction is committed
\* before the call, between the listener's attachment and the RPC's read, or
\* after it: once a later block is seen the call is answered, without the help
\* of the timer.
NoMissedResult ==
  \A c \in Call :
    (answer[c] = "waiting" /\ included[TxOf[c]] # 0 /\ currentHeight > included[TxOf[c]])
    ~> Answered(c)

=============================================================================
