------------------------------ MODULE WsClient ------------------------------
(***************************************************************************)
(* The API server's connection to Tenderdash (externalApis/tenderdash/      *)
(* WsClient.js), the program that opens it (scripts/api.js) and the two     *)
(* subscriptions of BlockchainListener.js that it has to carry through      *)
(* every reconnection.                                                      *)
(*                                                                          *)
(* Tenderdash and the network are the environment: they accept or refuse a  *)
(* connection, close one that is open, or fail it with an error.  What a    *)
(* socket emits in one turn of the event loop, with the promise             *)
(* continuations that follow, is one action.                                *)
(***************************************************************************)
EXTENDS Integers

CONSTANTS Query,        \* the queries of BlockchainListener
          Limits,       \* values of connectionOptions.maxRetries to try
          MaxFailures   \* bound: connections refused or dropped

Unlimited == -1

ASSUME LimitsAssumption == Limits \subseteq {Unlimited} \cup (Nat \ {0})
ASSUME MaxFailuresAssumption == MaxFailures \in Nat

VARIABLES
  program,      \* api.js: "starting", "connecting", "running" or "exited"
  maxRetries,   \* WsClient.maxRetries, set by connect()
  client,       \* the other fields of WsClient, its timers and its socket
  failures

vars == <<program, maxRetries, client, failures>>

(***************************************************************************)
(* A socket is "dropped" when it ended by itself: its listeners are still   *)
(* on.  A "terminated" one has none.  `served` are the queries Tenderdash   *)
(* has received on the current socket, `timers` the calls of open() that    *)
(* setTimeout holds, `gaveUp` that 'connect:max_retry_exceeded' was emitted. *)
(***************************************************************************)
Socket == {"none", "connecting", "open", "dropped", "terminated"}

Client == [ws                : Socket,
           isConnected       : BOOLEAN,
           connectionRetries : Nat,
           subscribedQueries : [Query -> Nat],
           served            : SUBSET Query,
           timers            : Nat,
           gaveUp            : BOOLEAN]

\* (A definition set before another and not used here is a bug that
\* PROJECT.json puts in its place.)  connect() swaps the start values of its two numbers.
SwappedStart == [ws |-> "none", isConnected |-> FALSE, connectionRetries |-> Unlimited,
                 subscribedQueries |-> [q \in Query |-> 0], served |-> {},
                 timers |-> 0, gaveUp |-> FALSE]

NewClient == [ws                |-> "none",
              isConnected       |-> FALSE,
              connectionRetries |-> 0,
              subscribedQueries |-> [q \in Query |-> 0],
              served            |-> {},
              timers            |-> 0,
              gaveUp            |-> FALSE]

Subscribed(c) == {q \in Query : c.subscribedQueries[q] > 0}

---------------------------------------------------------------------------
\* The methods of WsClient, as functions of its state.

Disconnect(c) == [c EXCEPT !.ws = "terminated", !.isConnected = FALSE]

\* The new socket is made before disconnect() ends `this.ws`.
OpenThenDisconnect(c) ==
  IF c.ws = "none" THEN [c EXCEPT !.ws = "connecting"] ELSE Disconnect(c)

\* disconnect() the socket there is, if any, and make a new one.
Open(c) ==
  [(IF c.ws = "none" THEN c ELSE Disconnect(c)) EXCEPT !.ws = "connecting",
                                                        !.served = {}]

\* send and count: a query subscribed again is counted again.
Subscribe(c, Q) ==
  [c EXCEPT !.served = @ \cup Q,
            !.subscribedQueries = [q \in Query |-> IF q \in Q THEN @[q] + 1 ELSE @[q]]]

\* One retry too many.
MayRetryOnceMore(c) == c.connectionRetries <= maxRetries + 1 \/ maxRetries = Unlimited

MayRetry(c) == c.connectionRetries <= maxRetries \/ maxRetries = Unlimited

Reconnect(c) ==
  IF MayRetry(c)
  THEN [c EXCEPT !.connectionRetries = IF maxRetries = Unlimited THEN @ ELSE @ + 1,
                 !.timers = @ + 1]
  ELSE [Disconnect(c) EXCEPT !.gaveUp = TRUE]

\* The subscriptions are taken to survive the socket.
OpenOnly(c) == [c EXCEPT !.ws = "open", !.isConnected = TRUE]

\* onOpenListener: what was subscribed before is subscribed again.
OnOpen(c) == Subscribe([c EXCEPT !.ws = "open", !.isConnected = TRUE], Subscribed(c))

\* A refused socket emits `error` and then `close`; both listeners reconnect,
\* unless the first has removed the second.
OnRefused(c) ==
  LET afterError == Reconnect([c EXCEPT !.ws = "dropped"])
  IN  IF afterError.ws = "terminated" THEN afterError ELSE Reconnect(afterError)

---------------------------------------------------------------------------
Init ==
  /\ program = "starting"
  /\ maxRetries \in Limits
  /\ client = NewClient
  /\ failures = 0

Fails == failures < MaxFailures /\ failures' = failures + 1

\* main() awaits connect().
Connect ==
  /\ program = "starting"
  /\ program' = "connecting"
  /\ client' = Open(client)
  /\ UNCHANGED <<maxRetries, failures>>

\* The first `connect` resolves connect(), and main() starts the listener
\* before anything else happens.
FirstOpen ==
  /\ program = "connecting" /\ client.ws = "connecting"
  /\ program' = "running"
  /\ client' = Subscribe(OnOpen(client), Query)
  /\ UNCHANGED <<maxRetries, failures>>

OpenAgain ==
  /\ program = "running" /\ client.ws = "connecting"
  /\ client' = OnOpen(client)
  /\ UNCHANGED <<program, maxRetries, failures>>

\* ECONNREFUSED or EAI_AGAIN.  Giving up rejects connect(), which ends main()
\* if it still waits for it.
Refused ==
  /\ program \in {"connecting", "running"} /\ client.ws = "connecting"
  /\ client' = OnRefused(client)
  /\ program' = IF client'.gaveUp /\ program = "connecting" THEN "exited" ELSE program
  /\ Fails
  /\ UNCHANGED maxRetries

\* Any other error ends the process.
FatalError ==
  /\ program \in {"connecting", "running"} /\ client.ws \in {"connecting", "open"}
  /\ client' = Disconnect(client)
  /\ program' = "exited"
  /\ UNCHANGED <<maxRetries, failures>>

\* An open socket closes with any code but 1000, or with one that the listener
\* does not see: it reads `code` of its first argument, which for ws is the code.
Dropped ==
  /\ program = "running" /\ client.ws = "open"
  /\ client' = Reconnect([client EXCEPT !.ws = "dropped"])
  /\ Fails
  /\ UNCHANGED <<program, maxRetries>>

\* The listener sees code 1000.
ClosedNormally ==
  /\ program = "running" /\ client.ws = "open"
  /\ client' = Disconnect(client)
  /\ UNCHANGED <<program, maxRetries, failures>>

\* The timers of one failure are set in one turn of the event loop for one
\* interval, so they fire in one turn, too: the last open() makes the socket.
TimersFire ==
  /\ program \in {"connecting", "running"} /\ client.timers > 0
  /\ client' = [Open(client) EXCEPT !.timers = 0]
  /\ UNCHANGED <<program, maxRetries, failures>>

Next ==
  \/ Connect \/ FirstOpen \/ OpenAgain \/ TimersFire
  \/ Refused \/ FatalError \/ Dropped \/ ClosedNormally

Spec == Init /\ [][Next]_vars

\* A started program connects, a connection attempt has an outcome, timers fire.
Fairness ==
  /\ WF_vars(Connect)
  /\ WF_vars(FirstOpen \/ OpenAgain \/ Refused \/ FatalError)
  /\ WF_vars(TimersFire)

FairSpec == Spec /\ Fairness

---------------------------------------------------------------------------
TypeOK ==
  /\ program \in {"starting", "connecting", "running", "exited"}
  /\ maxRetries \in Limits
  /\ client \in Client
  /\ failures \in 0..MaxFailures

\* However often the connection was lost, an open one carries both
\* subscriptions: the waits never listen to a silent socket.
SubscribedWhenOpen ==
  program = "running" /\ client.ws = "open" => client.served = Query

\* With a limit, the client survives at most maxRetries + 1 failures over its
\* whole life: a success does not reset the counter, and a refused connection
\* spends two retries.
FailuresLimited ==
  maxRetries # Unlimited /\ failures > maxRetries + 1 => client.gaveUp

\* Losing the connection ends in one that is subscribed, unless the process
\* ends, the client is closed, or it gives up.
Resubscribed ==
  client.ws = "dropped" ~>
    \/ client.ws = "open" /\ client.served = Query
    \/ program = "exited" \/ client.gaveUp

=============================================================================
