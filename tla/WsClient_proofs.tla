--------------------------- MODULE WsClient_proofs ---------------------------
(***************************************************************************)
(* The safety properties of WsClient for any set of queries, any retry      *)
(* limits and any number of failures.                                       *)
(***************************************************************************)
EXTENDS WsClient, TLAPS

\* The client remembers what a running program subscribed, and nothing before.
Remembers ==
  /\ program = "running" => Subscribed(client) = Query
  /\ program = "connecting" => client.ws # "open"

\* Every failure has spent a retry, and none is spent beyond the limit.
RetriesSpent ==
  maxRetries # Unlimited /\ ~ client.gaveUp =>
    failures <= client.connectionRetries /\ client.connectionRetries <= maxRetries + 1

IInv == TypeOK /\ Remembers /\ SubscribedWhenOpen /\ RetriesSpent

---------------------------------------------------------------------------
\* What disconnect() leaves.
LEMMA DisconnectFacts ==
  ASSUME NEW c \in Client
  PROVE  /\ Disconnect(c) \in Client
         /\ Disconnect(c).ws = "terminated"
         /\ Disconnect(c).gaveUp = c.gaveUp
         /\ Disconnect(c).connectionRetries = c.connectionRetries
         /\ Disconnect(c).subscribedQueries = c.subscribedQueries
  BY DEF Disconnect, Client, Socket

\* What open() makes.
LEMMA OpenFacts ==
  ASSUME NEW c \in Client
  PROVE  /\ Open(c) \in Client
         /\ Open(c).ws = "connecting"
         /\ Open(c).gaveUp = c.gaveUp
         /\ Open(c).connectionRetries = c.connectionRetries
         /\ Open(c).subscribedQueries = c.subscribedQueries
  <1> DEFINE d == IF c.ws = "none" THEN c ELSE Disconnect(c)
  <1>1. /\ d \in Client /\ d.gaveUp = c.gaveUp
        /\ d.connectionRetries = c.connectionRetries
        /\ d.subscribedQueries = c.subscribedQueries
    BY DisconnectFacts
  <1>2. Open(c) = [d EXCEPT !.ws = "connecting", !.served = {}]
    BY DEF Open
  <1> HIDE DEF d
  <1> QED
    BY <1>1, <1>2 DEF Client, Socket

\* subscribe() forgets no query.
LEMMA SubscribeFacts ==
  ASSUME NEW c \in Client, NEW Q \in SUBSET Query
  PROVE  /\ Subscribe(c, Q) \in Client
         /\ Subscribe(c, Q).ws = c.ws
         /\ Subscribe(c, Q).gaveUp = c.gaveUp
         /\ Subscribe(c, Q).connectionRetries = c.connectionRetries
         /\ Subscribe(c, Q).served = c.served \cup Q
         /\ Subscribed(Subscribe(c, Q)) = Subscribed(c) \cup Q
  <1> DEFINE old == c.subscribedQueries
             new == [q \in Query |-> IF q \in Q THEN old[q] + 1 ELSE old[q]]
  <1>1. old \in [Query -> Nat] /\ c.served \cup Q \in SUBSET Query
    BY DEF Client
  <1> HIDE DEF old
  <1>2. new \in [Query -> Nat]
    BY <1>1
  <1>3. \A q \in Query : new[q] > 0 <=> old[q] > 0 \/ q \in Q
    BY <1>1
  <1> HIDE DEF new
  <1>4. Subscribe(c, Q) = [c EXCEPT !.served = c.served \cup Q, !.subscribedQueries = new]
    BY DEF Subscribe, new, old
  <1>5. /\ Subscribe(c, Q) \in Client
        /\ Subscribe(c, Q).ws = c.ws
        /\ Subscribe(c, Q).gaveUp = c.gaveUp
        /\ Subscribe(c, Q).connectionRetries = c.connectionRetries
        /\ Subscribe(c, Q).served = c.served \cup Q
        /\ Subscribe(c, Q).subscribedQueries = new
    BY <1>1, <1>2, <1>4 DEF Client
  <1> QED
    BY <1>3, <1>5 DEF Subscribed, old

\* onOpenListener puts on the new socket what was subscribed.
LEMMA OnOpenFacts ==
  ASSUME NEW c \in Client
  PROVE  /\ OnOpen(c) \in Client
         /\ OnOpen(c).ws = "open"
         /\ OnOpen(c).gaveUp = c.gaveUp
         /\ OnOpen(c).connectionRetries = c.connectionRetries
         /\ Subscribed(c) \subseteq OnOpen(c).served
         /\ Subscribed(OnOpen(c)) = Subscribed(c)
  <1> DEFINE d == [c EXCEPT !.ws = "open", !.isConnected = TRUE]
  <1>1. /\ d \in Client /\ d.ws = "open" /\ d.gaveUp = c.gaveUp
        /\ d.connectionRetries = c.connectionRetries
        /\ d.subscribedQueries = c.subscribedQueries
    BY DEF Client, Socket
  <1>2. Subscribed(c) \in SUBSET Query /\ Subscribed(d) = Subscribed(c)
    BY <1>1 DEF Subscribed
  <1>3. OnOpen(c) = Subscribe(d, Subscribed(c))
    BY DEF OnOpen
  <1> HIDE DEF d
  <1>4. LET n == Subscribe(d, Subscribed(c))
        IN  /\ n \in Client /\ n.ws = d.ws /\ n.gaveUp = d.gaveUp
            /\ n.connectionRetries = d.connectionRetries
            /\ n.served = d.served \cup Subscribed(c)
            /\ Subscribed(n) = Subscribed(d) \cup Subscribed(c)
    BY <1>1, <1>2, SubscribeFacts
  <1> QED
    BY <1>1, <1>2, <1>3, <1>4

\* reconnect() spends a retry or gives up.
LEMMA ReconnectFacts ==
  ASSUME maxRetries \in Limits, NEW c \in Client, c.ws = "dropped"
  PROVE  /\ Reconnect(c) \in Client
         /\ Reconnect(c).ws \in {"dropped", "terminated"}
         /\ Reconnect(c).subscribedQueries = c.subscribedQueries
         /\ maxRetries # Unlimited /\ ~ Reconnect(c).gaveUp =>
              /\ ~ c.gaveUp /\ c.connectionRetries <= maxRetries
              /\ Reconnect(c).connectionRetries = c.connectionRetries + 1
  <1>0. maxRetries = -1 \/ maxRetries \in Nat \ {0}
    BY LimitsAssumption DEF Unlimited
  <1>1. CASE MayRetry(c)
    <2> DEFINE n == IF maxRetries = Unlimited THEN c.connectionRetries
                                              ELSE c.connectionRetries + 1
    <2>1. n \in Nat /\ c.timers + 1 \in Nat
      BY DEF Client
    <2>2. Reconnect(c) = [c EXCEPT !.connectionRetries = n, !.timers = c.timers + 1]
      BY <1>1 DEF Reconnect
    <2> HIDE DEF n
    <2>3. /\ Reconnect(c) \in Client
          /\ Reconnect(c).ws = c.ws /\ Reconnect(c).gaveUp = c.gaveUp
          /\ Reconnect(c).subscribedQueries = c.subscribedQueries
          /\ Reconnect(c).connectionRetries = n
      BY <2>1, <2>2 DEF Client
    <2> QED
      BY <1>1, <2>3 DEF MayRetry, n
  <1>2. CASE ~ MayRetry(c)
    BY <1>2, DisconnectFacts DEF Reconnect, Client, Socket
  <1> QED
    BY <1>1, <1>2

\* A refused connection: one reconnect() or two.
LEMMA OnRefusedFacts ==
  ASSUME maxRetries \in Limits, NEW c \in Client
  PROVE  /\ OnRefused(c) \in Client
         /\ OnRefused(c).ws \in {"dropped", "terminated"}
         /\ OnRefused(c).subscribedQueries = c.subscribedQueries
         /\ maxRetries # Unlimited /\ ~ OnRefused(c).gaveUp =>
              /\ ~ c.gaveUp
              /\ OnRefused(c).connectionRetries \in
                   {c.connectionRetries + 1, c.connectionRetries + 2}
              /\ OnRefused(c).connectionRetries <= maxRetries + 1
  <1> DEFINE d == [c EXCEPT !.ws = "dropped"]
             e == Reconnect(d)
  <1>0. maxRetries = -1 \/ maxRetries \in Nat \ {0}
    BY LimitsAssumption DEF Unlimited
  <1>1. /\ d \in Client /\ d.ws = "dropped" /\ d.gaveUp = c.gaveUp
        /\ d.connectionRetries = c.connectionRetries
        /\ d.subscribedQueries = c.subscribedQueries
        /\ c.connectionRetries \in Nat
    BY DEF Client, Socket
  <1>2. OnRefused(c) = IF e.ws = "terminated" THEN e ELSE Reconnect(e)
    BY DEF OnRefused
  <1> HIDE DEF d
  <1>3. /\ e \in Client /\ e.ws \in {"dropped", "terminated"}
        /\ e.subscribedQueries = c.subscribedQueries
        /\ maxRetries # Unlimited /\ ~ e.gaveUp =>
             /\ ~ c.gaveUp /\ c.connectionRetries <= maxRetries
             /\ e.connectionRetries = c.connectionRetries + 1
    BY <1>1, ReconnectFacts
  <1> HIDE DEF e
  <1>4. CASE e.ws = "terminated"
    BY <1>0, <1>1, <1>2, <1>3, <1>4
  <1>5. CASE e.ws = "dropped"
    <2>1. /\ Reconnect(e) \in Client
          /\ Reconnect(e).ws \in {"dropped", "terminated"}
          /\ Reconnect(e).subscribedQueries = e.subscribedQueries
          /\ maxRetries # Unlimited /\ ~ Reconnect(e).gaveUp =>
               /\ ~ e.gaveUp /\ e.connectionRetries <= maxRetries
               /\ Reconnect(e).connectionRetries = e.connectionRetries + 1
      BY <1>3, <1>5, ReconnectFacts
    <2> QED
      BY <1>0, <1>1, <1>2, <1>3, <1>5, <2>1
  <1> QED
    BY <1>3, <1>4, <1>5

---------------------------------------------------------------------------
\* In every behaviour, for every retry limit.
THEOREM InvariantIInv == Spec => []IInv
  <1> USE DEF IInv, TypeOK, Remembers, SubscribedWhenOpen, RetriesSpent
  <1>1. Init => IInv
    BY LimitsAssumption, MaxFailuresAssumption
       DEF Init, NewClient, Client, Socket, Unlimited
  <1>2. IInv /\ [Next]_vars => IInv'
    <2> SUFFICES ASSUME IInv, [Next]_vars PROVE IInv'
      OBVIOUS
    <2>0. /\ maxRetries = -1 \/ maxRetries \in Nat \ {0}
          /\ client.connectionRetries \in Nat
          /\ Unlimited = -1
          /\ failures \in Nat
      BY LimitsAssumption, MaxFailuresAssumption DEF Unlimited, Client
    <2>1. CASE Connect
      BY <2>0, <2>1, OpenFacts DEF Connect
    <2>2. CASE FirstOpen
      <3> DEFINE d == OnOpen(client)
      <3>1. /\ d \in Client /\ d.ws = "open" /\ d.gaveUp = client.gaveUp
            /\ d.connectionRetries = client.connectionRetries
            /\ d.served \subseteq Query /\ Subscribed(d) \subseteq Query
        BY OnOpenFacts DEF Client, Subscribed
      <3>2. client' = Subscribe(d, Query) /\ program' = "running"
            /\ UNCHANGED <<maxRetries, failures>>
        BY <2>2 DEF FirstOpen
      <3> HIDE DEF d
      <3>3. /\ client' \in Client
            /\ client'.gaveUp = client.gaveUp
            /\ client'.connectionRetries = client.connectionRetries
            /\ client'.served = Query /\ Subscribed(client') = Query
        <4>1. LET n == Subscribe(d, Query)
              IN  /\ n \in Client /\ n.gaveUp = d.gaveUp
                  /\ n.connectionRetries = d.connectionRetries
                  /\ n.served = d.served \cup Query
                  /\ Subscribed(n) = Subscribed(d) \cup Query
          BY <3>1, SubscribeFacts
        <4> QED
          BY <3>1, <3>2, <4>1
      <3> QED
        BY <3>2, <3>3 DEF Subscribed
    <2>3. CASE OpenAgain
      <3>1. client' = OnOpen(client) /\ program = "running"
            /\ UNCHANGED <<program, maxRetries, failures>>
        BY <2>3 DEF OpenAgain
      <3>2. /\ client' \in Client
            /\ client'.gaveUp = client.gaveUp
            /\ client'.connectionRetries = client.connectionRetries
            /\ client'.served = Query /\ Subscribed(client') = Query
        BY <3>1, OnOpenFacts DEF Client
      <3> QED
        BY <3>1, <3>2 DEF Subscribed
    <2>4. CASE TimersFire
      <3> DEFINE d == Open(client)
      <3>1. /\ d \in Client /\ d.ws = "connecting" /\ d.gaveUp = client.gaveUp
            /\ d.connectionRetries = client.connectionRetries
            /\ d.subscribedQueries = client.subscribedQueries
        BY OpenFacts
      <3>2. client' = [d EXCEPT !.timers = 0] /\ UNCHANGED <<program, maxRetries, failures>>
        BY <2>4 DEF TimersFire
      <3> HIDE DEF d
      <3>3. /\ client' \in Client /\ client'.ws = "connecting"
            /\ client'.gaveUp = client.gaveUp
            /\ client'.connectionRetries = client.connectionRetries
            /\ client'.subscribedQueries = client.subscribedQueries
        BY <3>1, <3>2 DEF Client
      <3> QED
        BY <3>2, <3>3 DEF Subscribed
    <2>5. CASE Refused
      <3>1. /\ client' = OnRefused(client)
            /\ program \in {"connecting", "running"}
            /\ program' \in {program, "exited"}
            /\ failures < MaxFailures /\ failures' = failures + 1
            /\ UNCHANGED maxRetries
        BY <2>5 DEF Refused, Fails
      <3>2. /\ client' \in Client /\ client'.ws \in {"dropped", "terminated"}
            /\ client'.subscribedQueries = client.subscribedQueries
            /\ maxRetries # Unlimited /\ ~ client'.gaveUp =>
                 /\ ~ client.gaveUp
                 /\ client'.connectionRetries \in
                      {client.connectionRetries + 1, client.connectionRetries + 2}
                 /\ client'.connectionRetries <= maxRetries + 1
        BY <3>1, OnRefusedFacts
      <3>3. TypeOK'
        BY <3>1, <3>2, MaxFailuresAssumption
      <3> QED
        BY <2>0, <3>1, <3>2, <3>3 DEF Subscribed
    <2>6. CASE FatalError
      BY <2>0, <2>6, DisconnectFacts DEF FatalError
    <2>7. CASE Dropped
      <3> DEFINE d == [client EXCEPT !.ws = "dropped"]
      <3>1. /\ d \in Client /\ d.ws = "dropped" /\ d.gaveUp = client.gaveUp
            /\ d.connectionRetries = client.connectionRetries
            /\ d.subscribedQueries = client.subscribedQueries
        BY DEF Client, Socket
      <3>2. /\ client' = Reconnect(d) /\ program = "running"
            /\ failures < MaxFailures /\ failures' = failures + 1
            /\ UNCHANGED <<program, maxRetries>>
        BY <2>7 DEF Dropped, Fails
      <3> HIDE DEF d
      <3>3. /\ client' \in Client /\ client'.ws \in {"dropped", "terminated"}
            /\ client'.subscribedQueries = client.subscribedQueries
            /\ maxRetries # Unlimited /\ ~ client'.gaveUp =>
                 /\ ~ client.gaveUp /\ client.connectionRetries <= maxRetries
                 /\ client'.connectionRetries = client.connectionRetries + 1
        BY <3>1, <3>2, ReconnectFacts
      <3>4. TypeOK'
        BY <3>2, <3>3, MaxFailuresAssumption
      <3> QED
        BY <2>0, <3>2, <3>3, <3>4 DEF Subscribed
    <2>8. CASE ClosedNormally
      BY <2>0, <2>8, DisconnectFacts DEF ClosedNormally, Subscribed
    <2>9. CASE UNCHANGED vars
      BY <2>9 DEF vars, Subscribed
    <2> QED
      BY <2>1, <2>2, <2>3, <2>4, <2>5, <2>6, <2>7, <2>8, <2>9 DEF Next
  <1> QED
    BY <1>1, <1>2, PTL DEF Spec

\* The client's fields stay well typed through every reconnection.
THEOREM TypeCorrect == Spec => []TypeOK
  <1>1. IInv => TypeOK
    BY DEF IInv
  <1> QED
    BY <1>1, InvariantIInv, PTL

\* An open connection of a running server carries all its subscriptions
\* (onOpenListener, BlockchainListener.start).
THEOREM OpenIsSubscribed == Spec => []SubscribedWhenOpen
  <1>1. IInv => SubscribedWhenOpen
    BY DEF IInv
  <1> QED
    BY <1>1, InvariantIInv, PTL

\* A client with a limit gives up at the latest at failure maxRetries + 2
\* (reconnect).
THEOREM LimitKept == Spec => []FailuresLimited
  <1>1. IInv => FailuresLimited
    BY LimitsAssumption, MaxFailuresAssumption
       DEF IInv, TypeOK, RetriesSpent, FailuresLimited, Client, Unlimited
  <1> QED
    BY <1>1, InvariantIInv, PTL

=============================================================================
