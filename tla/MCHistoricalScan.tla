--------------------------- MODULE MCHistoricalScan ---------------------------
(***************************************************************************)
(* Two branches that leave each other after block a1.  pay has a watched    *)
(* output, its second; spend spends it and shows nothing else the client    *)
(* named; plain, in the common block, shows the watched key in an input.    *)
(***************************************************************************)
EXTENDS HistoricalScan

CONSTANTS a1, a2, a3, b2, b3, b4, pay, spend, plain, key, other, coin

MCTxsOf ==
  [b \in Block |-> CASE b = a1 -> {plain}
                     [] b = a2 -> {pay}
                     [] b = a3 -> {spend}
                     [] b = b3 -> {pay, spend}
                     [] OTHER  -> {}]

MCHeightOf ==
  [b \in Block |-> CASE b = a1 -> 1
                     [] b \in {a2, b2} -> 2
                     [] b \in {a3, b3} -> 3
                     [] b = b4 -> 4]

MCChains == {<<a1, a2>>, <<a1, a2, a3>>, <<a1, b2, b3>>, <<a1, b2, b3, b4>>}

MCInputs ==
  [tx \in Tx |-> CASE tx = spend -> <<[prevout |-> <<pay, 2>>, script |-> {other}]>>
                   [] tx = plain -> <<[prevout |-> <<coin, 1>>, script |-> {key}]>>
                   [] OTHER      -> << >>]

MCOutputs ==
  [tx \in Tx |-> IF tx = pay THEN <<[script |-> {other}, pubkey |-> FALSE],
                                    [script |-> {key}, pubkey |-> TRUE]>>
                 ELSE <<[script |-> {other}, pubkey |-> FALSE]>>]

MCRequests == {[hash |-> a1, height |-> 0, count |-> 0],
               [hash |-> NoHash, height |-> 1, count |-> 3],
               [hash |-> a2, height |-> 0, count |-> 5],
               [hash |-> NoHash, height |-> 0, count |-> 0]}

================================================================================
