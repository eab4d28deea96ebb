----------------------- MODULE InstantLockWaitingList -----------------------
(***************************************************************************)
(* What the cache promises about instant locks: a matched transaction waits *)
(* for its lock until the lock is sent or until more than BlocksToStay      *)
(* blocks have gone by since it started to wait.  age[tx] is the number of  *)
(* blocks tx has waited through.                                            *)
(***************************************************************************)
EXTENDS Naturals, Functions

CONSTANTS Tx, BlocksToStay

VARIABLE age

Init == age = << >>

StartWaiting(tx) ==
  /\ tx \notin DOMAIN age
  /\ age' = [t \in DOMAIN age \cup {tx} |-> IF t = tx THEN 0 ELSE age[t]]

StopWaiting(tx) ==
  /\ tx \in DOMAIN age
  /\ age' = Restrict(age, DOMAIN age \ {tx})

BlockGoesBy ==
  age' = [t \in {u \in DOMAIN age : age[u] < BlocksToStay} |-> age[t] + 1]

Next ==
  \/ \E tx \in Tx : StartWaiting(tx) \/ StopWaiting(tx)
  \/ BlockGoesBy

Spec == Init /\ [][Next]_age

=============================================================================
