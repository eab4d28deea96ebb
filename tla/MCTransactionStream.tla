------------------------- MODULE MCTransactionStream -------------------------
(***************************************************************************)
(* A client that asks for new transactions from a block hash, one that      *)
(* names the block by height and wants one block of history, and one whose  *)
(* request names no block.                                                  *)
(***************************************************************************)
EXTENDS TransactionStream, TLC

Symmetry == Permutations(Tx)

NewRequests == {[count |-> 0, from |-> "hash"]}

AllRequests == NewRequests \cup {[count |-> 1, from |-> "height"],
                                 [count |-> 0, from |-> "none"]}

==============================================================================
