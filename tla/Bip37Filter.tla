------------------------------ MODULE Bip37Filter ------------------------------
(***************************************************************************)
(* testTransactionAgainstFilter.js: the BIP37 test of a transaction, which   *)
(* also updates the filter.  A filter is the set of the items it contains:   *)
(* whatever the client put in and its false positives (script data and       *)
(* transaction hashes), and the outpoints <<tx, index>> the test inserts.    *)
(*                                                                           *)
(* A script is the set of its data chunks; `pubkey` tells whether an output  *)
(* script is a P2PK or multisig one.                                         *)
(***************************************************************************)
EXTENDS Integers, Sequences, FiniteSetsExt

CONSTANTS Inputs,   \* per transaction: a sequence of [prevout, script]
          Outputs   \* per transaction: a sequence of [script, pubkey]

UpdateFlag == {"none", "all", "p2pubkeyOnly"}

Insert(filter, item) == [filter EXCEPT !.items = @ \cup {item}]

FilterContainsScript(filter, script) == script \cap filter.items # {}

CheckHash(filter, tx) == tx \in filter.items

MatchingOutputs(filter, tx) ==
  {i \in DOMAIN Outputs[tx] : FilterContainsScript(filter, Outputs[tx][i].script)}

FirstMatchingOutput(filter, tx) == Min(MatchingOutputs(filter, tx))

CheckInputs(filter, tx) ==
  \E i \in DOMAIN Inputs[tx] :
    \/ Inputs[tx][i].prevout \in filter.items
    \/ FilterContainsScript(filter, Inputs[tx][i].script)

TestTransaction(filter, tx) ==
  \/ CheckHash(filter, tx)
  \/ MatchingOutputs(filter, tx) # {}
  \/ CheckInputs(filter, tx)

IsFilterUpdateNeeded(filter, output) ==
  \/ filter.flag = "all"
  \/ filter.flag = "p2pubkeyOnly" /\ output.pubkey

\* (A definition set before another and not used here is a bug that
\* PROJECT.json puts in its place.)  The index of the next output is inserted.
FilterAfterOffByOne(filter, tx) ==
  IF ~ CheckHash(filter, tx) /\ MatchingOutputs(filter, tx) # {}
  THEN LET first == FirstMatchingOutput(filter, tx)
       IN  IF IsFilterUpdateNeeded(filter, Outputs[tx][first])
           THEN Insert(filter, <<tx, first + 1>>)
           ELSE filter
  ELSE filter

(***************************************************************************)
(* The outputs are looked at only if the hash is not contained, and only up  *)
(* to the first that matches, which is the one inserted.                     *)
(***************************************************************************)
FilterAfter(filter, tx) ==
  IF ~ CheckHash(filter, tx) /\ MatchingOutputs(filter, tx) # {}
  THEN LET first == FirstMatchingOutput(filter, tx)
       IN  IF IsFilterUpdateNeeded(filter, Outputs[tx][first])
           THEN Insert(filter, <<tx, first>>)
           ELSE filter
  ELSE filter

================================================================================
