---------------------------- MODULE MCApiRequests ----------------------------
(***************************************************************************)
(* A chain of one block with two rival second blocks, a child transaction    *)
(* and its parent, which one branch has spent up, one transaction that dashd *)
(* does not decode and one that its policy rejects.  State transitions are   *)
(* named by Drive's verdict: the ends of every range of codes, and a         *)
(* consensus error unknown to DAPI.                                          *)
(***************************************************************************)
EXTENDS ApiRequests

CONSTANTS b1, b2, r2, parent, child, garbled, rejected, o1, unknown

MCBlock   == {b1, b2, r2}
MCTx      == {parent, child, garbled, rejected}
MCTxsOf   == [b \in MCBlock |-> CASE b = b1 -> {} [] b = b2 -> {parent} [] b = r2 -> {parent, child}]
MCHeight  == [b \in MCBlock |-> IF b = b1 THEN 1 ELSE 2]
MCChains  == {<<b1>>, <<b1, b2>>, <<b1, r2>>}
MCParents == [tx \in MCTx |-> IF tx = child THEN {parent} ELSE {}]
MCUnspent == MCTx \ {parent}
MCRefusal == [tx \in MCTx |-> CASE tx = garbled -> -22 [] tx = rejected -> -26 [] OTHER -> 0]

Codes == {0, 1, 3, 5, 13, 16, 17, 999, 1000, 1999, 2000, 2999, 3000, 3999, 4000, 4999, 5000}

MCCheckTx == [st \in Codes |-> st]

Ask(methods, args, heights) == [method : methods, arg : args, height : heights]

ConsensusRequests == Ask({"getConsensusParams"}, {None}, 0..2)

MCRequests ==
  UNION {Ask({"getBlock"}, {None}, 0..4), Ask({"getBlock"}, {b2, unknown}, {0}),
         Ask({"getTransaction"}, {parent, None}, {0}),
         Ask({"getBlock", "getTransaction", "getDocuments"}, {BadArg}, {0}),
         Ask({"broadcastTransaction"}, MCTx \cup {None, BadArg}, {0}),
         Ask({"getStatus"}, {None}, {0}),
         Ask({"getBestBlockHash", "getVersion"}, {None}, {0}), Ask({"getBlockHash"}, {None}, {2, 3}),
         Ask({"getBlockHash", "getMnListDiff"}, {BadArg}, {0}),
         Ask({"getMnListDiff"}, {b2}, {0}), Ask({"generateToAddress"}, {None}, {0}),
         Ask(DriveQueries, {o1, None}, {0}),
         Ask({"broadcastStateTransition"}, Codes \cup {None, BadArg}, {0}),
         ConsensusRequests, Ask({"getConsensusParams"}, {BadArg}, {0})}

==============================================================================
