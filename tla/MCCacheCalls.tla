---------------------------- MODULE MCCacheCalls ----------------------------
(***************************************************************************)
(* Three one-transaction blocks with a cache of two, so that the third      *)
(* matching block evicts.                                                   *)
(***************************************************************************)
EXTENDS CacheCalls, TLC

CONSTANTS t1, t2, t3

MCBlock == {[hash |-> 1, txs |-> {t1}], [hash |-> 2, txs |-> {t2}],
            [hash |-> 3, txs |-> {t3}]}

=============================================================================
