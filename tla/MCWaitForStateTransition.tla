---------------------- MODULE MCWaitForStateTransition ----------------------
(***************************************************************************)
(* Two calls that wait for one transaction, and two for one each.           *)
(***************************************************************************)
EXTENDS WaitForStateTransition

CONSTANTS c1, c2, t1, t2

SameTx == [c \in {c1, c2} |-> t1]

OwnTx == [c \in {c1, c2} |-> IF c = c1 THEN t1 ELSE t2]

=============================================================================
