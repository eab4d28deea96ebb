------------------------------ MODULE RpcReply ------------------------------
(***************************************************************************)
(* What the promise of an RPC settles with.  DashCoreRpcError keeps the code *)
(* of dashd's error; an error without a code, or no reply at all (dashd      *)
(* cannot be reached, the connection breaks), is the code NoCode.            *)
(***************************************************************************)
EXTENDS Integers

NoCode == 0

Resolve(value) == [ok |-> TRUE, value |-> value]
Reject(code)   == [ok |-> FALSE, code |-> code]

Unanswered == Reject(NoCode)

=============================================================================
