----------------------------- MODULE MCWsClient -----------------------------
(***************************************************************************)
(* No limit, as in api.js, and the limits that are reached within the bound *)
(* on failures, odd and even: a refused connection spends two retries.      *)
(***************************************************************************)
EXTENDS WsClient

CONSTANTS tx, newBlock

AllLimits == {Unlimited, 1, 2, 3}

=============================================================================
