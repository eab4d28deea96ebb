---------------------------- MODULE UnaryRequest ----------------------------
(***************************************************************************)
(* The life of one request to scripts/api.js, gRPC or JSON-RPC.  Its handler *)
(* answers at once or awaits RPCs to a node; a reply leads to the next RPC   *)
(* or to the answer.  A client may send its request again, whatever it was   *)
(* told.                                                                     *)
(***************************************************************************)
EXTENDS RpcReply

CONSTANTS None,        \* an argument that is not set; the value of an error
          BadArg,      \* an argument that is no good, for each handler in its way
          MaxAttempts  \* bound: times the request is sent

ASSUME MaxAttemptsAssumption == MaxAttempts \in Nat

VARIABLES
  request,   \* [method, arg, height]
  attempts,  \* how often it was sent
  awaiting,  \* RPCs whose replies the handler awaits
  readings,  \* what earlier replies brought
  answer,    \* what the client is told
  failed     \* history: did an RPC of this attempt fail?

call == <<request, attempts, awaiting, readings, answer, failed>>

Ok(value)     == [status |-> "OK", value |-> value]
Error(status) == [status |-> status, value |-> None]

NoAnswer == Error("none")

CallInit ==
  /\ attempts = 0 /\ awaiting = {} /\ readings = None
  /\ answer = NoAnswer /\ failed = FALSE

Receive(methods) ==
  /\ request.method \in methods
  /\ awaiting = {} /\ attempts < MaxAttempts
  /\ attempts' = attempts + 1 /\ failed' = FALSE
  /\ UNCHANGED request

Hear(reply) ==
  /\ failed' = (failed \/ reply = Unanswered)
  /\ UNCHANGED <<request, attempts>>

Await(rpcs, read) ==
  /\ awaiting' = rpcs /\ readings' = read
  /\ answer' = NoAnswer

Respond(a) ==
  /\ awaiting' = {} /\ readings' = None
  /\ answer' = a

=============================================================================
