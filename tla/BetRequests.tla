---------------------------- MODULE BetRequests ----------------------------
(***************************************************************************)
(* The bet requests of one player, as the client sends them (types.BetReq) *)
(* and the load balancer spreads them over the RGS processes.  A client    *)
(* that retries a round sends another request with the same roundId.       *)
(***************************************************************************)
EXTENDS Naturals

CONSTANTS
    Handlers,   \* the requests, each one goroutine of some process
    Pods,       \* RGS processes
    PodOf,      \* the process that serves a request
    Rounds,     \* round identifiers of the merchant
    RoundOf,    \* roundId of a request
    Tokens,     \* idempotency tokens
    TokenOf,    \* idempotencyToken of a request, the roundId if it has none
    SeqOf       \* sequenceId of a request

ASSUME BetRequestsAssumption ==
    /\ PodOf \in [Handlers -> Pods]
    /\ RoundOf \in [Handlers -> Rounds]
    /\ TokenOf \in [Handlers -> Tokens]
    /\ SeqOf \in [Handlers -> Nat \ {0}]

=============================================================================
