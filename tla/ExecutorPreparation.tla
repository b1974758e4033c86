------------------------- MODULE ExecutorPreparation -------------------------
(***************************************************************************)
(* From candidate paths to calldata for the Executor contract: the paths   *)
(* of one quote are quoted (QuoteSearch has the concurrency of that), the  *)
(* caller splits its amount over routes it was shown, and                  *)
(* fixedExecutorPreparation admits the split, quotes its parts again at    *)
(* the quote's block, and builds the call with the checks a simulation of  *)
(* it must pass.                                                           *)
(*                                                                         *)
(* An address is a member of Tokens, the sender, the executor or a router; *)
(* the pools of a path are fixed by its deployment, tokens and fees.       *)
(***************************************************************************)
EXTENDS RouteCandidates, ExecutorRoutes

CONSTANTS
    Amounts,         \* what a caller may ask to allocate, too little and too much included
    MaxRoutes        \* bound on the routes one quote finds

(* The sender is a key's account and the executor a contract.              *)
ASSUME PreparationAssumption ==
    /\ None \notin Tokens \cup DOMAIN Configured
    /\ Amounts \subseteq Nat
    /\ Executor.address # Sender

VARIABLES
    phase,           \* where the request is
    routes,          \* saved.final.Routes
    requested,       \* the allocations of the request
    outputs,         \* what their parts were quoted at, so far
    response         \* the call as the contract reads it and its checks, or None

splitVars == <<at, taken, phase, routes, requested, outputs, response>>

RouteOf(candidate, out) ==
    [provider |-> Configured[candidate.id].kind, deployment |-> candidate.id, out |-> out,
     legs |-> LegsAlong(candidate.tokens, SelectorCase(Configured[candidate.id].kind),
                        candidate.fees)]

(* The parts of the request over copies of the saved routes.               *)
Parts(quoted) ==
    [i \in DOMAIN requested |->
        [amountIn |-> requested[i].amount, route |-> RouteOf(requested[i].candidate, quoted[i])]]

Unquoted == [i \in DOMAIN requested |-> 0]
Allocations == Parts(outputs)

(* saved.final.Routes is searched for the route id of each part.           *)
Known == \A i \in DOMAIN requested : requested[i].candidate \in routes

InvalidAggregate(bps) ==
    Aggregate(Allocations) > MaxUint \/ Minimum(Aggregate(Allocations), bps) = 0

FrozenSplit(bps) ==
    [tokenIn |-> TokenIn, tokenOut |-> TokenOut, amountIn |-> AmountIn, recipient |-> Sender,
     minimum |-> Minimum(Aggregate(Allocations), bps), deadline |-> Deadline,
     allocations |-> Allocations]

-----------------------------------------------------------------------------
(* The request.                                                            *)

Requests == BoundedSeq([candidate : routes \cup {None}, amount : Amounts], 2)

(* A candidate is quoted: some pool may be missing, or the call fails.     *)
QuoteNext ==
    /\ phase = "search"
    /\ Take
    /\ \/ UNCHANGED routes
       \/ /\ Cardinality(routes) < MaxRoutes
          /\ routes' = routes \cup {taken'[Len(taken')]}
    /\ UNCHANGED <<phase, requested, outputs, response>>

(* The search is over, complete or not, and a split is asked for.          *)
AskForSplit ==
    /\ phase = "search"
    /\ \E r \in Requests : requested' = r
    /\ phase' = "admit"
    /\ UNCHANGED <<at, taken, routes, outputs, response>>

Reject == phase' = "rejected"

Admit ==
    /\ phase = "admit"
    /\ IF Known /\ Admitted(Parts(Unquoted)) THEN phase' = "requote" ELSE Reject
    /\ UNCHANGED <<at, taken, routes, requested, outputs, response>>

(* One part after the other; any failure, another pool or nothing in       *)
(* return rejects the request.                                             *)
Requote ==
    /\ phase = "requote" /\ Len(outputs) < Len(requested)
    /\ \/ \E o \in Outputs \ {0} : outputs' = Append(outputs, o) /\ UNCHANGED phase
       \/ Reject /\ UNCHANGED outputs
    /\ UNCHANGED <<at, taken, routes, requested, response>>

(* The terms are frozen and the call is built.                             *)
Build ==
    /\ phase = "requote" /\ Len(outputs) = Len(requested)
    /\ \E bps \in SlippageBps :
          IF InvalidAggregate(bps)
          THEN Reject /\ UNCHANGED response
          ELSE /\ response' = [plan |-> PlanOfCall(ExecutorData(FrozenSplit(bps))),
                                 checks |-> ExecutorChecks(FrozenSplit(bps))]
               /\ phase' = "built"
    /\ UNCHANGED <<at, taken, routes, requested, outputs>>

SplitInit ==
    /\ Begin
    /\ phase = "search" /\ routes = {}
    /\ requested = <<>> /\ outputs = <<>> /\ response = None

SplitNext == QuoteNext \/ AskForSplit \/ Admit \/ Requote \/ Build

SplitSpec == SplitInit /\ [][SplitNext]_splitVars

-----------------------------------------------------------------------------

(* What the engine builds is never refused by the contract's own           *)
(* validation: the Go checks imply the Solidity ones (executor.go:169,     *)
(* Executor.sol:101).                                                      *)
PlanAccepted == phase = "built" => Accepted(response.plan)

(* The simulation watches what the contract promises: the executor's       *)
(* balance of every token it restores, every approval it gives, and of the *)
(* sender's balances all but the two that the swap changes.                *)
ChecksMatchPlan ==
    phase = "built" =>
        LET plan == response.plan
            watched(o) == {p.token : p \in {q \in response.checks.preserve : q.owner = o}}
        IN  /\ watched(Executor.address) = ToSet(Touched(plan))
            /\ watched(Sender) = ToSet(Touched(plan)) \ {plan.tokenIn, plan.tokenOut}
            /\ response.checks.clear =
                  UNION {{[token |-> (<<plan.tokenIn>> \o plan.allocations[i].hops)[j],
                           owner |-> Executor.address,
                           spender |-> Router(plan.allocations[i].venue)] :
                              j \in DOMAIN plan.allocations[i].hops} :
                         i \in DOMAIN plan.allocations}

===============================================================================
