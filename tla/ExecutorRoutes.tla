---------------------------- MODULE ExecutorRoutes ----------------------------
(***************************************************************************)
(* fixedExecutorPreparation: which split of the amount it admits, and the  *)
(* call and the checks it builds for one.                                  *)
(***************************************************************************)
EXTENDS RouteTerms

CONSTANTS
    Outputs,         \* what a route, or a part of the amount, may be quoted at
    SlippageBps      \* tolerances asked for

ASSUME QuotesAssumption ==
    /\ Outputs \subseteq Uint
    /\ SlippageBps \subseteq Nat /\ \A bps \in SlippageBps : bps < 10000

(* executorVenue: membership of the very deployment, not only of its kind. *)
Venue(route) ==
    IF route.deployment = Executor.uniswap /\ route.provider = "uniswap-v3" THEN 0
    ELSE IF route.deployment = Executor.pancake /\ route.provider = "pancake-v3" THEN 1
    ELSE None

(* The router the contract takes for a venue: immutable, and verified to   *)
(* be the target of the deployment (verifyExecutor).                       *)
Router(venue) ==
    Configured[IF venue = 0 THEN Executor.uniswap ELSE Executor.pancake].target

Total(allocations) == SumOf([i \in DOMAIN allocations |-> allocations[i].amountIn])

(* Mutant: a venue may be asked for twice.                                 *)
AdmittedTwice(allocations) ==
    /\ Len(allocations) \in {1, 2}
    /\ \A i \in DOMAIN allocations :
          /\ allocations[i].amountIn \in 1..MaxUint
          /\ Venue(allocations[i].route) # None
    /\ Total(allocations) = AmountIn

(* Each part names a route of one of the two deployments, of one or two    *)
(* chained legs from the input to the output token; no deployment is used  *)
(* twice and the parts add up to what was quoted.                          *)
Admitted(allocations) ==
    /\ Len(allocations) \in {1, 2}
    /\ \A i \in DOMAIN allocations :
          LET route == allocations[i].route IN
          /\ allocations[i].amountIn \in 1..MaxUint
          /\ Len(route.legs) \in {1, 2}
          /\ Venue(route) # None
          /\ \A j \in DOMAIN route.legs : route.legs[j].case = "feePips"
          /\ StartOf(route.legs) = TokenIn /\ Chained(route.legs) /\ EndOf(route.legs) = TokenOut
    /\ \A i, j \in DOMAIN allocations :
          Venue(allocations[i].route) = Venue(allocations[j].route) => i = j
    /\ Total(allocations) = AmountIn

-----------------------------------------------------------------------------

(* What the parts were quoted at, together.                                *)
Aggregate(allocations) == SumOf([i \in DOMAIN allocations |-> allocations[i].route.out])

(* buildPreparation.                                                       *)
Minimum(output, bps) == (output * (10000 - bps)) \div 10000
Deadline == Timestamp + 120

(* executorData.                                                           *)
ExecutorData(p) ==
    ExecutorExecute(p.tokenIn, p.tokenOut, p.amountIn, p.minimum, p.deadline,
        [i \in DOMAIN p.allocations |->
            [venue |-> Venue(p.allocations[i].route), amountIn |-> p.allocations[i].amountIn,
             hops |-> [j \in DOMAIN p.allocations[i].route.legs |->
                [tokenOut |-> p.allocations[i].route.legs[j].tokenOut,
                 fee |-> p.allocations[i].route.legs[j].value]]]])

ExecutorTransaction(p) == Transaction(p.recipient, Executor.address, ExecutorData(p))

-----------------------------------------------------------------------------
(* executorChecks.                                                         *)

Probe(token, owner) == [token |-> token, owner |-> owner]

(* Every leg of the plan with the router it goes through.                  *)
Passes(allocations) ==
    UNION {{[leg |-> allocations[i].route.legs[j],
             router |-> Configured[allocations[i].route.deployment].target] :
               j \in DOMAIN allocations[i].route.legs} : i \in DOMAIN allocations}

(* Mutant: only the input of the sender is left out.                       *)
ExecutorPreserveOutput(allocations, sender) ==
    (UNION {{Probe(t, o) : t \in {x.leg.tokenIn, x.leg.tokenOut},
                           o \in {sender, Executor.address, x.router}} :
               x \in Passes(allocations)})
    \ {Probe(TokenIn, sender)}

(* Every token of every leg for the sender, the executor and the leg's     *)
(* router, but for the two balances that are meant to change.              *)
ExecutorPreserve(allocations, sender) ==
    (UNION {{Probe(t, o) : t \in {x.leg.tokenIn, x.leg.tokenOut},
                           o \in {sender, Executor.address, x.router}} :
               x \in Passes(allocations)})
    \ {Probe(TokenIn, sender), Probe(TokenOut, sender)}

ClearAllowances(allocations) ==
    {[token |-> x.leg.tokenIn, owner |-> Executor.address, spender |-> x.router] :
        x \in Passes(allocations)}

ExecutorChecks(p) ==
    [input |-> Probe(TokenIn, p.recipient), output |-> Probe(TokenOut, p.recipient),
     preserve |-> ExecutorPreserve(p.allocations, p.recipient),
     clear |-> ClearAllowances(p.allocations)]

===============================================================================
