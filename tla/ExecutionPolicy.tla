--------------------------- MODULE ExecutionPolicy ---------------------------
(***************************************************************************)
(* The terminal's side of a prepared execution: it encodes the transaction *)
(* it expects from the displayed route and its own configuration, refuses  *)
(* an answer that differs, and says what the receipt will have to show.    *)
(*                                                                         *)
(* The instant checks of assertPreparationCurrent are in Trade; here an    *)
(* answer is reviewed while it is current.                                 *)
(***************************************************************************)
EXTENDS RouteTerms

CONSTANT MaxUint48   \* 2^48 - 1, Permit2's type for an expiration

(* No block is so far in the future that a permission would not fit.       *)
ASSUME ExpirationAssumption ==
    /\ MaxUint48 \in Nat
    /\ Timestamp + 120 + 1800 <= MaxUint48

Signer == Sender

-----------------------------------------------------------------------------
(* The implementations under protocols/.                                   *)

(* A leg a deployment's list allows between two configured tokens.         *)
AllowedLeg(leg, id, case) ==
    /\ leg.case = case
    /\ leg.value \in ToSet(Configured[id].selectors)
    /\ {leg.tokenIn, leg.tokenOut} \subseteq Tokens

(* Mutant: the selector need not be configured.                            *)
AdmittedPathAnySelector(route, p, id) ==
    /\ Len(route.legs) \in {1, 2}
    /\ StartOf(route.legs) = p.tokenIn /\ EndOf(route.legs) = p.tokenOut
    /\ Chained(route.legs)
    /\ route.provider = Configured[id].kind
    /\ \A i \in DOMAIN route.legs : route.legs[i].case = SelectorCase(Configured[id].kind)

(* admitV3Route, and the same conditions in slipstream's plan.             *)
AdmittedPath(route, p, id) ==
    /\ Len(route.legs) \in {1, 2}
    /\ StartOf(route.legs) = p.tokenIn /\ EndOf(route.legs) = p.tokenOut
    /\ Chained(route.legs)
    /\ route.provider = Configured[id].kind
    /\ \A i \in DOMAIN route.legs :
          AllowedLeg(route.legs[i], id, SelectorCase(Configured[id].kind))

AdmittedPool(p, id) ==
    LET leg == p.route.legs[1] IN
    /\ Len(p.route.legs) = 1 /\ p.route.provider = "balancer-v2"
    /\ AllowedLeg(leg, id, "poolId")
    /\ leg.tokenIn = p.tokenIn /\ leg.tokenOut = p.tokenOut
    /\ PoolAddress[leg.value] \notin {leg.tokenIn, leg.tokenOut}

AdmittedKey(p, id) ==
    LET leg == p.route.legs[1] IN
    /\ Len(p.route.legs) = 1 /\ p.route.provider = "uniswap-v4"
    /\ leg.case = "poolKey" /\ leg.value \in ToSet(Configured[id].selectors)
    /\ leg.tokenIn = p.tokenIn /\ leg.tokenOut = p.tokenOut
    /\ {leg.tokenIn, leg.tokenOut} = Currencies(leg.value)
    /\ p.amountIn <= MaxUint128 /\ p.minimum <= MaxUint128

AdmittedRoute(p) ==
    LET id == p.route.deployment IN
    /\ id \in DOMAIN Configured
    /\ CASE Configured[id].kind \in PathKinds -> AdmittedPath(p.route, p, id)
         [] Configured[id].kind = "balancer-v2" -> AdmittedPool(p, id)
         [] Configured[id].kind = "uniswap-v4" -> AdmittedKey(p, id)
    /\ p.route.out > 0

UniswapData(p) ==
    Multicall(p.deadline, ExactInput(PackedPath(p.route.legs), p.recipient, p.amountIn, p.minimum))

(* pancakeData and slipstreamData.                                         *)
ExactInputData(p) ==
    ExactInputUntil(PackedPath(p.route.legs), p.recipient, p.deadline, p.amountIn, p.minimum)

VaultData(p) ==
    VaultSwap(p.route.legs[1].value, p.route.legs[1].tokenIn, p.route.legs[1].tokenOut,
              p.amountIn, p.recipient, p.recipient, p.minimum, p.deadline)

UniswapV4Data(p) ==
    LET pool == p.route.legs[1].value
        first == p.tokenIn = Currency0(pool)
    IN  RouterExecute(pool, first, p.amountIn, p.minimum, p.tokenIn, p.amountIn,
            IF first THEN Currency1(pool) ELSE Currency0(pool), p.minimum, p.deadline)

RouteData(p) ==
    LET kind == Configured[p.route.deployment].kind IN
    CASE kind = "uniswap-v3" -> UniswapData(p)
      [] kind \in {"pancake-v3", "aerodrome-slipstream"} -> ExactInputData(p)
      [] kind = "balancer-v2" -> VaultData(p)
      [] kind = "uniswap-v4" -> UniswapV4Data(p)

Held(token, owner) == [token |-> token, owner |-> owner]

(* directV3Terms watches the intermediate token, V4 both ends, Balancer    *)
(* nothing.                                                                *)
RouteUnchanged(p) ==
    LET d == Configured[p.route.deployment]
        legs == p.route.legs
    IN  CASE d.kind \in PathKinds -> {Held(legs[i].tokenOut, d.target) : i \in 1..(Len(legs) - 1)}
          [] d.kind = "balancer-v2" -> {}
          [] d.kind = "uniswap-v4" -> {Held(p.tokenIn, d.target), Held(p.tokenOut, d.target)}

-----------------------------------------------------------------------------
(* fixedExecutor.                                                          *)

Venues3 == {Executor.uniswap, Executor.pancake}

AdmittedSplit(p) ==
    /\ p.route = None /\ Len(p.allocations) \in {1, 2}
    /\ \A i, j \in DOMAIN p.allocations :
          p.allocations[i].route.deployment = p.allocations[j].route.deployment => i = j
    /\ \A i \in DOMAIN p.allocations :
          LET route == p.allocations[i].route IN
          /\ route.deployment \in Venues3
          /\ AdmittedPath(route, p, route.deployment)
          /\ IsInjective(TokensAlong(route.legs))
          /\ route.block = p.allocations[1].route.block
          /\ p.allocations[i].amountIn \in 1..MaxUint
          /\ route.out \in 1..MaxUint
    /\ SumOf([i \in DOMAIN p.allocations |-> p.allocations[i].amountIn]) = p.amountIn

(* expectedExecutorData.                                                   *)
ExpectedExecutorData(p) ==
    ExecutorExecute(p.tokenIn, p.tokenOut, p.amountIn, p.minimum, p.deadline,
        [i \in DOMAIN p.allocations |->
            LET route == p.allocations[i].route IN
            [venue |-> IF route.provider = "uniswap-v3" THEN 0 ELSE 1,
             amountIn |-> p.allocations[i].amountIn,
             hops |-> [j \in DOMAIN route.legs |->
                          [tokenOut |-> route.legs[j].tokenOut, fee |-> route.legs[j].value]]]])

SplitUnchanged(p) ==
    (UNION {LET route == p.allocations[i].route IN
            {Held(t, o) : t \in ToSet(TokensAlong(route.legs)),
                          o \in {Executor.address, Configured[route.deployment].target, p.recipient}} :
               i \in DOMAIN p.allocations})
    \ {Held(p.tokenIn, p.recipient), Held(p.tokenOut, p.recipient)}

SplitOutput(p) == SumOf([i \in DOMAIN p.allocations |-> p.allocations[i].route.out])

-----------------------------------------------------------------------------
(* validatePreparation.                                                    *)

Admits(p) == IF p.route = None THEN AdmittedSplit(p) ELSE AdmittedRoute(p)

(* SwapTerms of what was admitted.                                         *)
Terms(p) ==
    IF p.route = None
    THEN [target |-> Executor.address, spender |-> Executor.address, permission |-> None,
          data |-> ExpectedExecutorData(p), quoted |-> SplitOutput(p),
          unchanged |-> SplitUnchanged(p)]
    ELSE LET d == Configured[p.route.deployment] IN
         [target |-> d.target, spender |-> d.spender,
          permission |-> IF d.kind = "uniswap-v4"
                         THEN [target |-> d.spender, spender |-> d.target] ELSE None,
          data |-> RouteData(p), quoted |-> p.route.out, unchanged |-> RouteUnchanged(p)]

TransactionOf(p) ==
    IF p.status = "READY" THEN p.transaction
    ELSE IF p.permission # None THEN p.permission.transaction ELSE p.approval

WellFormed(p) ==
    LET tx == TransactionOf(p) IN
    /\ p.status \in {"READY", "APPROVAL_REQUIRED"}
    /\ tx # None /\ p.recipient = Signer /\ tx.from = Signer
    /\ tx.chain = Chain /\ tx.value = 0
    /\ p.tokenIn # p.tokenOut /\ {p.tokenIn, p.tokenOut} \subseteq Tokens
    /\ p.amountIn \in 1..MaxUint /\ p.minimum \in 1..MaxUint
    /\ (p.route # None) # (p.allocations # <<>>) /\ Len(p.allocations) <= 2

(* The minimum is the one the requested tolerance leaves of the quote.     *)
MinimumMatches(p, slippage) ==
    LET quoted == Terms(p).quoted IN
    /\ quoted \in 1..MaxUint
    /\ p.minimum = (quoted * (10000 - slippage)) \div 10000

(* approve(spender, amountIn) on the input token, and nothing else.        *)
ApprovalExact(p) ==
    /\ p.permission = None /\ p.transaction = None
    /\ p.approvalSpender = Terms(p).spender
    /\ p.approval.to = p.tokenIn
    /\ p.approval.data = Approve(Terms(p).spender, p.amountIn)

(* Permit2's approve of the router, for the amount and half an hour more   *)
(* than the swap, and nothing else.                                        *)
PermissionExact(p) ==
    LET terms == Terms(p)
        permission == p.permission
    IN  /\ p.approval = None /\ p.approvalSpender = None /\ p.transaction = None
        /\ terms.permission # None
        /\ permission.target = terms.permission.target
        /\ permission.spender = terms.permission.spender
        /\ permission.token = p.tokenIn /\ permission.amount = p.amountIn
        /\ permission.expiration = p.deadline + 1800 /\ permission.expiration <= MaxUint48
        /\ permission.transaction.to = permission.target
        /\ permission.transaction.data =
              PermitApprove(p.tokenIn, terms.target, p.amountIn, permission.expiration)

SwapExact(p) ==
    /\ p.permission = None /\ p.approval = None /\ p.approvalSpender = None
    /\ p.transaction.to = Terms(p).target /\ p.transaction.data = Terms(p).data

Accepts(p, slippage) ==
    /\ WellFormed(p) /\ Admits(p) /\ MinimumMatches(p, slippage)
    /\ CASE p.status = "READY" -> SwapExact(p)
         [] p.status # "READY" /\ p.permission # None -> PermissionExact(p)
         [] p.status # "READY" /\ p.permission = None -> ApprovalExact(p)

(* What an accepted answer may send, and what its receipt must show.       *)
PlanFor(p) ==
    [action |-> IF p.status = "READY" THEN "swap" ELSE "approval",
     transaction |-> TransactionOf(p),
     receipt |-> IF p.status = "READY"
                 THEN [tokenIn |-> p.tokenIn, tokenOut |-> p.tokenOut, recipient |-> p.recipient,
                       amountIn |-> p.amountIn, minimum |-> p.minimum,
                       unchanged |-> Terms(p).unchanged]
                 ELSE None]

(* verifyReceipt, from what the transaction's Transfer logs add up to for  *)
(* each token and owner.                                                   *)
ReceiptPasses(moved, obligations) ==
    /\ -moved[Held(obligations.tokenIn, obligations.recipient)] = obligations.amountIn
    /\ moved[Held(obligations.tokenOut, obligations.recipient)] >= obligations.minimum
    /\ \A held \in obligations.unchanged : moved[held] = 0

===============================================================================
