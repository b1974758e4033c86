--------------------------- MODULE RoutePreparation ---------------------------
(***************************************************************************)
(* The engine's side of one prepared execution: the candidates of every    *)
(* provider, the strategies of preparation.go, and the simulators that     *)
(* must find the checks of a plan fulfilled.                               *)
(***************************************************************************)
EXTENDS ExecutorRoutes

Kind(id) == Configured[id].kind
Selectors(id) == ToSet(Configured[id].selectors)

-----------------------------------------------------------------------------
(* Candidates.                                                             *)

(* candidateIterator hands out every one of these once (RouteCandidates).  *)
Paths(id) ==
    LET case == SelectorCase(Kind(id)) IN
    {<<Leg(TokenIn, TokenOut, case, s)>> : s \in Selectors(id)}
    \cup {<<Leg(TokenIn, m, case, s), Leg(m, TokenOut, case, t)>> :
             m \in Tokens \ {TokenIn, TokenOut}, s, t \in Selectors(id)}

(* quoteBalancerPool: eligible when the pool holds both tokens and neither *)
(* is the pool's own share.                                                *)
Eligible(pool) ==
    {TokenIn, TokenOut} \subseteq PoolTokens[pool] \ {PoolAddress[pool]}

BalancerPools(id) ==
    {<<Leg(TokenIn, TokenOut, "poolId", pool)>> : pool \in {x \in Selectors(id) : Eligible(x)}}

V4Pools(id) ==
    {<<Leg(TokenIn, TokenOut, "poolKey", key)>> :
        key \in {k \in Selectors(id) : Currencies(k) = {TokenIn, TokenOut}}}

Candidates(id) ==
    IF Kind(id) \in PathKinds THEN Paths(id)
    ELSE IF Kind(id) = "balancer-v2" THEN BalancerPools(id) ELSE V4Pools(id)

Route(id, legs, out) ==
    [provider |-> Kind(id), deployment |-> id, legs |-> legs, out |-> out, block |-> "quoted"]

-----------------------------------------------------------------------------
(* Select.                                                                 *)

(* validBalancerRoute.                                                     *)
ValidBalancerRoute(route) ==
    LET leg == route.legs[1] IN
    /\ Len(route.legs) = 1
    /\ leg.case = "poolId" /\ leg.tokenIn # leg.tokenOut
    /\ leg.value \in Selectors(route.deployment)
    /\ PoolAddress[leg.value] \notin {leg.tokenIn, leg.tokenOut}

(* v4Quoter.admit.                                                         *)
AdmittedV4(route) ==
    LET leg == route.legs[1] IN
    /\ Len(route.legs) = 1
    /\ leg.case = "poolKey" /\ leg.value \in Selectors(route.deployment)
    /\ {leg.tokenIn, leg.tokenOut} = Currencies(leg.value)

(* v3Path and slipstreamPath refuse anything else.                         *)
Encodable(route) ==
    /\ Len(route.legs) \in {1, 2} /\ Chained(route.legs)
    /\ \A i \in DOMAIN route.legs : route.legs[i].case = SelectorCase(route.provider)

Supported(route) ==
    CASE route.provider \in PathKinds -> Encodable(route)
      [] route.provider = "balancer-v2" -> ValidBalancerRoute(route) /\ route.out > 0
      [] route.provider = "uniswap-v4" -> AdmittedV4(route)

-----------------------------------------------------------------------------
(* Build.                                                                  *)

UniswapRouter02Data(p) ==
    Multicall(p.deadline, ExactInput(PackedPath(p.route.legs), p.recipient, p.amountIn, p.minimum))

(* pancakeV3RouterData; slipstreamRouterData, whose path holds spacings.   *)
RouterData(p) ==
    ExactInputUntil(PackedPath(p.route.legs), p.recipient, p.deadline, p.amountIn, p.minimum)

BalancerData(p) ==
    LET leg == p.route.legs[1] IN
    VaultSwap(leg.value, leg.tokenIn, leg.tokenOut, p.amountIn, p.recipient, p.recipient,
              p.minimum, p.deadline)

(* Mutant: the output is always the second currency of the key.            *)
V4DataOneWay(p) ==
    LET leg == p.route.legs[1]
        key == leg.value
    IN  RouterExecute(key, leg.tokenIn = Currency0(key), p.amountIn, p.minimum, leg.tokenIn,
            p.amountIn, Currency1(key), p.minimum, p.deadline)

V4Data(p) ==
    LET leg == p.route.legs[1]
        key == leg.value
        zeroForOne == leg.tokenIn = Currency0(key)
    IN  RouterExecute(key, zeroForOne, p.amountIn, p.minimum, leg.tokenIn, p.amountIn,
            IF zeroForOne THEN Currency1(key) ELSE Currency0(key), p.minimum, p.deadline)

Data(p) ==
    CASE p.route.provider = "uniswap-v3" -> UniswapRouter02Data(p)
      [] p.route.provider \in {"pancake-v3", "aerodrome-slipstream"} -> RouterData(p)
      [] p.route.provider = "balancer-v2" -> BalancerData(p)
      [] p.route.provider = "uniswap-v4" -> V4Data(p)

(* A minimum must be left; V4 amounts must fit 128 bits.                   *)
Buildable(p) ==
    /\ p.minimum > 0
    /\ p.route # None /\ p.route.provider = "uniswap-v4" =>
          p.amountIn <= MaxUint128 /\ p.minimum <= MaxUint128

Target(p) == IF p.route = None THEN Executor.address ELSE Configured[p.route.deployment].target
Spender(p) == IF p.route = None THEN Executor.address ELSE Configured[p.route.deployment].spender

SwapTransaction(p) ==
    IF p.route = None THEN ExecutorTransaction(p) ELSE Transaction(p.recipient, Target(p), Data(p))

(* The Permit2 permission a V4 plan needs on top of the allowance.         *)
Permission(p) ==
    [target |-> Spender(p), token |-> p.tokenIn, spender |-> Target(p), amount |-> p.amountIn,
     expiration |-> p.deadline + 1800]

(* Mutant: V4 watches what every direct route does and no more.            *)
DirectPreserveSame(p) ==
    LET legs == p.route.legs IN
    IF Len(legs) = 2 THEN {Probe(legs[1].tokenOut, Target(p))} ELSE {}

(* directChecks, with what V4 adds; a Vault keeps what passes through it.  *)
DirectPreserve(p) ==
    LET legs == p.route.legs IN
    IF p.route.provider = "uniswap-v4"
    THEN {Probe(p.tokenIn, Target(p)), Probe(p.tokenOut, Target(p))}
    ELSE IF Len(legs) = 2 THEN {Probe(legs[1].tokenOut, Target(p))} ELSE {}

Checks(p) ==
    IF p.route = None THEN ExecutorChecks(p)
    ELSE [input |-> Probe(StartOf(p.route.legs), p.recipient),
          output |-> Probe(EndOf(p.route.legs), p.recipient),
          preserve |-> DirectPreserve(p), clear |-> {}]

-----------------------------------------------------------------------------
(* What a transaction does to balances: the sender's input and output, at  *)
(* most one balance that should have stayed as it was, and whether an      *)
(* approval of the executor is left over.                                  *)

Delta(effect, token, owner) ==
    (CASE <<token, owner>> = <<TokenIn, Sender>> -> -effect.spent
       [] <<token, owner>> = <<TokenOut, Sender>> -> effect.received
       [] OTHER -> 0)
    + (IF effect.odd = Probe(token, owner) THEN 1 ELSE 0)

Spent(checks, effect) == -Delta(effect, checks.input.token, checks.input.owner)
Received(checks, effect) == Delta(effect, checks.output.token, checks.output.owner)
Preserved(checks, effect) ==
    \A probe \in checks.preserve : Delta(effect, probe.token, probe.owner) = 0

(* Tenderly reads balances and allowances around the swap.                 *)
TenderlyPasses(p, checks, effect) ==
    /\ Spent(checks, effect) = p.amountIn /\ Received(checks, effect) >= p.minimum
    /\ Preserved(checks, effect)
    /\ checks.clear # {} => ~effect.left

(* Anvil traces Transfer logs and cannot see an allowance.                 *)
AnvilPasses(p, checks, effect) ==
    /\ checks.clear = {}
    /\ Spent(checks, effect) = p.amountIn /\ Received(checks, effect) >= p.minimum
    /\ Preserved(checks, effect)

===============================================================================
