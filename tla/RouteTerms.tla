----------------------------- MODULE RouteTerms -----------------------------
(***************************************************************************)
(* What the engine and the terminal have in common: the configuration file *)
(* both read, the route and response messages of quote.proto, and the      *)
(* calls of the canonical ABIs both encode.                                *)
(*                                                                         *)
(* A call is a record of its arguments; the bytes are equal when the       *)
(* records are.  A leg carries its pool selector as a tagged value: a fee, *)
(* a tick spacing, a Balancer pool id or a V4 pool key.  A fee or spacing  *)
(* determines the pool at a given block; a V4 key is what its id is the    *)
(* hash of, and has the two currencies of KeyCurrencies.                   *)
(***************************************************************************)
EXTENDS ExecutorPlan, FiniteSets, SequencesExt

CONSTANTS
    Configured,      \* the deployments: id -> kind, target, spender, selectors
    Executor,        \* the executor's address and the ids of its two deployments
    PoolTokens,      \* the tokens registered for a Balancer pool
    PoolAddress,     \* the contract address inside a Balancer pool id
    KeyCurrencies,   \* the two currencies of a V4 pool key, in their order
    TokenIn, TokenOut, AmountIn,
    MaxUint128,      \* 2^128 - 1
    Timestamp        \* of the block the preparation is made at

FeeKinds == {"uniswap-v3", "pancake-v3"}
PathKinds == FeeKinds \cup {"aerodrome-slipstream"}

Currency0(key) == KeyCurrencies[key][1]
Currency1(key) == KeyCurrencies[key][2]
Currencies(key) == {Currency0(key), Currency1(key)}

(* ValidateChain and the validators of the five kinds, read by the         *)
(* terminal's parsers the same way.                                        *)
ValidConfiguration ==
    /\ \A id \in DOMAIN Configured :
          LET d == Configured[id] IN
          /\ d.kind \in PathKinds \cup {"balancer-v2", "uniswap-v4"}
          /\ Len(d.selectors) > 0 /\ IsInjective(d.selectors)
          /\ d.kind # "uniswap-v4" => d.spender = d.target
          /\ d.kind = "uniswap-v4" =>
                \A key \in ToSet(d.selectors) :
                   /\ Currencies(key) \subseteq Tokens
                   /\ Currency0(key) # Currency1(key)
    /\ {Executor.uniswap, Executor.pancake} \subseteq DOMAIN Configured
    /\ Configured[Executor.uniswap].kind = "uniswap-v3"
    /\ Configured[Executor.pancake].kind = "pancake-v3"
    /\ Configured[Executor.uniswap].target # Configured[Executor.pancake].target

ASSUME ConfigurationAssumption ==
    /\ ValidConfiguration
    /\ TokenIn # TokenOut /\ {TokenIn, TokenOut} \subseteq Tokens
    /\ MaxUint \in Nat /\ AmountIn \in 1..MaxUint
    /\ MaxUint128 \in 1..MaxUint
    /\ Timestamp \in Nat

Sender == "sender"
Chain == "chain"

-----------------------------------------------------------------------------
(* Routes.                                                                 *)

SelectorCase(kind) ==
    CASE kind \in FeeKinds -> "feePips"
      [] kind = "aerodrome-slipstream" -> "tickSpacing"
      [] kind = "balancer-v2" -> "poolId"
      [] kind = "uniswap-v4" -> "poolKey"

Leg(in, out, case, value) == [tokenIn |-> in, tokenOut |-> out, case |-> case, value |-> value]

(* quotePath: one leg per selector, from each token of the path to the     *)
(* next.                                                                   *)
LegsAlong(tokens, case, selectors) ==
    [i \in DOMAIN selectors |-> Leg(tokens[i], tokens[i + 1], case, selectors[i])]

StartOf(legs) == legs[1].tokenIn
EndOf(legs) == legs[Len(legs)].tokenOut
Chained(legs) == \A i \in DOMAIN legs : i > 1 => legs[i - 1].tokenOut = legs[i].tokenIn
TokensAlong(legs) == <<StartOf(legs)>> \o [i \in DOMAIN legs |-> legs[i].tokenOut]

(* v3Path and slipstreamPath: address | selector | address ...             *)
PackedPath(legs) ==
    [tokens |-> TokensAlong(legs), selectors |-> [i \in DOMAIN legs |-> legs[i].value]]

(* What the loops over the parts of a split add up to.                     *)
SumOf(amounts) ==
    LET sum[i \in 0..Len(amounts)] == IF i = 0 THEN 0 ELSE sum[i - 1] + amounts[i]
    IN  sum[Len(amounts)]

-----------------------------------------------------------------------------
(* The calls.                                                              *)

Approve(spender, amount) == [call |-> "approve", spender |-> spender, amount |-> amount]

PermitApprove(token, spender, amount, expiration) ==
    [call |-> "permit2Approve", token |-> token, spender |-> spender, amount |-> amount,
     expiration |-> expiration]

ExactInput(path, recipient, amountIn, minimum) ==
    [call |-> "exactInput", path |-> path, recipient |-> recipient, amountIn |-> amountIn,
     minimum |-> minimum]

ExactInputUntil(path, recipient, deadline, amountIn, minimum) ==
    [call |-> "exactInputUntil", path |-> path, recipient |-> recipient, deadline |-> deadline,
     amountIn |-> amountIn, minimum |-> minimum]

Multicall(deadline, inner) == [call |-> "multicall", deadline |-> deadline, inner |-> inner]

VaultSwap(pool, assetIn, assetOut, amount, sender, recipient, limit, deadline) ==
    [call |-> "swap", pool |-> pool, assetIn |-> assetIn, assetOut |-> assetOut,
     amount |-> amount, sender |-> sender, recipient |-> recipient, limit |-> limit,
     deadline |-> deadline]

(* V4_SWAP with exact input single, settle by the payer, take all.         *)
RouterExecute(key, zeroForOne, amountIn, minimum, settled, settledMost, taken, takenLeast, deadline) ==
    [call |-> "execute", key |-> key, zeroForOne |-> zeroForOne, amountIn |-> amountIn,
     minimum |-> minimum, settled |-> settled, settledMost |-> settledMost, taken |-> taken,
     takenLeast |-> takenLeast, deadline |-> deadline]

ExecutorExecute(tokenIn, tokenOut, amountIn, minimum, deadline, allocations) ==
    [call |-> "executor", tokenIn |-> tokenIn, tokenOut |-> tokenOut, amountIn |-> amountIn,
     minimum |-> minimum, deadline |-> deadline, allocations |-> allocations]

(* A call of the executor as the contract reads it.                        *)
PlanOfCall(data) ==
    [tokenIn |-> data.tokenIn, tokenOut |-> data.tokenOut, amountIn |-> data.amountIn,
     minAmountOut |-> data.minimum, deadline |-> data.deadline,
     allocations |-> [i \in DOMAIN data.allocations |->
        [venue |-> data.allocations[i].venue, amountIn |-> data.allocations[i].amountIn,
         hops |-> [j \in DOMAIN data.allocations[i].hops |->
                      data.allocations[i].hops[j].tokenOut]]]]

Transaction(from, to, data) == [chain |-> Chain, from |-> from, to |-> to, value |-> 0, data |-> data]

===============================================================================
