--------------------------- MODULE ProviderQuotes ---------------------------
(***************************************************************************)
(* What the quoters make of a path at one block.  They ask contracts, hop  *)
(* by hop, each with the output of the one before; what those answer for a *)
(* pool that cannot take the whole input differs from kind to kind.        *)
(*                                                                         *)
(* A pool is None where there is none (for Balancer: where it does not     *)
(* hold both tokens; for V4: where it is not initialized); otherwise it    *)
(* takes some capacity of the input until its price is at the limit, and   *)
(* pays a rate for what it takes.                                          *)
(***************************************************************************)
EXTENDS Integers, Sequences

CONSTANTS
    AmountIn,     \* of the request
    MaxUint128,   \* 2^128 - 1
    MaxInt256,    \* 2^255 - 1
    None

ASSUME QuotesAssumption ==
    /\ {AmountIn, MaxUint128, MaxInt256} \subseteq Nat
    /\ AmountIn > 0

Kinds == {"uniswap-v3", "pancake-v3", "aerodrome-slipstream", "uniswap-v4", "balancer-v2"}
Depths == [capacity : Nat, rate : Nat]

Found(output) == [kind |-> "route", output |-> output]
Missing == [kind |-> "missing"]   \* a nil route without an error: no pool
Failed == [kind |-> "error"]      \* a call failed, or its answer is refused

(* The pools: what is taken of an input and what is paid for it.  The V4   *)
(* quoter and the Balancer vault revert when not all of it is taken.       *)
Taken(pool, x) == IF x < pool.capacity THEN x ELSE pool.capacity
Paid(pool, x) == pool.rate * Taken(pool, x)
AtLimit(pool, x) == x >= pool.capacity
Reverts(pool, x) == x > pool.capacity

(* Mutant: the price after the swap is not looked at.                      *)
QuoteV3AnyPrice(pool, x) ==
    IF pool = None THEN Missing
    ELSE IF Paid(pool, x) = 0 THEN Failed
    ELSE Found(Paid(pool, x))

QuoteV3(pool, x) ==
    IF pool = None THEN Missing
    ELSE IF Paid(pool, x) = 0 \/ AtLimit(pool, x) THEN Failed
    ELSE Found(Paid(pool, x))

QuoteSlipstream(pool, x) == IF x > MaxInt256 THEN Failed ELSE QuoteV3(pool, x)

QuoteV4(pool, x) ==
    IF pool = None THEN Missing
    ELSE IF x > MaxUint128 \/ Reverts(pool, x) \/ Paid(pool, x) = 0 THEN Failed
    ELSE Found(Paid(pool, x))

QuoteBalancer(pool, x) ==
    IF pool = None THEN Missing
    ELSE IF Reverts(pool, x) \/ Paid(pool, x) = 0 THEN Failed
    ELSE Found(Paid(pool, x))

QuoteHop(kind, pool, x) ==
    CASE kind \in {"uniswap-v3", "pancake-v3"} -> QuoteV3(pool, x)
      [] kind = "aerodrome-slipstream" -> QuoteSlipstream(pool, x)
      [] kind = "uniswap-v4" -> QuoteV4(pool, x)
      [] kind = "balancer-v2" -> QuoteBalancer(pool, x)

(* The first hop without an output ends it, missing or failed as it is.    *)
QuotePath(kind, path, market) ==
    LET hop[n \in 0..Len(path)] ==
          IF n = 0 THEN Found(AmountIn)
          ELSE IF hop[n - 1].kind # "route" THEN hop[n - 1]
          ELSE QuoteHop(kind, market[path[n]], hop[n - 1].output)
    IN  hop[Len(path)]

=============================================================================
