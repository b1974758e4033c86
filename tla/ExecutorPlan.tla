----------------------------- MODULE ExecutorPlan -----------------------------
(***************************************************************************)
(* What Executor.execute is called with, and what it makes of it before    *)
(* anything happens.                                                       *)
(***************************************************************************)
EXTENDS Integers, Sequences

CONSTANTS
    Tokens,          \* addresses with code
    MaxUint,         \* 2^256 - 1
    None

Venues == {0, 1}     \* SwapRouter02 and Pancake's SwapRouter
Uint == 0..MaxUint

AnyToken == Tokens \cup {None}   \* None: an address without code

Allocation == [venue : Nat, amountIn : Uint, hops : Seq(AnyToken)]

Plan == [tokenIn : AnyToken, tokenOut : AnyToken, amountIn : Uint,
         minAmountOut : Uint, deadline : Nat, allocations : Seq(Allocation)]

-----------------------------------------------------------------------------
(* validate.                                                               *)

HopsAccepted(p, hops) ==
    /\ Len(hops) \in {1, 2}
    /\ \A j \in DOMAIN hops : hops[j] \in Tokens \ {p.tokenIn}
    /\ hops[Len(hops)] = p.tokenOut
    /\ Len(hops) = 2 => hops[1] # p.tokenOut

(* The amounts are taken off what remains, which must not go below zero    *)
(* and end there.                                                          *)
AmountsAccepted(p) ==
    LET first == p.allocations[1].amountIn
        rest == p.amountIn - first
    IN  /\ p.amountIn # 0
        /\ first \in 1..p.amountIn
        /\ IF Len(p.allocations) = 1 THEN rest = 0
           ELSE p.allocations[2].amountIn \in 1..rest /\ rest - p.allocations[2].amountIn = 0

Accepted(p) ==
    /\ p.tokenIn # p.tokenOut /\ {p.tokenIn, p.tokenOut} \subseteq Tokens
    /\ Len(p.allocations) \in {1, 2}
    /\ Len(p.allocations) = 2 => p.allocations[1].venue # p.allocations[2].venue
    /\ \A i \in DOMAIN p.allocations :
          /\ p.allocations[i].venue \in Venues
          /\ HopsAccepted(p, p.allocations[i].hops)
    /\ AmountsAccepted(p)

Middle(allocation) ==
    IF Len(allocation.hops) = 2 THEN <<allocation.hops[1]>> ELSE <<>>

(* Mutant: the third entry is only ever written once.                      *)
TouchedOnce(p) ==
    LET first == Middle(p.allocations[1])
        second == IF Len(p.allocations) = 2 THEN Middle(p.allocations[2]) ELSE <<>>
    IN  <<p.tokenIn, p.tokenOut>> \o (IF first = <<>> THEN second ELSE first)

(* The tokens whose balances are restored: input, output, and each         *)
(* intermediate the first time it is met.                                  *)
Touched(p) ==
    LET first == Middle(p.allocations[1])
        second == IF Len(p.allocations) = 2 THEN Middle(p.allocations[2]) ELSE <<>>
    IN  <<p.tokenIn, p.tokenOut>> \o first \o (IF second = first THEN <<>> ELSE second)

(* Every token the plan names.                                             *)
TokensOf(p) ==
    {p.tokenIn} \cup UNION {{p.allocations[i].hops[j] : j \in DOMAIN p.allocations[i].hops} :
                              i \in DOMAIN p.allocations}

===============================================================================
