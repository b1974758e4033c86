----------------------------- MODULE MCExecutor -----------------------------
(* Plans over four tokens: every shape of routes over two intermediates,   *)
(* in both orders of venues, and amounts whose sum wraps at four bits.     *)
EXTENDS Executor

CONSTANTS a, b, m, n, alice, bob

MCTokens == {a, b, m, n}
MCCallers == {alice, bob}
MCTimes == {1, 2}
NoTax == {0}
SomeTax == {0, 1}
MCHoldings == {4}
MCDust == {2, 3}
MCOutputs == {0, 2}
ZeroOrOne == {0, 1}

PathsOf(middles) == {<<b>>} \cup {<<x, b>> : x \in middles}

With(amount, allocations) ==
    [tokenIn |-> a, tokenOut |-> b, amountIn |-> amount, minAmountOut |-> 1,
     deadline |-> 1, allocations |-> allocations]

One(v, x, path) == [venue |-> v, amountIn |-> x, hops |-> path]

SplitPlans ==
    {With(2, <<One(0, 1, p), One(1, 1, q)>>) : p \in {<<m, b>>, <<b>>}, q \in {<<m, b>>, <<n, b>>}}

SinglePlans ==
    {With(2, <<One(v, 2, p)>>) : v \in {0, 1}, p \in PathsOf({m})}

(* Everything a caller may write, most of it malformed.                    *)
AnyPlans ==
    {With(x, <<One(0, y, p), One(v, z, q)>>) :
        x \in {0, 1, 2}, y \in {0, 1, 2, 15}, z \in {0, 1, 2, 15}, v \in {0, 1, 2},
        p \in {<<b>>, <<m, b>>, <<a, b>>, <<None, b>>}, q \in {<<b>>, <<m, b>>, <<n, b>>, <<m>>, <<>>}}
    \cup {With(x, <<One(v, y, p)>>) :
        x \in {0, 1, 2}, y \in {0, 1, 2, 15}, v \in {0, 2},
        p \in {<<b>>, <<b, b>>, <<m, b>>, <<m, n, b>>, <<a, b>>, <<b, m>>}}

AllPlans == SplitPlans \cup AnyPlans

=============================================================================
