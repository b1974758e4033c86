--------------------------- MODULE MCQuoteSearch ---------------------------
EXTENDS QuoteSearch

Depth(capacity, rate) == [capacity |-> capacity, rate |-> rate]
Deep == Depth(9, 1)

(* Better, worthless, running dry, dry at the very end.                    *)
Odd == {None, Depth(9, 2), Depth(9, 0), Depth(1, 2), Depth(2, 1)}

(* Paths of two pools, a deployment without a path in the middle.          *)
Paths ==
    <<[kind |-> "uniswap-v3", paths |-> << <<"ab">>, <<"am", "mb">> >>],
      [kind |-> "pancake-v3", paths |-> <<>>],
      [kind |-> "aerodrome-slipstream", paths |-> << <<"sb">>, <<"sm", "sb">> >>]>>

(* Kinds whose paths have one pool.                                        *)
Singles ==
    <<[kind |-> "balancer-v2", paths |-> << <<"b1">>, <<"b2">> >>],
      [kind |-> "uniswap-v4", paths |-> << <<"v4">> >>]>>

OneOdd(pools) ==
    LET even == [p \in pools |-> Deep] IN {[even EXCEPT ![p] = d] : p \in pools, d \in Odd}

MCSearches ==
    [deployments : {Paths}, market : OneOdd({"ab", "am", "mb", "sb", "sm"})]
    \cup [deployments : {Singles}, market : [{"b1", "b2", "v4"} -> Odd]]
=============================================================================
