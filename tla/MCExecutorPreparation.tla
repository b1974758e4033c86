------------------------ MODULE MCExecutorPreparation ------------------------
(* Four deployments, one of them of the right kind but not the             *)
(* executor's and one of another kind; fees that are not configured in     *)
(* order; two intermediates.                                               *)
EXTENDS ExecutorPreparation

CONSTANTS a, b, m, n

Direct(kind, target, selectors) ==
    [kind |-> kind, target |-> target, spender |-> target, selectors |-> selectors]

MCConfigured ==
    [ pancake  |-> Direct("pancake-v3", "pancakeRouter", <<2, 1>>),
      uniswap  |-> Direct("uniswap-v3", "uniswapRouter", <<1>>),
      uniswap2 |-> Direct("uniswap-v3", "uniswapRouter2", <<1>>),
      slip     |-> Direct("aerodrome-slipstream", "slipRouter", <<1>>) ]
MCTokens == {a, b, m, n}
MCOrder == <<m, a, n, b>>
MCIds == <<"pancake", "slip", "uniswap", "uniswap2">>
MCExecutor == [address |-> "executor", uniswap |-> "uniswap", pancake |-> "pancake"]
MCNone == <<>>
MCAmounts == {0, 1, 2, 3}
MCOutputs == {0, 1, 4}
MCSlippage == {0, 5000}

===============================================================================
