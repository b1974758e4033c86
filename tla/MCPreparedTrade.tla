--------------------------- MODULE MCPreparedTrade ---------------------------
(* One deployment of every kind; a V4 pool whose currencies are in the     *)
(* other order than the trade; a Balancer pool that does not hold the pair *)
(* and one whose share is being bought.                                    *)
EXTENDS PreparedTrade

CONSTANTS a, b, m, pool1, pool2, pool3, baKey, amKey

Direct(kind, target, selectors) ==
    [kind |-> kind, target |-> target, spender |-> target, selectors |-> selectors]

MCTokens == {a, b, m}
MCConfigured ==
    [ bal  |-> Direct("balancer-v2", "vault", <<pool1, pool2, pool3>>),
      pan  |-> Direct("pancake-v3", "pancakeRouter", <<1>>),
      slip |-> Direct("aerodrome-slipstream", "slipRouter", <<-1>>),
      uni  |-> Direct("uniswap-v3", "uniswapRouter", <<1>>),
      v4   |-> [kind |-> "uniswap-v4", target |-> "universalRouter", spender |-> "permit2",
                selectors |-> <<baKey, amKey>>] ]
MCPoolTokens == pool1 :> {a, b, "p1"} @@ pool2 :> {a, b} @@ pool3 :> {a, m}
MCPoolAddress == pool1 :> "p1" @@ pool2 :> b @@ pool3 :> "p3"
MCKeyCurrencies == baKey :> <<b, a>> @@ amKey :> <<a, m>>
MCExecutor == [address |-> "executor", uniswap |-> "uni", pancake |-> "pan"]
MCOutputs == {1, 4}
MCAllotments == {1, 2}
MCSlippage == {0, 5000}
MCSimulators == {"tenderly", "anvil"}

===============================================================================
