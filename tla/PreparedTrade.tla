---------------------------- MODULE PreparedTrade ----------------------------
(***************************************************************************)
(* One preparation across the trust boundary: the engine verifies its      *)
(* deployments when it starts, prepares what a caller picked from a quote, *)
(* checks the contracts again and simulates; the terminal, with its own    *)
(* copy of the configuration, decides whether to sign what it received,    *)
(* which may not be what the engine's code would have sent.                *)
(*                                                                         *)
(* How the engine gets from a request to its answer step by step while the *)
(* chain moves is PrepareExecution's subject; here the whole preparation   *)
(* is one step at one block.                                               *)
(***************************************************************************)
EXTENDS RoutePreparation, ExecutionPolicy, FiniteSetsExt

CONSTANTS
    Allotments,      \* what may be allotted to a part of a split
    Simulators,      \* the engine's simulator: "tenderly" or "anvil"
    MaxFaults        \* bound on what is wrong with the contracts at a time

BalancerIds == {id \in DOMAIN Configured : Kind(id) = "balancer-v2"}
SlipstreamIds == {id \in DOMAIN Configured : Kind(id) = "aerodrome-slipstream"}
BalancerPoolIds == UNION {Selectors(id) : id \in BalancerIds}

Fault(what, at) == [what |-> what, at |-> at]

(* What can be wrong: a token without code, the code or the links of a     *)
(* deployment, a Balancer pool not registered as its id says, a Slipstream *)
(* fee module without code or of another factory, a fee discount of the    *)
(* quoting or of the signing account, the code or the routers of the       *)
(* executor.                                                               *)
Faults ==
    {Fault("tokens", None), Fault("executor", None)}
    \cup {Fault("code", id) : id \in DOMAIN Configured}
    \cup {Fault("pool", pool) : pool \in BalancerPoolIds}
    \cup {Fault(what, id) : what \in {"module", "origin", "signer"}, id \in SlipstreamIds}

VARIABLES
    step,            \* where the trade is
    simulator,
    faults,          \* what is wrong with the contracts now
    failed,          \* DeploymentErrors: what did not verify at startup
    badPools,        \* poolErrors of the Balancer quoters
    request,         \* the tolerance, and the route or the split, with its quoted outputs
    effect,          \* what the simulated transaction did; None: nothing is known
    answer,          \* the response, as it reaches the terminal
    altered,         \* it is not the one the engine built
    review           \* the plan to send, or None: refused

vars == <<step, simulator, faults, failed, badPools, request, effect, answer, altered, review>>

-----------------------------------------------------------------------------
(* VerifyDeployments and the verifiers of the providers.                   *)

PoolsAmiss(id) == {pool \in Selectors(id) : Fault("pool", pool) \in faults}

(* A Balancer deployment is good while one of its pools is.                *)
Verifies(id) ==
    /\ faults \cap {Fault("tokens", None), Fault("code", id)} = {}
    /\ id \in BalancerIds => PoolsAmiss(id) # Selectors(id)
    /\ id \in SlipstreamIds => Fault("module", id) \notin faults

(* Every deployment on its own, all at the startup snapshot.               *)
VerifyDeployments ==
    /\ step = "starting"
    /\ failed' = {id \in DOMAIN Configured : ~Verifies(id)}
    /\ badPools' = UNION {PoolsAmiss(id) : id \in BalancerIds}
    /\ step' = "serving"
    /\ UNCHANGED <<simulator, faults, request, effect, answer, altered, review>>

(* GetQuote takes candidates of verified deployments only; a Balancer pool *)
(* that failed is an error, and so is Slipstream when the account it       *)
(* quotes from pays another fee.                                           *)
Quotable(id, legs) ==
    /\ id \notin failed
    /\ id \in BalancerIds => legs[1].value \notin badPools
    /\ id \in SlipstreamIds => Fault("origin", id) \notin faults

(* A pool that gives nothing is no route.                                  *)
AllRoutes ==
    UNION {{Route(id, legs, out) : legs \in Candidates(id), out \in Outputs \ {0}} :
              id \in DOMAIN Configured}

QuotedRoutes == {r \in AllRoutes : Quotable(r.deployment, r.legs)}

SplitsOver(found) ==
    {s \in BoundedSeq([route : {r \in found : Venue(r) # None}, amountIn : Allotments], 2) :
        Admitted(s)}

-----------------------------------------------------------------------------
(* The request and its preparation.                                        *)

OneRoute(bps, route) ==
    [bps |-> bps, route |-> route, allocations |-> <<>>, output |-> route.out]

OneSplit(bps, split) ==
    [bps |-> bps, route |-> None, allocations |-> split, output |-> Aggregate(split)]

RequestsOver(found) ==
    {OneRoute(bps, route) : bps \in SlippageBps, route \in found}
    \cup {OneSplit(bps, split) : bps \in SlippageBps, split \in SplitsOver(found)}

Ask ==
    /\ step = "serving"
    /\ request' \in RequestsOver(QuotedRoutes)
    /\ step' = "asked"
    /\ UNCHANGED <<simulator, faults, failed, badPools, effect, answer, altered, review>>

(* Before the preparation, contracts change.                               *)
Drift ==
    /\ step = "asked"
    /\ \E f \in Faults : faults' = SymDiff(faults, {f})
    /\ Cardinality(faults') <= MaxFaults
    /\ UNCHANGED <<step, simulator, failed, badPools, request, effect, answer, altered, review>>

FrozenFor(r) ==
    [status |-> "REJECTED", recipient |-> Sender, tokenIn |-> TokenIn, tokenOut |-> TokenOut,
     amountIn |-> AmountIn, minimum |-> Minimum(r.output, r.bps),
     deadline |-> Deadline, route |-> r.route, allocations |-> r.allocations,
     transaction |-> None, approvalSpender |-> None, approval |-> None, permission |-> None]

Frozen == FrozenFor(request)

Selected ==
    IF request.route = None THEN request.output <= MaxUint ELSE Supported(request.route)

(* verifyExecutor: the executor has code and the two configured routers.   *)
ExecutorInOrder == Fault("executor", None) \notin faults

(* verifyBalancerPool: the vault knows the pool by its id, and the pool    *)
(* itself agrees.                                                          *)
PoolInOrder(id, pool) == faults \cap {Fault("code", id), Fault("pool", pool)} = {}

(* verifySlipstreamSignerDiscount: the factory's fee module belongs to it  *)
(* and gives the signer no discount.                                       *)
SignerInOrder(id) == faults \cap {Fault("module", id), Fault("signer", id)} = {}

(* Mutant: what held at startup is taken to hold.                          *)
VerifiesNowNot == TRUE

(* executionPlan.verify at the execution block; the kinds without a        *)
(* conjunct have none.                                                     *)
VerifiesNow ==
    IF request.route = None THEN ExecutorInOrder
    ELSE LET id == request.route.deployment IN
         /\ id \in BalancerIds => PoolInOrder(id, request.route.legs[1].value)
         /\ id \in SlipstreamIds => SignerInOrder(id)

AskForApproval(p) ==
    [p EXCEPT !.status = "APPROVAL_REQUIRED", !.approvalSpender = Spender(p),
              !.approval = Transaction(p.recipient, p.tokenIn, Approve(Spender(p), p.amountIn))]

AskForPermission(p) ==
    LET permission == Permission(p)
        call == PermitApprove(permission.token, permission.spender, permission.amount,
                              permission.expiration)
    IN  [p EXCEPT !.status = "APPROVAL_REQUIRED",
                  !.permission = [target |-> permission.target, token |-> permission.token,
                                  spender |-> permission.spender, amount |-> permission.amount,
                                  expiration |-> permission.expiration,
                                  transaction |-> Transaction(p.recipient, permission.target, call)]]

Offer(p) == [p EXCEPT !.status = "READY", !.transaction = SwapTransaction(p)]

(* An absent field is none of the values the engine may put in it.         *)
ASSUME NoneAssumption ==
    /\ None \notin AllRoutes
    /\ \A r \in RequestsOver(AllRoutes) :
          LET p == FrozenFor(r) IN
          /\ None \notin {Offer(p).transaction, AskForApproval(p).approval,
                         AskForPermission(p).permission,
                         AskForPermission(p).permission.transaction,
                         [target |-> Spender(p), spender |-> Target(p)]}
          /\ \A answered \in {Offer(p), AskForApproval(p), AskForPermission(p)} :
                None # PlanFor(answered)

(* A balance that may have changed besides the two, or None.               *)
Strays(p) ==
    LET route == IF p.route = None THEN p.allocations[1].route ELSE p.route
        owners == {Sender, Executor.address, Target(p), Configured[route.deployment].target}
    IN  {None} \cup {Probe(t, o) : t \in Tokens, o \in owners}

(* What a swap may do to the balances the plan touches and to one other.   *)
Effects(p) ==
    [spent : {p.amountIn, p.amountIn - 1}, received : Outputs, odd : Strays(p),
     left : IF p.route = None THEN BOOLEAN ELSE {FALSE}]

Simulates(p, e) ==
    IF simulator = "tenderly" THEN TenderlyPasses(p, Checks(p), e) ELSE AnvilPasses(p, Checks(p), e)

NeedsPermission(p) == p.route # None /\ p.route.provider = "uniswap-v4"

(* The handler from Select to the answer: allowance, then permission, then *)
(* the simulation; any failure is an answer without terms.                 *)
Prepare ==
    /\ step = "asked"
    /\ LET p == Frozen IN
       IF ~(Selected /\ Buildable(p) /\ VerifiesNow)
       THEN step' = "rejected" /\ UNCHANGED <<answer, effect>>
       ELSE \/ step' = "answered" /\ answer' = AskForApproval(p) /\ UNCHANGED effect
            \/ /\ NeedsPermission(p)
               /\ step' = "answered" /\ answer' = AskForPermission(p) /\ UNCHANGED effect
            \/ \E e \in Effects(p) :
                  IF Simulates(p, e)
                  THEN step' = "answered" /\ answer' = Offer(p) /\ effect' = e
                  ELSE step' = "rejected" /\ UNCHANGED <<answer, effect>>
    /\ UNCHANGED <<simulator, faults, failed, badPools, request, altered, review>>

-----------------------------------------------------------------------------
(* The way to the terminal, and the terminal.                              *)

(* One field says something else ...                                       *)
Edits(p) ==
    {[p EXCEPT !.recipient = "other"], [p EXCEPT !.tokenIn = p.tokenOut],
     [p EXCEPT !.amountIn = @ + 1], [p EXCEPT !.minimum = @ - 1], [p EXCEPT !.deadline = @ + 1],
     [p EXCEPT !.approvalSpender = "other"], [p EXCEPT !.status = "READY"]}
    \cup {[p EXCEPT !.tokenOut = t] : t \in Tokens}
    \cup {[p EXCEPT !.transaction = t] : t \in {None, Offer(p).transaction}}
    \cup {[p EXCEPT !.approval = t] : t \in {None, AskForApproval(p).approval}}
    \cup (IF p.route = None
          THEN {[p EXCEPT !.allocations[1].amountIn = @ + 1],
                [p EXCEPT !.allocations[1].route.out = @ + 1],
                [p EXCEPT !.allocations[1].route.block = "later"],
                [p EXCEPT !.allocations[1].route.legs[1].value = 0],
                [p EXCEPT !.allocations = <<@[1], @[1]>>]}
          ELSE {[p EXCEPT !.route.out = @ + 1], [p EXCEPT !.route.legs[1].value = 0],
                [p EXCEPT !.route.legs[1].tokenOut = p.tokenIn]}
               \cup {[p EXCEPT !.route = [@ EXCEPT !.deployment = id, !.provider = Kind(id)]] :
                        id \in DOMAIN Configured})

EditsTo(p, tx) ==
    {[tx EXCEPT !.from = "other"], [tx EXCEPT !.to = "other"], [tx EXCEPT !.value = 1],
     [tx EXCEPT !.chain = "other"], [tx EXCEPT !.data = Approve("other", p.amountIn)],
     [tx EXCEPT !.data = Approve(Spender(p), p.amountIn + 1)]}

(* A call can be built from it.                                            *)
Legible(p) ==
    p.route = None \/ (/\ p.route.legs[1].case = SelectorCase(p.route.provider)
                       /\ p.route.legs[1].value # 0 \/ p.route.provider \in PathKinds)

(* ... of the answer, or of its transaction, or of both: the transaction   *)
(* is built from what was edited.                                          *)
Alterations(p) ==
    Edits(p)
    \cup (IF p.transaction # None
          THEN {[p EXCEPT !.transaction = t] : t \in EditsTo(p, p.transaction)}
               \cup {Offer(q) : q \in {e \in Edits(p) : Legible(e)}}
          ELSE {})
    \cup (IF p.approval # None
          THEN {[p EXCEPT !.approval = t] : t \in EditsTo(p, p.approval)}
               \cup {AskForApproval(q) : q \in Edits(p)}
          ELSE {})
    \cup (IF p.permission # None
          THEN {[p EXCEPT !.permission.transaction = t] : t \in EditsTo(p, p.permission.transaction)}
               \cup {AskForPermission(q) : q \in Edits(p)}
               \cup {[p EXCEPT !.permission.expiration = @ + 1], [p EXCEPT !.permission.amount = @ + 1]}
          ELSE {})

(* Of another transaction the simulation says nothing.                     *)
Alter ==
    /\ step = "answered" /\ ~altered
    /\ answer' \in Alterations(answer) \ {answer}
    /\ altered' = TRUE /\ effect' = None
    /\ UNCHANGED <<step, simulator, faults, failed, badPools, request, review>>

Review ==
    /\ step = "answered"
    /\ review' = IF Accepts(answer, request.bps) THEN PlanFor(answer) ELSE None
    /\ step' = "reviewed"
    /\ UNCHANGED <<simulator, faults, failed, badPools, request, effect, answer, altered>>

Init ==
    /\ step = "starting"
    /\ simulator \in Simulators
    /\ faults \in {f \in SUBSET Faults : Cardinality(f) <= MaxFaults}
    /\ failed = {} /\ badPools = {}
    /\ request = None /\ effect = None /\ answer = None /\ altered = FALSE /\ review = None

Next == VerifyDeployments \/ Ask \/ Drift \/ Prepare \/ Alter \/ Review

Spec == Init /\ [][Next]_vars

-----------------------------------------------------------------------------
(* What a call does, read from its arguments by the contract it is made to.*)

(* The tokens and selectors a call passes through.                         *)
Through(data) ==
    CASE data.call = "multicall" -> data.inner.path
      [] data.call = "exactInputUntil" -> data.path
      [] data.call = "swap" ->
            [tokens |-> <<data.assetIn, data.assetOut>>, selectors |-> <<data.pool>>]
      [] data.call = "execute" ->
            [tokens |-> IF data.zeroForOne THEN <<Currency0(data.key), Currency1(data.key)>>
                        ELSE <<Currency1(data.key), Currency0(data.key)>>,
             selectors |-> <<data.key>>]

(* The path of one part of a call of the executor.                         *)
PathOfPart(data, part) ==
    [tokens |-> <<data.tokenIn>> \o [j \in DOMAIN part.hops |-> part.hops[j].tokenOut],
     selectors |-> [j \in DOMAIN part.hops |-> part.hops[j].fee]]

(* Who is paid, out of what, and until when.                               *)
Payment(tx) ==
    LET data == tx.data IN
    CASE data.call = "multicall" ->
            [payee |-> data.inner.recipient, amountIn |-> data.inner.amountIn,
             minimum |-> data.inner.minimum, deadline |-> data.deadline]
      [] data.call = "exactInputUntil" ->
            [payee |-> data.recipient, amountIn |-> data.amountIn, minimum |-> data.minimum,
             deadline |-> data.deadline]
      [] data.call = "swap" ->
            [payee |-> data.recipient, amountIn |-> data.amount, minimum |-> data.limit,
             deadline |-> data.deadline]
      [] data.call = "execute" ->
            [payee |-> tx.from, amountIn |-> data.amountIn, minimum |-> data.takenLeast,
             deadline |-> data.deadline]
      [] data.call = "executor" ->
            [payee |-> tx.from, amountIn |-> data.amountIn, minimum |-> data.minimum,
             deadline |-> data.deadline]

(* A V4 call settles and takes what its swap moves.                        *)
Consistent(data) ==
    data.call = "execute" =>
        /\ data.settled = Through(data).tokens[1] /\ data.settledMost = data.amountIn
        /\ data.taken = Through(data).tokens[2] /\ data.takenLeast = data.minimum

-----------------------------------------------------------------------------

(* What this engine answers this terminal accepts: the two implementations *)
(* of every provider's terms, in two languages, agree on targets, call     *)
(* data, spenders, permissions and minimums (routers.go:36 and its         *)
(* siblings, execution-policy.ts:109).                                     *)
EngineAndTerminalAgree ==
    (step = "reviewed" /\ ~altered) =>
        /\ review # None
        /\ answer.status = "READY" => review.action = "swap"

(* The route's own deployment, leg by leg the tokens and pools that are    *)
(* displayed, and nothing else; they lead from the displayed input to the  *)
(* displayed output by configured tokens and pools.                        *)
PassesAlong(path, route) ==
    /\ Len(path.tokens) = Len(route.legs) + 1 /\ Len(path.selectors) = Len(route.legs)
    /\ \A i \in DOMAIN route.legs :
          /\ path.tokens[i] = route.legs[i].tokenIn
          /\ path.tokens[i + 1] = route.legs[i].tokenOut
          /\ path.selectors[i] = route.legs[i].value
    /\ path.tokens[1] = answer.tokenIn /\ path.tokens[Len(path.tokens)] = answer.tokenOut
    /\ ToSet(path.tokens) \subseteq Tokens
    /\ ToSet(path.selectors) \subseteq Selectors(route.deployment)

RouteAsDisplayed(tx) ==
    /\ tx.data.call # "executor"
    /\ answer.route.deployment \in DOMAIN Configured
    /\ tx.to = Configured[answer.route.deployment].target
    /\ PassesAlong(Through(tx.data), answer.route)

(* Every part of a split, with its amount, through the router of its own   *)
(* deployment; and the contract does not refuse it.                        *)
SplitAsDisplayed(tx) ==
    LET data == tx.data IN
    /\ data.call = "executor" /\ tx.to = Executor.address
    /\ data.tokenIn = answer.tokenIn /\ data.tokenOut = answer.tokenOut
    /\ Len(data.allocations) = Len(answer.allocations)
    /\ \A i \in DOMAIN answer.allocations :
          LET part == data.allocations[i]
              shown == answer.allocations[i]
          IN  /\ part.amountIn = shown.amountIn
              /\ Router(part.venue) = Configured[shown.route.deployment].target
              /\ PassesAlong(PathOfPart(data, part), shown.route)
    /\ Accepted(PlanOfCall(data))

(* A swap pays its sender, out of the displayed amount, at least the       *)
(* displayed minimum before the displayed deadline, by the displayed route *)
(* or by every part of the displayed split.                                *)
SwapAsDisplayed(tx) ==
    /\ Payment(tx) = [payee |-> Sender, amountIn |-> answer.amountIn,
                      minimum |-> answer.minimum, deadline |-> answer.deadline]
    /\ Consistent(tx.data)
    /\ IF answer.route = None THEN SplitAsDisplayed(tx) ELSE RouteAsDisplayed(tx)

(* An approval gives the spender of the displayed swap exactly its amount  *)
(* of its input: by itself, or at Permit2 until half an hour after the     *)
(* swap's deadline.                                                        *)
ApprovalAsDisplayed(tx) ==
    /\ answer.route # None => answer.route.deployment \in DOMAIN Configured
    /\ tx.data.amount = answer.amountIn
    /\ \/ /\ tx.data.call = "approve" /\ tx.to = answer.tokenIn
          /\ tx.data.spender = Spender(answer)
       \/ /\ tx.data.call = "permit2Approve" /\ tx.to = Spender(answer)
          /\ answer.route # None
          /\ tx.data.token = answer.tokenIn /\ tx.data.spender = Target(answer)
          /\ tx.data.expiration = answer.deadline + 1800
          /\ tx.data.expiration <= MaxUint48

(* Whatever arrived, what is signed is what was displayed: the swap of the *)
(* route and the terms that the user saw, or an approval of as much as it  *)
(* spends (docs/execution.md:15).                                          *)
SignedIsAsDisplayed ==
    (step = "reviewed" /\ review # None) =>
        LET tx == review.transaction IN
        /\ tx.from = Sender /\ tx.chain = Chain /\ tx.value = 0
        /\ IF review.action = "swap" THEN SwapAsDisplayed(tx) ELSE ApprovalAsDisplayed(tx)

(* What was simulated and then happens the same way, to tokens that log    *)
(* every transfer, is confirmed by the receipt: the engine's checks of a   *)
(* plan imply the obligations the terminal derives from it, for every      *)
(* provider (routers.go:53, protocols/v3.ts:86, executor.go:74,            *)
(* protocols/fixed-executor.ts:147).                                       *)
SimulatedMeansConfirmed ==
    (step = "reviewed" /\ ~altered /\ answer.status = "READY") =>
        LET terms == review.receipt
            moved == [h \in terms.unchanged \cup {Held(terms.tokenIn, terms.recipient),
                                                 Held(terms.tokenOut, terms.recipient)} |->
                         Delta(effect, h.token, h.owner)]
        IN  ReceiptPasses(moved, terms) /\ ~effect.left

(* A swap is offered only through contracts that are in order: the         *)
(* deployment verified at startup, and at the block of the preparation so  *)
(* does what may have changed since and is not fixed by its code           *)
(* (slipstream_execution.go:133, balancer_v2.go:272, executor.go:222).     *)
OfferedIsVerified ==
    (step = "answered" /\ ~altered) =>
        IF answer.route = None
        THEN /\ Fault("executor", None) \notin faults
             /\ \A i \in DOMAIN answer.allocations :
                   answer.allocations[i].route.deployment \notin failed
        ELSE LET id == answer.route.deployment IN
             /\ id \notin failed
             /\ id \in BalancerIds =>
                   /\ answer.route.legs[1].value \notin badPools
                   /\ Fault("pool", answer.route.legs[1].value) \notin faults
             /\ id \in SlipstreamIds =>
                   faults \cap {Fault("module", id), Fault("signer", id)} = {}

===============================================================================
