# epeius in TLA+

epeius quotes a token swap over five decentralised exchanges, prepares one of the quoted
routes (or a split of the amount over two of them, through its own `Executor` contract) for
execution, and has a local wallet sign what the user confirmed. It never holds keys: the
engine only proposes transactions, the terminal decides whether to sign them, the contract
decides whether to execute them.

This directory models the parts whose correctness depends on the order of steps, on what is
stale when it is used, or on two programs agreeing without sharing code. `MC*.tla` and
`*.cfg` instantiate the modules for TLC, `*Proofs.tla` hold theorems checked by TLAPS,
`PROJECT.json` maps every definition to the lines it stands for and lists runs, mutants,
hazards and findings.

Paths below are relative to the repository; `quote/` is
`services/quote-engine/internal/quote/`, `terminal/` is `apps/terminal/src/`.

## Inventory

### Quote engine (Go)

| Part | State | Operations | Who touches it, and what is hard |
|---|---|---|---|
| Quote store, `quote/store.go` | two maps, 1024 entries each, under one mutex; entries carry an expiry and the approvals observed | `SaveQuote`, `SavePreparation`, `Lookup`, `MarkApproval`, each of which prunes first | Every request, with a clock reading taken before the mutex. A full map evicts the entry that expires first. |
| Execution preparation, `quote/execution.go` | none of its own: copies of a stored quote or preparation | `PrepareExecution`, for a new preparation or to recheck one | Ten network calls between lookup and save; concurrent requests about one quote and rechecks of one preparation; the chain moves and reorganises. |
| Quote search, `quote/handler.go` | per call: worker pool, candidate queue and index under a mutex, unbuffered result channel, two contexts | `GetQuote` | Workers, the handler, the budget timer and the caller race; the answer must not depend on who wins. |
| Candidates, `quote/v3.go`, `slipstream.go` | five counters per iterator | `next` | Nested loops advanced by hand, across calls. |
| Provider quoters, `internal/providers/*/provider.go`, `quote/v3.go`, `slipstream.go`, `v4.go`, `balancer_v2.go` | per search of a Slipstream deployment, one check that its candidates share | `Candidates`, `Quote`, `Requote` | Four kinds of contracts answer differently when a pool is missing or runs dry; the next hop goes on with what was quoted. |
| Strategies, `quote/routers.go`, `calldata.go`, `slipstream_execution.go`, `v4_router.go`, `balancer_v2.go` | deployments and pools that failed verification at startup | `Select`, `Build`, `Verify` | A route is admitted, quoted, built and verified at different times, against contracts some of which can change. |
| Fixed executor, `quote/executor.go` | none | admission of a split, aggregate, call data, simulation checks | Must build only what the contract accepts, and watch exactly what the contract restores. |
| Simulators, `quote/tenderly.go`, `anvil.go` | none | run the swap on the snapshot (a bundle of calls, or one `debug_traceCall` with state overrides) and compare with the plan's checks | Two simulators see different things. |
| Deployment verification, `quote/deployments.go` | `DeploymentErrors` | once at startup | What is verified once may change later. |
| Process and launcher, `cmd/epeius-engine/main.go`, `scripts/engine.ts` | per chain what opening it came to; the readiness line; requests in flight; who was told to stop | open the chains concurrently, serve, shut down; spawn, wait for readiness, stop, kill | Two programs with four timers, signals to either or both, nodes that hang, a process that hangs. |
| RPC client, configuration, `internal/rpc/rpc.go`, `internal/config/` | endpoints, chains | `Open`, `Snapshot`, `Call`, `Canonical`; `ValidateChain` | I/O, parsing. |

### Contracts (Solidity)

`contracts/src/Executor.sol` pulls an exact input, runs one or two routes of at most two
hops through routers it approves for a hop at a time, pays the output, and reverts unless its
own balances of all the tokens it touched are again what they were before. Routers and tokens
are foreign code that runs in the middle of a call. `Seeder` and the test tokens serve the test network only.

### Terminal and scripts (TypeScript)

| Part | State | Operations | What is hard |
|---|---|---|---|
| Trade, `terminal/trade.ts`, `execution-command.ts`, `execution.ts`, `chain.ts`, `receipt.ts` | round, the preparation, the hash sent | quote, prepare, consent, recheck, send once, await the receipt; a further round after an approval | Every step waits for somebody: the user, the engine, the node, the wallet. Terms expire meanwhile; a failed send may have succeeded; receipt and block are two requests. |
| Policy, `terminal/execution-policy.ts`, `protocols/*` | local configuration | encode the expected transaction, compare, derive what the receipt must show | A second implementation of every provider, in another language, against an engine it does not trust. |
| Testnet harness, `scripts/testnet/harness.mjs` | a journal on disk, with the deadline of a position and its token id | plan, then sign, journal, send, confirm a list of writes; restart with the same command | Crash at any point, a node that forgets or is late, reorganisations, an account used elsewhere, pools that others create or initialize, a deadline that only the first run knew. |
| Commands, configuration, output, developer scripts | none | parsing, formatting | Pure functions and I/O. |

### How they interact

The terminal calls the engine (`GetQuote`, then `PrepareExecution` twice: prepare and
recheck by preparation id). The engine's `GetQuote` and `PrepareExecution` meet only in the
store. `PrepareExecution` reads a chain through RPC, asks a strategy for the transaction and
a simulator for its effect. The terminal validates the answer against its own configuration,
has the wallet send it, and reads the same chain. Executor calls end in the contract, which
checks them a third time. Engine and terminal share nothing but the configuration file and
`quote.proto`. The launcher starts the engine with signals and a readiness line on a pipe as
their only contact.

What makes each part correct is listed with its module below; the hazards behind the
properties are the `hazards` of `PROJECT.json`, each at its line.

## Modules

| Module | Models | Composes |
|---|---|---|
| `QuoteStore` | `store.go`: one action per method, values instead of deep copies | |
| `PrepareExecution` | `execution.go`: one action per stretch of code between two awaits, any number of concurrent requests, `GetQuote` as the two moments the store sees, a chain that mines and replaces its head | `QuoteStore` (instance `Store`) |
| `PreparationContract` | abstract: at most one decision per preparation id, made once | refined by `PrepareExecution` |
| `ProviderQuotes` | what the quoters of the five kinds make of a path over pools that are missing, too small or worthless | |
| `QuoteSearch` | `GetQuote` from the budget on: `TakeSnapshot`, `Launch`, worker steps `Ask`, `CheckOrigin`, `OriginChecked`, `QuoteReturns`, `Deliver`, then `Close`, `Fold` | `ProviderQuotes` |
| `ExecutorPlan` | the calldata of `execute` and its validation, shared by contract and engine | |
| `Executor` | `Executor.sol`: one action between any two external calls; `RouterSwaps` is the router's turn | `ExecutorPlan` |
| `RouteCandidates` | the candidate iterators with their counters | |
| `RouteTerms` | the messages, the configuration and the canonical ABIs | `ExecutorPlan` |
| `ExecutorRoutes` | admission of a split, aggregate, call data and simulation checks of the engine | `RouteTerms` |
| `ExecutorPreparation` | a quote's paths, the split a caller asks for, its preparation | `RouteCandidates`, `ExecutorRoutes` |
| `RoutePreparation` | candidates, `Select`, `Build`, the checks and both simulators, for every provider | `ExecutorRoutes` |
| `ExecutionPolicy` | the terminal's encoding, comparison and receipt obligations, for every provider | `RouteTerms` |
| `PreparedTrade` | startup verification, a preparation, an answer that may be altered, the terminal's review, the receipt | `RoutePreparation`, `ExecutionPolicy` |
| `Network` | a transaction pool, a chain with reorganisations, receipts and blocks as a client reads them | |
| `Trade` | the terminal's three commands with up to three rounds | `Network` (instance `Net`) |
| `HarnessJournal` | a command of the harness: its plan, the writes with their journal and receipts, the dated position of seed-v4, crashes and any number of restarts | `Network` (instance `Net`) |
| `EngineProcess` | the engine's `run`, `serve` and `openChains` with the launcher's `startEngine` and `main`; time in seconds | |

### Correspondence with the code

*Granularity.* An action is the code between two awaits, external calls or mutex sections;
all state it changes, the trailing save included, is in that action. An error path is a
disjunct of the action that takes it (`Refuse`, `Stop`, `Revert`), a failing or timed-out
call is `Fail`.

*Abstraction.* Addresses, routes and pools are model values. A call is the record of its
arguments, so that "byte for byte equal" is equality of records. In `PrepareExecution` a
block says per (recipient, spender) whether the allowance covers the amount and until when
the Permit2 permission does: the code compares nothing else. In `Trade` the comparison of
`validatePreparation` is one flag of the answer; `ExecutionPolicy` has its contents. The
instant checks of an answer (expiry, deadline) are in `Trade`, the field checks in
`ExecutionPolicy`. In `PreparedTrade` the preparation is one step; `PrepareExecution` has
its steps. What a router pays out is any member of `Outputs`. In `QuoteSearch` a pool takes some
capacity of an input until its price is at the limit, and pays a rate for what it takes: that is
all the quoters' checks tell apart. It is assumed of the contracts behind them that V3 and
Slipstream quoters report the price they end at, and that the V4 quoter and the Balancer vault
revert when they cannot take the whole input: the code has no check of its own there but that the
vault's first delta is the amount.

*Time.* Clocks are counters, advanced by an action of their own. In `EngineProcess`, which is
about whether timers fit, what waits for nobody takes no time: `Tick` is disabled while `Urgent`,
which names the guards of the prompt steps and is true exactly where one of them is enabled, and
counts the seconds of every running timer. In `QuoteSearch` the handler's sort is defined by rank
(the k-th result is the one with k - 1 smaller indices), as no two results share an index.

*History variables* (`shown`, `typed` and `sent` of `Trade`, `submitted` and `events` of
`HarnessJournal`, `crashed` of `EngineProcess`, the marks in `saved` of `PrepareExecution`) record
what happened for the properties; no action reads them, except that the length of `sent` names the transaction of
the round, the code's `transactionHash`, and that `Elsewhere` looks in `submitted` so as to
happen once.

A clock reading that is taken before the code waits is an input of the later step: a request uses
the one of its arrival (`began`) for its lookup and for the terms it freezes, and `MarkApproval`
prunes with any reading between that arrival and now. (The code takes it after the network call
and before the mutex; the model allows more.)

*Integers.* `Executor` and `ExecutorPlan` keep the caller's amounts modulo `MaxUint + 1`,
because their sum is compared after it may have wrapped. Balances are unbounded: token
supplies stay far below 2^256.

*Mutants.* Operators introduced by a comment that begins with "Mutant:" are not part of any
specification. Each is a plausible bug that a run's property must catch (`PROJECT.json`,
`mutants`).

## Runs

All `pass` runs explore the complete state space of their instance.

| Run | Instance | What it shows | Distinct states |
|---|---|---|---|
| `store` | 3 quotes, 3 preparations, 1 mark, limit 2, retention 2, clock to 4 | `StoreBounded`, `EvictionIsOldestFirst`, `MarksAndExpiryStick`: with stale clock readings and saves over live entries | 22 thousand |
| `prepare` | 2 requests (up to symmetry), one of which may recheck the other's preparation; a Permit2 spender; three blocks, reorganisations; clock to 4 | `ReadyIsCovered`, `MarkedNeverReady`, `OneVerdict`, `PriceAgeBounded`, refinement of `PreparationContract` | 1.0 million |
| `prepare_quote_reuse`, `prepare_one_transaction` | 3 and 2 requests | violations, see Findings | |
| `search` | 2 workers; two V3 and two Slipstream paths with a deployment without paths in between, or two Balancer pools and a V4 pool, with pools missing, better, worthless or too small; any call failing; budget and caller ending at any time | independence of the schedule and completeness, truthfulness of partial answers, `RoutesExecute`, no worker left, termination | 0.6 million |
| `executor` | 4 tokens, 2 callers, 4-bit amounts, thousands of plans, most malformed, taxed transfers, 2 calls | `AllOrExactly`, `DustNeverSpent`, `ApprovedForOneHop` | 3.3 million |
| `executor_preparation` | 4 deployments, 4 tokens, splits of 3 units in two parts, 3-bit amounts | `EveryPathOnce`, `PlanAccepted`, `ChecksMatchPlan` | 0.4 million |
| `prepared_trade` | one deployment of each of the five kinds and the executor, 3 tokens, 3 Balancer pools, 2 V4 keys, one fault at startup and one later, any effect of the simulation, any single field of the answer altered, both simulators | engine and terminal agree, what is signed is what is displayed (the legs of a route, the parts and amounts of a split, the terms, the spender), simulated implies confirmed, offered implies verified | 1.8 million |
| `trade` | 2 quote ids, 3 rounds, 3 blocks with reorganisations, 1 poll per receipt, clock to 2 | consent, expiry, a quote other than that of the round before, boundedness, honest results, canonical verdicts, termination | 0.3 million |
| `trade_approvals` | 1 block, no clock | violation, see Findings | |
| `harness` | the pool creation and initialization of `seed`, or the initialization and the position of `seed-v4`, any number of runs, 1 fault (crash, failed request, late node), 3 blocks with reorganisations, a node that forgets, others who create or initialize, one foreign transaction, a deadline that passes | `WriteAhead`, `NoncesApart`, `VerifiedBeforeNext`, and `Recovers`: the command that is started again is done in the end | 1.5 million |
| `engine` | 1 or 2 chains with nodes that are missing, wrong, fast or slower than any timer, 1 call, the code's own timeouts in seconds, an engine that crashes or hangs, two signals | nothing left behind, the timers fit, a chain's status is its own, calls are cut only after the grace period, by a crash or by the kill of an engine that hangs, startup and shutdown end | 0.7 million |

### Why the bounds are enough to be interesting

* `store`: with limit 2 and 3 identities, eviction, replacement at the limit and pruning all
  happen, in every order; clock 4 is two retention periods.
* `prepare`: a race needs two requests and one quote; a third would recheck twice, which
  `prepare_quote_reuse` has. Three blocks let the allowance appear, disappear and be reorganised;
  clock 4 is two retention periods. The constraint `FewEvents` leaves out that the last block and
  the last tick come in one behaviour. `Expirations` has a permission that is missing and one
  that lasts. The two requests are interchangeable (`SYMMETRY`), and the run has no liveness.
* `search`: two workers and two non-empty deployments around an empty one reach every branch
  of `next`, ties between outputs and a check shared by two candidates included. In paths of two
  pools one pool at a time is odd, which is enough for a second hop with too much, too little or
  nothing; pools that are a path of their own take every combination. `MaxInt256` and
  `MaxUint128` are small enough to be exceeded by a hop's output and met by the input.
* `executor`: four tokens are two hops on two routes with distinct intermediates, the most the
  contract accepts; two calls show what one leaves to the next; 4 bits let sums wrap, to an
  amount that could be pulled.
* `executor_preparation`, `prepared_trade`: two parts and two hops are the code's limits; one
  deployment per kind, and two where a mixup between deployments of one kind matters.
  `MaxUint48` is just the expiration the instance comes to, so that one more is refused.
* `trade`: three rounds are all the code allows; three blocks hold one transaction per round
  or one transaction twice, before and after a reorganisation; one poll, then the limit.
* `harness`: nonces compete between two writes and a foreign transaction. One fault may fall
  between any two steps of any run, and a run that polls in vain stops and is resumed besides,
  as often as it takes; the three safety properties are proved for any number of faults. A third
  block is what a reorganisation needs on top of one block per write. `Window = 0` and one tick
  let the deadline pass at any moment.
* `engine`: the timers have the code's values, 10, 15, 3 and 4 seconds; the nodes' delays lie on
  every side of them, and two chains are enough for one to harm the other.

Clocks and block counts are bounded by `MaxTime`, `MaxBlocks`, `MaxAttempts`, `MaxCalls`,
`MaxFaults` and `MaxRoutes`; every other limit is one the code has (store limit, polls,
rounds, workers). `CHECK_DEADLOCK FALSE` stands where a system ends: all requests answered,
all calls served, a command done, the bounds used up. `search` checks for deadlock: its only
end is an explicit stuttering step when an answer was given.

### Fairness

Safety runs assume none. Four runs check liveness:

* `search`: weak fairness of the budget timer, of the snapshot, each quote and the shared check
  once the contexts have ended (calls are made with the search context, so they return), and of
  every goroutine that can run. Nothing is assumed of a node that does not answer before that.
* `trade`: weak fairness of the unattended steps: the engine's calls end after 25 seconds,
  the node's after 15, the wallet's after 60. Not of the prompt, which waits for the user; so
  the property is that a command ends or waits at its prompt. Not of the chain: nothing need
  ever be mined.
* `harness`: weak fairness of the running process, whose requests end within 60 seconds; of the
  restart, which is what the messages ask of the user; and of a block that takes what the pool
  has. What takes something back (a reorganisation, a node that forgets), a foreign transaction,
  a missed deadline and the bound on blocks are conditions of `Recovers`, not assumptions about
  the code.
* `engine`: weak fairness of what can be done at once (`Prompt`) and of the clock. Not of the
  node that the Anvil simulator asks, of calls in flight, or of the user.

## What is proved

TLC checks the instances above; these theorems hold for every value of the constants that
satisfies the named assumptions of each module.

**`QuoteStoreProofs.StoreStaysBounded`, `EvictsOldestOnly`, `MarksStick`.** Both maps stay
within `StoreLimit`. Pruning only removes; making room before a put leaves at most
`StoreLimit - 1` entries (`PutBounded`); a mark changes no domain. Finiteness of the domains is
part of the invariant (`BoundedInv`) because cardinality needs it. The two action properties
follow step by step from it and from the shape of the entries (`TypedInv`): what a save removes
besides what has expired is one entry that expires first, and only at the limit.

**`PrepareExecutionProofs.TypeCorrect`, `VerdictIsFinal`.** `TypeOK` says what a request holds
at each await. `OneVerdict` is not inductive: it speaks of answers, and an answer is given
from a copy of a preparation taken several network calls earlier. `VerdictInv` ties every
copy, in the store and in a request's locals, to the answer of the request that created the
preparation: the approval flag of the copy is set exactly if that answer asked for an
approval. Since a swap is offered only on a copy without the flag and an approval only on one
with it, all answers about one id agree.

**`PrepareExecutionProofs.PrepareKeepsContract`.** The refinement of `PreparationContract`.
`TermsInv` extends
`VerdictInv` from the flag to the other terms: the plan of a request that has answered is never
touched again, and every copy equals its creator's plan in quote, account, spender, expiry and
deadline. `StepShape` reduces a step of a request to three shapes: it holds nothing afterwards,
it goes on with the terms it had or copied, or it is answered and saved. Only the last can
change the abstract state: a recheck repeats the creator's decision (a stutter), and the
creator is the first to answer for its id (`Decide`).

**`PrepareExecutionProofs.PriceAge`, `ReadyCovered`, `MarkedStaysUnready`.** One invariant,
`SafeInv`, in three parts, each about what a request carries across its awaits. `AgeInv`: a quote
is stored with an expiry one retention period after the search began, and a request arrives
before it; so its plan, and every stored or held copy, ends before the second period does.
`CoverInv`: each check that a request has passed is still true of its snapshot when it answers
(allowance, Permit2 permission, deadline), and terms without an approval have offered none; that
the snapshot is still a block of the chain is the guard of the last step, not part of the property. `MarkInv`: a quote that
is still in the store has all the marks it was looked up with, and a request that looked up a
mark keeps the approval flag it implies.

**`ExecutorProofs.ExecutorTypes`, `ApprovalsAreForOneHop`, `DustIsSafe`,
`CallsAreAllOrExactly`.** `AllOrExactly` compares the balances before and after a whole call.
The invariant follows the money: `CallersInv` gives what each caller holds at every point of a
call by the plan alone, `SelfInv` what the executor holds: its balance before the call plus
what it owes the call (the allocations not yet started, the current hop's input, what was
produced). It needs `AcceptedShape`, what validation guarantees of a plan, and
`TouchedCovers`: the slots the code fills contain every token a router may leave behind.

**`TradeProofs`.** `TradeInv` ties the transactions sent to the place the
command is at: their number is the round (or one more while a receipt is awaited), none
before the last is a swap, what waits at the prompt was validated, what waits at the send was
shown and consented to, and the quote of the round differs from that of the last
transaction. It implies `SignedAsConfirmed`, `SentWhileCurrent`, `FreshQuoteEachRound`,
`BoundedTrade` and `NothingSentIsTrue`. `VerdictsHold` proves the action property
`VerdictsAreCanonical`: the lemmas about `Network` show that a receipt once returned stays a witness, so
that if its block is canonical when it is compared, the transaction is in the chain of that
step with that outcome, whatever was mined or replaced since. That rests on block hashes never
being reused and on a transaction having one place in a chain.

**`HarnessJournalProofs.JournalIsWrittenAhead`, `WritesAreVisible`.** A write is signed only
when the journal has no entry for it, and from the signature on the process works with the
journal's nonce and deadline; so what the network was given is what the journal has. For the
position that takes one more fact: a run that has no journaled position uses the deadline on disk
if there is one, and the deadline is on disk before the entry is (`JournalInv`). `WritesAreVisible` is about the writes that the plan does not leave out
(one that it does is passed on the plan's read alone, see Limits). It
says more than the step of such a write compares: the code looks at one receipt, and the theorem
says that the effects of all writes before it are there, too, also of those the plan left out. `OrderInv` is the reason: on any chain
a transaction succeeds only on top of the effects of the writes before its own, and a replaced
head keeps that, because what others gave is kept only while what it rests on is. With
`WitnessInv`, the harness's use of the same lemmas about `Network`, the receipt's block
being canonical makes its write, and so all before it, visible at that step.

**`HarnessJournalProofs.NoncesStayApart`.** The harness signs with the node's `pending` count,
which is a count and not a memory. `GaplessInv`: the nonces of the pool are the numbers below one
bound, and no journaled nonce exceeds it; blocks take them in order (`PackedInv`), so every
state of the chain counts a prefix of them. `PassedInv`: when a write has a nonce, those before it
were sent or are settled by others, and a run goes past a write only when that is so.
`InOrderInv` follows: a journaled write that was sent has a smaller nonce than a later one. All
three hold as long as nothing was taken back (`Undisturbed`). The proof showed that a forgetful
node is not the only exception: `HarnessJournal` now also records when a reorganisation
takes back what others made (see Limits).

**`EngineProcessProofs.LauncherEndsLast`, `TimersAlwaysFit`, `ChainsAreApart`,
`CallsAreCutLast`.** For any number of chains and calls, any delays of their nodes and any timeouts in the order of the code's (`TimeoutAssumption`:
the check's before the launcher's startup timer, the grace period before its patience).
`StopInv` ties a stop to who sent it; `CheckInv` ties the seconds of the checks to what each
chain's node is like (`ChainFits`), from which its status is its own; `StartupInv` and
`PatienceInv` say that the launcher's timer never runs ahead of the engine's, unless the simulator is probed
or the engine hangs; so the launcher kills only an engine that hangs, never one that is
waiting for its calls. `CutOnlyAfterGrace` has to tell a crash from an exit, which look the same to a
call: `crashed` is set by `Crash` alone (`CrashOnly`). That a tick waits for what is `Urgent` is what makes those two inductive.

**`QuoteSearchProofs`**: `NothingIsLost`, `AllWorkersReturn`, `OfferedRoutesExecute`,
`PartialTruth`, `CompleteIsSequential`. For any number of workers, deployments and paths, pools
of any capacity and rate, any failures and any end of the two contexts. `SourcesInv`: what is left of the
sources is in candidate order. `QueueInv`: what was handed out are the first `index` candidates
of that order, one per index, and while the budget lasts the others are left; this is where
`next` may be called by any worker and by the handler. `ApartInv`: no two workers or results share
a candidate. `ResultInv`: a result carries its candidate's place and the quote of it, a
failure or the mark of the budget. `PoolInv`: a worker that exits while the budget
lasts leaves nothing to do. `AnswerInv`: the response is the sorted results, and claims to be complete
only when all were received in time. That the sort by index lists each result once is the
pigeonhole principle (`Ranking`); and since indices are places, sorting by index is taking the
candidates in turn (`InTurnIsSorted`), which is independence of the schedule.

`OfferedRoutesExecute` compares two walks over the hops of a path, the quoter's and that of an
execution. Both are recursive functions, and the library's induction cannot be used (below); the
module does without: a set of numbers has a least one (`LeastNumber`, from the
well-foundedness of inclusion of intervals, which is first-order), so what holds at zero and passes on
holds up to any number (`UpTo`), and a loop has its values (`Recursion`). Then the two walks agree hop by
hop (`QuoteExecutes`).

**`PreparedTradeProofs`, of `PreparedTrade`**: `OfferedVerified`, `SignedAsDisplayed`,
`AnswersAccepted`, `SimulatedConfirmed`. For any configuration the two programs accept, any
candidate of any provider, any split, tolerance and fault.

* `OfferedVerified`. `OfferInv`: the deployments of a request were good when the engine started,
  because it was quoted from them and what failed at startup is written once; an answer as the
  engine built it was verified again at its block.
* `SignedAsDisplayed`. Of an altered answer only its shape is used (`Shaped`), so the argument is
  about the terminal alone: what `Admits` and `Accepts` let pass determines the
  transaction. `SwapDisplayed` has a case per provider: the tokens and pools of the call are those
  of the displayed legs, one by one (`LegsDisplayed`). For the executor it has one for each part
  (`PartDisplayed`), with its amount and the router the contract takes for its venue, and the
  contract's own validation of what it reads (`ReadCall`). `ApprovalDisplayed` has the approvals:
  their spender is that of the displayed swap.
* `AnswersAccepted`. The converse, of the engine: every route it can quote and every split over
  them is admitted (`RouteAdmitted`, `SplitAdmitted`), the two encoders give the same call
  (`RouteDataAgrees`, `SplitDataAgrees`), name the same contracts (`TargetsAgree`) and the same
  amounts (`AmountsAgree`). The aggregate of a split and its minimum are within a word because
  `Build` refuses them otherwise.
* `SimulatedConfirmed`. Each balance that the terminal wants unchanged is one of those the engine's
  checks preserve (`RouteKept`, `SplitKept`), and both simulators compare at least those
  (`SimulatedAs`).

**`PreparedTradeProofs`, of `ExecutorPreparation`**: `EveryPathTriedOnce`, `BuiltIsAccepted`,
`ChecksFitPlan`. For any deployments, fees and tokens.

* `EveryPathTriedOnce`. The five counters are a place; `Before` is the order of places, `Live` the
  places with a path. `AfterPlace`: `After` is the next place, nothing is between. `PathsDiffer`
  and `PathsArePlaces`: every path there is has one place. `CandidateInv` follows: what was handed out
  are the paths of the places before the iterator's, each once. The counters of a direct path are at their
  start, which the loop relies on and nothing in it states (`PlaceOK`).
* `BuiltIsAccepted`. `SplitInv`: the call is of the parts that were admitted, with other outputs.
  `CallAccepted` then has Solidity's `validate` from Go's `admitAllocations` one condition at a
  time. One of them the Go code does not check: that an intermediate is neither end of its path.
  It holds of every path the iterator hands out (`LegsOfPath`), which is why the paths are part of
  the invariant.
* `ChecksFitPlan`. Both sides are the tokens of the legs: of the plan by the slots the contract
  fills (`TouchedTokens`), of the checks by the legs the engine walks (`Watched`, `PassedAre`).

Sums over a split have one or two terms and paths one or two legs, which are limits of the code:
so nothing here needs induction, and the sums are written as recursive functions whose values
at one and two are lemmas (`SumOfOne`, `SumOfTwo`).

Assumptions: each module's named `ASSUME`s, which TLC evaluates on every run: types of the
constants, and that `None` is none of the values it is compared with. Four are more than that.
`ExpirationAssumption`: a block's time leaves a Permit2 expiration below 2^48, which the terminal
checks and the engine does not (`terminal/execution-policy.ts:209`).
`QuotesAssumption`: a quote fits 256 bits and a tolerance is below 10000 basis points, which the
code checks (`quote/v3.go:54`, `quote/execution.go:42`). `ConfigurationAssumption` is what
`ValidateChain` guarantees. `PreparationAssumption` has the sender differ from the executor: the
terminal's sender is the account of a key, the executor a contract. The engine has no such check;
asked for the executor itself it would leave the executor's own input and output balance out of
what the simulation watches. `PreparedTradeProofs` extends `PreparedTrade` and
`ExecutorPreparation`, which share their helpers; each theorem is about one of the two
specifications.

### Model-checked only

* Liveness (`SearchEnds`, `EndsOrWaits`, `Recovers`, `Settles`): TLAPS 1.4.5 does not reason about
  `ENABLED`.

Every other property of a passing run is a theorem.

Type invariants are stated where a proof rests on them (`PrepareExecution`, `Executor`); they are
theorems (`TypeCorrect`, `ExecutorTypes`) and no run repeats them.

## Findings

Three runs end in a violation: the code differs from what a comment or a document says.

* `prepare_quote_reuse`: `quote/store.go:109` says that a quote that needed approval must never
  become an executable swap later. A request that marked the quote while the allowance
  sufficed, and is still in its simulation when a second request observes the need, is
  answered READY after the second was told to approve. What holds, and is checked, is
  `MarkedNeverReady`: whoever looks the quote up after the mark never gets a swap.
* `prepare_one_transaction`: `quote/execution.go:174` says that one quote may authorize only one
  transaction. The guard below it covers an approval followed by Permit2, not the other order:
  a preparation saved with a Permit2 grant whose allowance has since fallen short is answered
  with both. The terminal refuses such an answer.
* `trade_approvals`: `docs/terminal.md:118` says that the flow stops if the fresh route needs
  another approval. The code allows a Permit2 permission in the second round;
  `docs/providers/uniswap-v4.md` and the help text describe the code.

## Limits worth knowing

* `FreshQuoteEachRound` compares a transaction with the one directly before it, because
  `runTrade` remembers the quote id of one round only (`trade.ts:25,30,56`). An engine that
  answers three rounds with the ids q1, q2, q1 has the terminal approve the token on q1, approve
  Permit2 on q2 and execute the swap on q1, although `execution.ts:258` and
  `docs/execution.md:94` say that an old quote is never executed after an approval. This engine
  does not: `quote/handler.go:132` draws ids at random. The terminal relies on that.
* `NoncesApart` holds while no node forgets a transaction. Once one does, `pending` counts less
  than was sent, and a later write may take a nonce an earlier one was signed with; the earlier
  one then stops the command ("Nonce used by another transaction"). It also excepts a
  reorganisation that takes back a pool which others had made: a write that was journaled, not
  sent, and then left to them is sent after all with its old nonce, when a later write has had
  one.
* A write that the harness's plan leaves out is passed without another look. When a
  reorganisation undoes what the plan read, the command may go on past it; `VerifiedBeforeNext`
  shows that the next planned write is not passed then, but after the last of them nothing
  looks again.
* The harness stops for good when a journaled receipt moved to another block ("Receipt
  changed"); `VerifiedBeforeNext` shows that it never goes on instead.
* A node that forgets the initialization of a V4 pool after a reorganisation leaves a command
  whose position is journaled with nothing to do: it stops at "Journaled Uniswap V4 pool is not
  initialized" in every run. A deadline that was saved and has passed before the position was
  journaled makes every later estimate fail. `docs/testnet.md:111` says to restart the identical
  command; `Recovers` has the conditions under which that helps.
* `seed` takes a pool that somebody else initialized at whatever price it has; `seed-v4`
  compares. The model tells prices apart no further than that.
* The harness's approvals are planned writes, like pool creation, and left out of the instance. An
  approval that is journaled is not repeated when its allowance was used up since.
* The launcher's 15 seconds may end after the readiness line was written, when the Anvil simulator
  was slow: it then returns as ready an engine it has told to stop. `TimersFit` excepts the
  simulator. A launcher that is itself killed leaves an engine behind; killed by a second signal, an
  engine that was told to stop (`NothingLeftBehind`).
* `prepared_trade` has first preparations. A recheck's answer may carry an approval next to a grant
  (`prepare_one_transaction`); the terminal refuses that one, and `EngineAndTerminalAgree` does
  not speak of it.
* Uniswap V4 quotes are not checked for a price limit; see the assumption on quoters above.
* The Anvil simulator refuses every plan that asks for cleared allowances, which is every
  executor plan; `RoutePreparation` has that refusal.
* `SimulatedMeansConfirmed` assumes tokens that log every transfer truthfully, as the terminal
  does.
* Permit2's and the router's immutables are verified at startup only; `OfferedIsVerified` is about what the
  code verifies again when it builds.
* A trade persists nothing: a terminal that is killed after the send leaves the hash it printed
  and no more (a hazard without a property).

## Not modelled

* URL rules of the RPC client; parsing of TOML, addresses and ranges. `RouteTerms` assumes what
  validation guarantees.
* Price arithmetic of pools and ABI decoding.
* Request validation of `GetQuote`, and `GetStatus`: they change no state.
* The engine's exit texts and forwarded output; flags.
* The harness's profile loading, deployment checks, dry runs, price arithmetic and generated
  configuration; which token id a receipt names when its block is replaced afterwards.
* `Seeder` and test token contracts, generated protocol code, argument parsing, formatting,
  developer scripts other than the launcher.

## Plan

Done, in this order, most important behaviour first: the store and `PrepareExecution` with its
contract; `QuoteSearch`; `Executor` and its proofs; `Trade`, `HarnessJournal` over `Network`; the
route modules up to `PreparedTrade`; the proofs of `Trade` and `HarnessJournal`; the proof that
`PrepareExecution` implements `PreparationContract`; `EngineProcess`; the harness's plans,
deadlines and recovery, and their proofs; `ProviderQuotes` under `QuoteSearch`; the remaining
safety properties of every part as theorems, `PreparedTrade` and `ExecutorPreparation` last.

Left:

1. An abstract trade (approvals, then at most one swap, each consented to) that `Trade` and
   `PreparedTrade` together implement.
2. The `Seeder` callback and its guard.
