---------------------------- MODULE QuoteSearch ----------------------------
(***************************************************************************)
(* One Handler.GetQuote call: a pool of workers quotes the candidates of   *)
(* every deployment at one block until they are exhausted or the search    *)
(* budget ends, and the handler folds what they send into one QuoteFinal.  *)
(*                                                                         *)
(* Candidates are handed out by searchCandidates.next under a mutex; the   *)
(* results channel is unbuffered, so a worker waits in its send until the  *)
(* handler, which starts all workers first, receives.  The request itself  *)
(* was admitted before; ids of deployments are sorted and failed ones are  *)
(* not among deployments.                                                  *)
(*                                                                         *)
(* All calls are pinned to one block, so what the pools hold is fixed.     *)
(* Any call may fail, and all do once that block is not canonical.         *)
(***************************************************************************)
EXTENDS ProviderQuotes, FiniteSets, TLC

CONSTANTS
    Searches,     \* per search: the kind and the paths, in order, of every
                  \*   admitted deployment, and what the pools on them hold
    Concurrency   \* QuoteConcurrency, config.go requires at least one

ASSUME SearchAssumption ==
    /\ Concurrency \in Nat \ {0}
    /\ \A s \in Searches :
          /\ \A pool \in DOMAIN s.market : s.market[pool] \in Depths \cup {None}
          /\ s.deployments \in Seq([kind : Kinds, paths : Seq(Seq(DOMAIN s.market))])

Workers == 1..Concurrency

VARIABLES
    deployments,  \* of the chain that is searched
    market,       \* what its pools hold
    expired,      \* searchCtx.Err() # nil
    cancelled,    \* ctx.Err() # nil: the caller is gone or its deadline passed
    main,         \* where the handler is
    launched,     \* workers started so far
    sources,      \* searchCandidates.sources: what is left of each
    index,        \* searchCandidates.index
    worker,       \* per worker: where it is, with what
    ordered,      \* what the handler has received, in order of arrival
    origin,       \* per Slipstream deployment: the check its candidates share
    answer,       \* the response
    stored        \* whether saveQuote was called

contexts == <<expired, cancelled>>
queue == <<sources, index>>
config == <<deployments, market>>
chain == <<config, origin>>
vars == <<chain, contexts, main, launched, queue, worker, ordered, answer, stored>>

Late == [kind |-> "search budget expired"]

(* A candidate is its deployment and its place among the paths of that.    *)
Candidates ==
    UNION {{<<i, j>> : j \in DOMAIN deployments[i].paths} : i \in DOMAIN deployments}
Slipstreams == {i \in DOMAIN deployments : deployments[i].kind = "aerodrome-slipstream"}

Kind(c) == deployments[c[1]].kind
Path(c) == deployments[c[1]].paths[c[2]]
QuoteOf(c) == QuotePath(Kind(c), Path(c), market)

-----------------------------------------------------------------------------
(* searchCandidates.next: exhausted sources are dropped on the way.        *)

Left == {i \in DOMAIN sources : sources[i] # <<>>}

FirstLeft == CHOOSE i \in Left : \A j \in Left : i <= j

Remaining == UNION {{sources[i][j] : j \in DOMAIN sources[i]} : i \in DOMAIN sources}

Available == ~expired /\ Left # {}

Idle == [pc |-> "off"]
Exited == [pc |-> "exited"]

(* Mutant: two workers may read the same head of the queue.                *)
TakesNextUnlocked(w) ==
    /\ Available
    /\ worker' = [worker EXCEPT ![w] =
          [pc |-> "quoting", index |-> index, candidate |-> Head(sources[FirstLeft])]]
    /\ \/ sources' = [i \in 1..(Len(sources) - FirstLeft + 1) |->
             IF i = 1 THEN Tail(sources[FirstLeft]) ELSE sources[i + FirstLeft - 1]]
       \/ UNCHANGED sources
    /\ index' = index + 1

TakesNext(w) ==
    /\ Available
    /\ worker' = [worker EXCEPT ![w] =
          [pc |-> "quoting", index |-> index, candidate |-> Head(sources[FirstLeft])]]
    /\ sources' = [i \in 1..(Len(sources) - FirstLeft + 1) |->
                      IF i = 1 THEN Tail(sources[FirstLeft]) ELSE sources[i + FirstLeft - 1]]
    /\ index' = index + 1

(* The budget may end inside next, between its own check and the source's: *)
(* a source that is not exhausted is then dropped like one that is.        *)
FindsNone ==
    /\ ~Available
    /\ \/ expired /\ sources' = sources
       \/ expired /\ Left # {} /\ sources' = SubSeq(sources, FirstLeft + 1, Len(sources))
       \/ ~expired /\ sources' = <<>>
    /\ UNCHANGED index

-----------------------------------------------------------------------------
(* The two contexts.  searchCtx ends with ctx.                             *)

Expire ==
    /\ ~expired /\ answer = None
    /\ expired' = TRUE
    /\ UNCHANGED <<chain, cancelled, main, launched, queue, worker, ordered, answer, stored>>

Cancel ==
    /\ ~cancelled /\ answer = None
    /\ cancelled' = TRUE /\ expired' = TRUE
    /\ UNCHANGED <<chain, main, launched, queue, worker, ordered, answer, stored>>

-----------------------------------------------------------------------------
(* The handler.                                                            *)

Reply(a) == answer' = a /\ main' = "done"

ErrorReply == [error |-> IF cancelled THEN "cancelled"
                         ELSE IF expired THEN "deadline exceeded" ELSE "unavailable"]

TakeSnapshot ==
    /\ main = "snapshot"
    /\ \/ /\ ~expired
          /\ main' = "launching"
          /\ UNCHANGED answer
       \/ Reply(ErrorReply)
    /\ UNCHANGED <<chain, contexts, launched, queue, worker, ordered, stored>>

Launch ==
    /\ main = "launching"
    /\ IF launched < Concurrency
       THEN \/ /\ TakesNext(launched + 1)
               /\ launched' = launched + 1
               /\ UNCHANGED main
            \/ /\ FindsNone
               /\ main' = "draining"
               /\ UNCHANGED <<launched, worker>>
       ELSE main' = "draining" /\ UNCHANGED <<launched, queue, worker>>
    /\ UNCHANGED <<chain, contexts, ordered, answer, stored>>

(* Mutant: a cancelled caller is answered before its workers have ended.   *)
CloseEarly ==
    /\ main = "draining"
    /\ cancelled \/ \A w \in Workers : worker[w] \in {Idle, Exited}
    /\ IF cancelled THEN Reply([error |-> "cancelled"])
                    ELSE main' = "folding" /\ UNCHANGED answer
    /\ UNCHANGED <<chain, contexts, launched, queue, worker, ordered, stored>>

(* Mutant: the wait group counts workers that were never started.          *)
CloseCountsAll ==
    /\ main = "draining"
    /\ \A w \in Workers : worker[w] = Exited
    /\ IF cancelled THEN Reply([error |-> "cancelled"])
                    ELSE main' = "folding" /\ UNCHANGED answer
    /\ UNCHANGED <<chain, contexts, launched, queue, worker, ordered, stored>>

(* The results channel is closed once every started worker has returned;   *)
(* the caller's context is looked at after the last receive.               *)
Close ==
    /\ main = "draining"
    /\ \A w \in Workers : worker[w] \in {Idle, Exited}
    /\ IF cancelled THEN Reply([error |-> "cancelled"])
                    ELSE main' = "folding" /\ UNCHANGED answer
    /\ UNCHANGED <<chain, contexts, launched, queue, worker, ordered, stored>>

(* Mutant: results stay in the order they arrived in.                      *)
Unsorted(items) == SelectSeq(ordered, LAMBDA item : item \in items)

(* sort.Slice: no two items have an index in common.                       *)
Sorted(items) ==
    [k \in 1..Cardinality(items) |->
        CHOOSE item \in items : Cardinality({other \in items : other.index < item.index}) = k - 1]

IsRoute(item) == item.result.kind = "route"

(* Mutant: a candidate the budget cut off leaves no error.                 *)
IsReported(item) == item.result = Failed

IsError(item) == item.result \in {Failed, Late}

(* Routes and errors in candidate order; a missing pool leaves no trace.   *)
Items == {ordered[i] : i \in DOMAIN ordered}
Routes == Sorted({item \in Items : IsRoute(item)})
Errors == Sorted({item \in Items : IsError(item)})

(* The highest output, the first of them when several are equal.           *)
Best(routes) ==
    IF routes = <<>> THEN None
    ELSE routes[CHOOSE i \in DOMAIN routes : \A j \in DOMAIN routes :
                   \/ routes[j].result.output < routes[i].result.output
                   \/ routes[j].result = routes[i].result /\ i <= j].candidate

Fold ==
    /\ main = "folding"
    /\ Reply([routes |-> Routes, errors |-> Errors, best |-> Best(Routes), complete |-> ~expired])
    /\ stored' = TRUE
    /\ UNCHANGED <<chain, contexts, launched, queue, worker, ordered>>

-----------------------------------------------------------------------------
(* A worker.                                                               *)

Item(w, result) ==
    [index |-> worker[w].index, candidate |-> worker[w].candidate, result |-> result]

Deployment(w) == worker[w].candidate[1]

(* checkOrigin.Do: the first candidate of a Slipstream deployment checks   *)
(* that the quote's zero origin has no discount, the others wait for it.   *)
CheckOrigin(w) ==
    /\ worker[w].pc = "quoting" /\ Deployment(w) \in Slipstreams
    /\ origin[Deployment(w)] = "unchecked"
    /\ origin' = [origin EXCEPT ![Deployment(w)] = "checking"]
    /\ worker' = [worker EXCEPT ![w].pc = "checking"]
    /\ UNCHANGED <<config, contexts, main, launched, queue, ordered, answer, stored>>

OriginChecked(w) ==
    /\ worker[w].pc = "checking"
    /\ \E verdict \in {"passed", "failed"} :
          origin' = [origin EXCEPT ![Deployment(w)] = verdict]
    /\ worker' = [worker EXCEPT ![w].pc = "quoting"]
    /\ UNCHANGED <<config, contexts, main, launched, queue, ordered, answer, stored>>

(* Any call of a quote may fail, and a check that failed fails them all.    *)
Results(w) ==
    IF Deployment(w) \notin Slipstreams \/ origin[Deployment(w)] = "passed"
    THEN {Failed, QuoteOf(worker[w].candidate)}
    ELSE {Failed : verdict \in {origin[Deployment(w)]} \cap {"failed"}}

(* Quote returns.  A search that is over makes the result worthless.       *)
QuoteReturns(w) ==
    /\ worker[w].pc = "quoting"
    /\ \E result \in Results(w) :
          worker' = [worker EXCEPT ![w] =
              [pc |-> "sending", item |-> Item(w, IF expired THEN Late ELSE result)]]
    /\ UNCHANGED <<chain, contexts, main, launched, queue, ordered, answer, stored>>

Deliver(w) ==
    /\ worker[w].pc = "sending"
    /\ main = "draining"
    /\ ordered' = Append(ordered, worker[w].item)
    /\ worker' = [worker EXCEPT ![w] =
          IF worker[w].item.result = Late THEN Exited ELSE [pc |-> "asking"]]
    /\ UNCHANGED <<chain, contexts, main, launched, queue, answer, stored>>

Ask(w) ==
    /\ worker[w].pc = "asking"
    /\ \/ TakesNext(w)
       \/ /\ FindsNone
          /\ worker' = [worker EXCEPT ![w] = Exited]
    /\ UNCHANGED <<chain, contexts, main, launched, ordered, answer, stored>>

-----------------------------------------------------------------------------

Init ==
    /\ \E s \in Searches : deployments = s.deployments /\ market = s.market
    /\ origin = [i \in Slipstreams |-> "unchecked"]
    /\ expired = FALSE /\ cancelled = FALSE
    /\ main = "snapshot" /\ launched = 0
    /\ sources = [i \in DOMAIN deployments |-> [j \in DOMAIN deployments[i].paths |-> <<i, j>>]]
    /\ index = 0
    /\ worker = [w \in Workers |-> Idle]
    /\ ordered = <<>>
    /\ answer = None /\ stored = FALSE

Finished == main = "done" /\ UNCHANGED vars

Next ==
    \/ Expire \/ Cancel
    \/ TakeSnapshot \/ Launch \/ Close \/ Fold
    \/ \E w \in Workers :
          CheckOrigin(w) \/ OriginChecked(w) \/ QuoteReturns(w) \/ Deliver(w) \/ Ask(w)
    \/ Finished

Spec == Init /\ [][Next]_vars

(* The scheduler runs every goroutine that can run, the budget's timer     *)
(* fires, and a quote returns once its context has ended: before that it   *)
(* may wait for the chain as long as it likes.                             *)
Fairness ==
    /\ WF_vars(Expire)
    /\ WF_vars(TakeSnapshot /\ expired)
    /\ WF_vars(Launch) /\ WF_vars(Close) /\ WF_vars(Fold)
    /\ \A w \in Workers :
          /\ WF_vars(CheckOrigin(w))
          /\ WF_vars(OriginChecked(w) /\ expired)
          /\ WF_vars(QuoteReturns(w) /\ expired)
          /\ WF_vars(Ask(w))
          /\ WF_vars(Deliver(w))

FairSpec == Spec /\ Fairness

-----------------------------------------------------------------------------

Holding(w) ==
    IF worker[w].pc \in {"quoting", "checking"} THEN {worker[w].candidate}
    ELSE IF worker[w].pc = "sending" THEN {worker[w].item.candidate}
    ELSE {}

Received == {ordered[i].candidate : i \in DOMAIN ordered}

(* A candidate is in exactly one place at any time: still to be handed     *)
(* out, with one worker, or received once.  None is lost when workers      *)
(* exit early, none is quoted twice when two ask at once.                  *)
NothingLostOrDoubled ==
    /\ Candidates = Remaining \cup Received \cup UNION {Holding(w) : w \in Workers}
          \/ expired
    /\ \A w \in Workers : Holding(w) \cap (Remaining \cup Received) = {}
    /\ \A v, w \in Workers : v # w => Holding(v) \cap Holding(w) = {}
    /\ Remaining \cap Received = {}
    /\ \A i, j \in DOMAIN ordered :
          ordered[i].candidate = ordered[j].candidate => i = j

Answered == main = "done" /\ "routes" \in DOMAIN answer

(* The place of a candidate: deployment by deployment.                     *)
Before(c, d) == c[1] < d[1] \/ (c[1] = d[1] /\ c[2] < d[2])
Place(c) == Cardinality({d \in Candidates : Before(d, c)})

(* What a single worker without a budget would return, had the same calls  *)
(* failed.                                                                 *)
ResultOf(c) ==
    IF \E i \in DOMAIN ordered : ordered[i].candidate = c /\ ordered[i].result = Failed
    THEN Failed ELSE QuoteOf(c)

InTurn(cs) ==
    [k \in 1..Cardinality(cs) |->
        LET c == CHOOSE c \in cs : Cardinality({d \in cs : Before(d, c)}) = k - 1
        IN  [index |-> Place(c), candidate |-> c, result |-> ResultOf(c)]]

Sequential ==
    LET routes == InTurn({c \in Candidates : ResultOf(c).kind = "route"})
    IN  [routes |-> routes, errors |-> InTurn({c \in Candidates : ResultOf(c) = Failed}),
         best |-> Best(routes), complete |-> TRUE]

(* search_complete is only claimed when every candidate of every source    *)
(* was quoted and its result is in the answer; and the number of workers   *)
(* and the order they finish in do not show: a complete answer is the      *)
(* sequential one, and so is its best route when two outputs are equal.    *)
ConcurrencyInvisible ==
    (Answered /\ answer.complete) => answer = Sequential

(* A partial answer is a truthful part of the sequential one: its routes   *)
(* are routes of it in the same order, and every candidate that was        *)
(* handed out is accounted for, late ones as errors.                       *)
PartialIsTruthful ==
    Answered =>
        /\ \A i \in DOMAIN answer.routes :
              answer.routes[i].result = QuoteOf(answer.routes[i].candidate)
        /\ \A i, j \in DOMAIN answer.routes :
              i < j => answer.routes[i].index < answer.routes[j].index
        /\ {ordered[i].index : i \in DOMAIN ordered} = 0..(index - 1)
        /\ Len(answer.routes) + Len(answer.errors)
              = Cardinality({i \in DOMAIN ordered : ordered[i].result # Missing})

(* What comes of the path when it is executed: the pools take what they    *)
(* can of what the one before paid.                                        *)
Execution(c) ==
    LET path == Path(c)
        step[n \in 0..Len(path)] ==
          IF n = 0 THEN [whole |-> TRUE, amount |-> AmountIn]
          ELSE LET pool == market[path[n]]
                   before == step[n - 1]
               IN  IF ~before.whole \/ pool = None THEN [whole |-> FALSE, amount |-> 0]
                   ELSE [whole |-> Taken(pool, before.amount) = before.amount,
                         amount |-> Paid(pool, before.amount)]
    IN  step[Len(path)]

Reported(list) == {list[i].candidate : i \in DOMAIN list}

(* An offered route, executed at the block of the quote, spends its whole  *)
(* input at every hop and pays what was quoted, whatever the quoters of    *)
(* the five kinds answer for a pool that runs dry.  And no path that would *)
(* do so goes missing from a complete answer without an error.             *)
RoutesExecute ==
    Answered =>
        /\ \A i \in DOMAIN answer.routes :
              Execution(answer.routes[i].candidate)
                  = [whole |-> TRUE, amount |-> answer.routes[i].result.output]
        /\ answer.complete => \A c \in Candidates :
              \/ c \in Reported(answer.routes) \cup Reported(answer.errors)
              \/ ~Execution(c).whole

(* The handler never returns while a goroutine of its search is left, so   *)
(* none blocks for ever in its send; and only an answer is stored.         *)
NoWorkerLeft ==
    main = "done" =>
        /\ \A w \in Workers : worker[w] \in {Idle, Exited}
        /\ stored <=> Answered

(* Every search ends with an answer or an error.                           *)
SearchEnds == <>(answer # None)

=============================================================================
