------------------------- MODULE QuoteSearchProofs -------------------------
(***************************************************************************)
(* What holds of every GetQuote search, for any number of workers, any     *)
(* deployments and paths, any pools and any failures: no candidate is lost *)
(* or quoted twice, no goroutine outlives the call, a complete answer is   *)
(* the one a single worker would give, a partial one is a part of it, and  *)
(* the routes it offers pay what they promise when they are executed.      *)
(*                                                                         *)
(* The invariant IInv has these parts.  SourcesInv: what is left of the    *)
(* sources is in candidate order.  QueueInv: the candidates that were      *)
(* handed out are the first index of that order, and while the budget      *)
(* lasts the others are still to be handed out.  ApartInv: no two workers  *)
(* and no two results share one.  ResultInv: a result carries the place of *)
(* its candidate, and what the quoter of its kind says of it.  PoolInv: a  *)
(* worker leaves early only when nothing is left or the budget has ended.  *)
(* AnswerInv: the response is the sorted results.                          *)
(***************************************************************************)
EXTENDS QuoteSearch, FiniteSetTheorems, SequenceTheorems, WellFoundedInduction, TLAPS

-----------------------------------------------------------------------------
(* Numbers, iterations and ranks.                                          *)

(* A set of numbers has a least one: the intervals up to its members are   *)
(* well-founded under inclusion.                                           *)
LEMMA LeastNumber ==
    ASSUME NEW T \in SUBSET Nat, T # {}
    PROVE  \E n \in T : \A m \in T : n <= m
<1>. DEFINE intervals == {0..n : n \in T}
<1>1. ASSUME NEW n \in T PROVE 0..n \in FiniteSubsetsOf(Nat)
  <2>1. IsFiniteSet(0..n)
    BY FS_Interval
  <2>. QED BY <2>1 DEF FiniteSubsetsOf
<1>2. intervals \subseteq FiniteSubsetsOf(Nat) /\ intervals # {}
  BY <1>1
<1>3. PICK i \in intervals : \A j \in intervals : ~(<<j, i>> \in StrictSubsetOrdering(Nat))
  <2>. HIDE DEF intervals
  <2>. QED BY <1>2, FS_StrictSubsetOrderingWellFounded, WFMin
<1>4. PICK n \in T : i = 0..n
  OBVIOUS
<1>5. ASSUME NEW m \in T, m < n PROVE FALSE
  <2>1. 0..m \in SUBSET Nat /\ 0..n \in SUBSET Nat /\ 0..m \in intervals
    BY <1>5
  <2>2. 0..m \subseteq 0..n /\ 0..m # 0..n
    <3>1. n \in 0..n /\ n \notin 0..m
      BY <1>5
    <3>. QED BY <1>5, <3>1
  <2>3. <<0..m, 0..n>> \in StrictSubsetOrdering(Nat)
    BY <2>1, <2>2 DEF StrictSubsetOrdering
  <2>. QED
    BY <1>3, <1>4, <2>1, <2>3
<1>6. \A m \in T : n <= m
  <2>. HIDE DEF intervals
  <2>1. \A m \in T : ~(m < n)
    BY <1>5
  <2>. QED BY <2>1
<1>. QED
  <2>. HIDE DEF intervals
  <2>. QED BY <1>4, <1>6

(* What holds at zero and passes from each number to the next holds of     *)
(* all of them: else there were a least one it does not hold of.           *)
LEMMA UpTo ==
    ASSUME NEW L \in Nat, NEW S, 0 \in S,
           \A n \in 1..L : n - 1 \in S => n \in S
    PROVE  0..L \subseteq S
<1>. DEFINE T == {n \in 0..L : n \notin S}
<1>. SUFFICES ASSUME T # {} PROVE FALSE
  OBVIOUS
<1>1. PICK n \in T : \A m \in T : n <= m
  <2>1. T \in SUBSET Nat
    OBVIOUS
  <2>. HIDE DEF T
  <2>. QED BY <2>1, LeastNumber
<1>2. n \in 1..L /\ n - 1 \in 0..L /\ ~(n <= n - 1)
  BY <1>1
<1>. QED
  BY <1>1, <1>2

(* The values a loop over L steps goes through, G[n] being its n-th step.  *)
Iterates(V, first, L, G, f) ==
    /\ f \in [0..L -> V]
    /\ f[0] = first
    /\ \A n \in 1..L : f[n] = G[n][f[n - 1]]

(* Such a loop has a value after every step.  It gives the quoters' and    *)
(* the execution's walk over the hops of a path.                           *)
LEMMA Recursion ==
    ASSUME NEW V, NEW first \in V, NEW L \in Nat, NEW G \in [1..L -> [V -> V]]
    PROVE  \E f : Iterates(V, first, L, G, f)
<1>. DEFINE S == {m \in 0..L : \E f \in [0..m -> V] :
                     f[0] = first /\ \A n \in 1..m : f[n] = G[n][f[n - 1]]}
<1>1. 0 \in S
  <2>. DEFINE f == [n \in 0..0 |-> first]
  <2>1. f \in [0..0 -> V] /\ f[0] = first /\ 1..0 = {}
    OBVIOUS
  <2>. HIDE DEF f
  <2>. QED BY <2>1
<1>2. ASSUME NEW m \in 1..L, m - 1 \in S PROVE m \in S
  <2>1. PICK f \in [0..(m - 1) -> V] :
            f[0] = first /\ \A n \in 1..(m - 1) : f[n] = G[n][f[n - 1]]
    BY <1>2
  <2>2. PICK v \in V : v = G[m][f[m - 1]]
    BY DEF S
  <2>. DEFINE g == [n \in 0..m |-> IF n = m THEN v ELSE f[n]]
  <2>3. g \in [0..m -> V]
    <3>1. ASSUME NEW n \in 0..m PROVE (IF n = m THEN v ELSE f[n]) \in V
      OBVIOUS
    <3>. QED BY <3>1
  <2>4. g[0] = first /\ g[m] = v /\ g[m - 1] = f[m - 1]
    BY <2>1
  <2>5. ASSUME NEW n \in 1..m, n # m PROVE g[n] = f[n] /\ g[n - 1] = f[n - 1] /\ n \in 1..(m - 1)
    BY <2>5
  <2>6. \A n \in 1..m : g[n] = G[n][g[n - 1]]
    <3>. HIDE DEF g
    <3>. QED BY <2>1, <2>2, <2>4, <2>5
  <2>. HIDE DEF g
  <2>7. \E h \in [0..m -> V] : h[0] = first /\ \A n \in 1..m : h[n] = G[n][h[n - 1]]
    BY <2>3, <2>4, <2>6
  <2>8. m \in 0..L
    BY <1>2
  <2>. QED BY <2>7, <2>8
<1>3. L \in S
  <2>. HIDE DEF S
  <2>1. 0..L \subseteq S
    BY <1>1, <1>2, UpTo
  <2>. QED BY <2>1
<1>. QED
  BY <1>3 DEF Iterates

(* rank is the number of members with a smaller key.                       *)
Ranks(S, key, rank) == \A x \in S : rank[x] = Cardinality({y \in S : key[y] < key[x]})

(* When the keys of a finite set differ, so do the ranks, and they are the *)
(* numbers below its size: the pigeonhole principle.  It is what makes the *)
(* sort of results by index a list of all of them.                         *)
LEMMA Ranking ==
    ASSUME NEW S, IsFiniteSet(S), NEW key \in [S -> Nat],
           \A x, y \in S : key[x] = key[y] => x = y,
           NEW rank, Ranks(S, key, rank)
    PROVE  /\ \A k \in 1..Cardinality(S) : \E x \in S :
                 rank[x] = k - 1 /\ \A z \in S : rank[z] = k - 1 => z = x
           /\ \A x \in S : \E k \in 1..Cardinality(S) : rank[x] = k - 1
<1>. DEFINE Below(x) == {y \in S : key[y] < key[x]}
            n == Cardinality(S)
            next == [x \in S |-> rank[x] + 1]
<1>1. n \in Nat
  BY FS_CardinalityType
<1>2. ASSUME NEW x \in S
      PROVE  IsFiniteSet(Below(x)) /\ rank[x] = Cardinality(Below(x)) /\ rank[x] \in Nat /\ rank[x] < n
  <2>1. Below(x) \in SUBSET S /\ x \notin Below(x) /\ rank[x] = Cardinality(Below(x))
    BY DEF Ranks
  <2>. HIDE DEF Below
  <2>2. IsFiniteSet(Below(x)) /\ Cardinality(Below(x)) <= n /\ Cardinality(Below(x)) # n
    BY <2>1, FS_Subset
  <2>. QED BY <1>1, <2>1, <2>2, FS_CardinalityType
<1>3. ASSUME NEW x \in S, NEW y \in S, key[x] < key[y]
      PROVE  rank[x] < rank[y]
  <2>1. Below(x) \in SUBSET Below(y) /\ Below(x) # Below(y)
    <3>1. x \in Below(y) /\ x \notin Below(x)
      BY <1>3
    <3>2. ASSUME NEW z \in Below(x) PROVE z \in Below(y)
      BY <1>3
    <3>. QED BY <3>1, <3>2
  <2>. HIDE DEF Below
  <2>2. Cardinality(Below(x)) <= Cardinality(Below(y)) /\ Cardinality(Below(x)) # Cardinality(Below(y))
    BY <1>2, <2>1, FS_Subset
  <2>. QED BY <1>2, <2>2
<1>. HIDE DEF Below, n
<1>4. ASSUME NEW x \in S, NEW y \in S, rank[x] = rank[y]
      PROVE  x = y
  <2>1. ~(key[x] < key[y]) /\ ~(key[y] < key[x])
    BY <1>2, <1>3, <1>4
  <2>. QED BY <2>1
<1>5. next \in Injection(S, 1..n)
  <2>1. ASSUME NEW x \in S PROVE next[x] \in 1..n /\ next[x] = rank[x] + 1
    BY <1>1, <1>2
  <2>2. ASSUME NEW x \in S, NEW y \in S, next[x] = next[y] PROVE x = y
    BY <1>2, <1>4, <2>1, <2>2
  <2>. QED BY <2>1, <2>2 DEF Injection, IsInjective
<1>6. IsFiniteSet(1..n) /\ Cardinality(1..n) = n
  BY <1>1, FS_Interval
<1>7. next \in Surjection(S, 1..n)
  <2>. HIDE DEF next
  <2>. QED BY <1>5, <1>6, FS_Injection DEF n
<1>8. ASSUME NEW k \in 1..n
      PROVE  \E x \in S : rank[x] = k - 1 /\ \A z \in S : rank[z] = k - 1 => z = x
  <2>1. PICK x \in S : next[x] = k
    <3>. HIDE DEF next
    <3>. QED BY <1>7 DEF Surjection
  <2>2. rank[x] = k - 1
    BY <1>2, <2>1
  <2>. QED BY <1>4, <2>2
<1>9. ASSUME NEW x \in S PROVE \E k \in 1..n : rank[x] = k - 1
  <2>1. rank[x] + 1 \in 1..n /\ rank[x] = (rank[x] + 1) - 1
    BY <1>1, <1>2
  <2>. QED BY <2>1
<1>. QED
  BY <1>8, <1>9 DEF n

-----------------------------------------------------------------------------
(* Quoting a path hop by hop, and executing it.                            *)

(* What a quoter returns.                                                  *)
Answers == {Failed, Missing} \cup [kind : {"route"}, output : Nat]

(* What a pool takes and pays are amounts.                                 *)
LEMMA PoolPays ==
    ASSUME NEW pool \in Depths, NEW x \in Nat
    PROVE  Taken(pool, x) \in Nat /\ Paid(pool, x) \in Nat
<1>1. Taken(pool, x) \in Nat /\ pool.rate \in Nat
  BY DEF Depths, Taken
<1>. QED
  BY <1>1 DEF Paid

(* A hop is quoted only by a pool that takes all of the input, and at what *)
(* that pool pays; it is missing only when there is no pool.               *)
LEMMA HopAnswers ==
    ASSUME NEW kind \in Kinds, NEW pool \in Depths \cup {None}, NEW x \in Nat
    PROVE  /\ QuoteHop(kind, pool, x) \in Answers
           /\ QuoteHop(kind, pool, x).kind = "route" =>
                 /\ pool \in Depths /\ pool # None
                 /\ Taken(pool, x) = x
                 /\ QuoteHop(kind, pool, x) = Found(Paid(pool, x))
           /\ QuoteHop(kind, pool, x) = Missing => pool = None
<1>1. CASE pool = None
  BY <1>1, QuotesAssumption DEF QuoteHop, Kinds, QuoteV3, QuoteSlipstream, QuoteV4, QuoteBalancer, Answers, Missing, Failed
<1>2. CASE pool # None
  <2>1. pool \in Depths /\ Paid(pool, x) \in Nat
    BY <1>2, PoolPays
  <2>2. ~AtLimit(pool, x) \/ ~Reverts(pool, x) => Taken(pool, x) = x
    BY <2>1 DEF Depths, AtLimit, Reverts, Taken
  <2>3. \/ QuoteHop(kind, pool, x) = Failed
        \/ QuoteHop(kind, pool, x) = Found(Paid(pool, x)) /\ (~AtLimit(pool, x) \/ ~Reverts(pool, x))
    BY <1>2 DEF QuoteHop, Kinds, QuoteV3, QuoteSlipstream, QuoteV4, QuoteBalancer
  <2>. HIDE DEF QuoteHop
  <2>. QED
    BY <1>2, <2>1, <2>2, <2>3 DEF Answers, Missing, Failed, Found
<1>. QED
  BY <1>1, <1>2

(* The answers along a path, as QuotePath goes through them.               *)
Hops(kind, path, pools, hop) ==
    /\ hop \in [0..Len(path) -> Answers]
    /\ hop[0] = Found(AmountIn)
    /\ \A n \in 1..Len(path) :
          hop[n] = IF hop[n - 1].kind # "route" THEN hop[n - 1]
                   ELSE QuoteHop(kind, pools[path[n]], hop[n - 1].output)

(* QuotePath is the last of them.                                          *)
LEMMA QuoteIsLastHop ==
    ASSUME NEW kind \in Kinds, NEW pools, \A p \in DOMAIN pools : pools[p] \in Depths \cup {None},
           NEW path \in Seq(DOMAIN pools)
    PROVE  \E hop : Hops(kind, path, pools, hop) /\ QuotePath(kind, path, pools) = hop[Len(path)]
<1>. DEFINE L == Len(path)
            Then(n, v) == IF v.kind # "route" THEN v ELSE QuoteHop(kind, pools[path[n]], v.output)
            G == [n \in 1..L |-> [v \in Answers |-> Then(n, v)]]
<1>1. L \in Nat /\ \A n \in 1..L : pools[path[n]] \in Depths \cup {None}
  OBVIOUS
<1>2. Found(AmountIn) \in Answers
  BY QuotesAssumption DEF Found, Answers
<1>3. ASSUME NEW n \in 1..L, NEW v \in Answers PROVE Then(n, v) \in Answers
  <2>1. v.kind = "route" => v.output \in Nat
    BY DEF Answers, Failed, Missing
  <2>. HIDE DEF Answers
  <2>. QED BY <1>1, <1>3, <2>1, HopAnswers
<1>4. G \in [1..L -> [Answers -> Answers]]
  <2>. HIDE DEF Then, L
  <2>. QED BY <1>3
<1>5. PICK f \in [0..L -> Answers] : f[0] = Found(AmountIn) /\ \A n \in 1..L : f[n] = G[n][f[n - 1]]
  <2>. HIDE DEF G, L, Then
  <2>1. PICK f : Iterates(Answers, Found(AmountIn), L, G, f)
    BY <1>1, <1>2, <1>4, Recursion
  <2>. QED BY <2>1 DEF Iterates
<1>6. ASSUME NEW n \in 1..L PROVE f[n] = Then(n, f[n - 1]) /\ f[n - 1] \in Answers
  <2>1. n - 1 \in 0..L
    BY <1>1
  <2>2. f[n - 1] \in Answers
    BY <2>1, <1>5
  <2>. HIDE DEF Then, L, Answers
  <2>. QED BY <1>5, <2>2
<1>. DEFINE hop[n \in 0..L] ==
       IF n = 0 THEN Found(AmountIn)
       ELSE IF hop[n - 1].kind # "route" THEN hop[n - 1]
       ELSE QuoteHop(kind, pools[path[n]], hop[n - 1].output)
<1>7. f = [n \in 0..L |-> IF n = 0 THEN Found(AmountIn) ELSE Then(n, f[n - 1])]
  <2>1. \A n \in 0..L : n # 0 => n \in 1..L
    BY <1>1
  <2>. HIDE DEF Then, L, G
  <2>. QED BY <1>5, <1>6, <2>1
<1>8. hop = [n \in 0..L |-> IF n = 0 THEN Found(AmountIn) ELSE Then(n, hop[n - 1])]
  BY <1>7
<1>9. QuotePath(kind, path, pools) = hop[L]
  BY DEF QuotePath
<1>10. \A n \in 0..L : hop[n] = f[n]
  <2>. DEFINE S == {n \in 0..L : hop[n] = f[n]}
  <2>. HIDE DEF hop, L, Then, G
  <2>1. 0 \in S
    BY <1>1, <1>5, <1>8
  <2>2. ASSUME NEW n \in 1..L, n - 1 \in S PROVE n \in S
    <3>1. n \in 0..L /\ n # 0 /\ hop[n - 1] = f[n - 1]
      BY <2>2, <1>1
    <3>2. hop[n] = Then(n, hop[n - 1])
      BY <3>1, <1>8
    <3>. QED BY <3>1, <3>2, <1>6
  <2>3. 0..L \subseteq S
    <3>. HIDE DEF S
    <3>. QED BY <1>1, <2>1, <2>2, UpTo
  <2>. QED BY <2>3
<1>11. Hops(kind, path, pools, f)
  <2>. HIDE DEF hop, G
  <2>. QED BY <1>5, <1>6 DEF Hops
<1>12. L \in 0..L
  BY <1>1
<1>. QED
  <2>. HIDE DEF hop, G
  <2>. QED BY <1>9, <1>10, <1>11, <1>12

(* What can have come of an execution so far.                              *)
Ends == [whole : BOOLEAN, amount : Nat]

(* The swaps along a path, as Execution goes through them.                 *)
Steps(path, pools, step) ==
    /\ step \in [0..Len(path) -> Ends]
    /\ step[0] = [whole |-> TRUE, amount |-> AmountIn]
    /\ \A n \in 1..Len(path) :
          step[n] = IF ~step[n - 1].whole \/ pools[path[n]] = None
                    THEN [whole |-> FALSE, amount |-> 0]
                    ELSE [whole |-> Taken(pools[path[n]], step[n - 1].amount) = step[n - 1].amount,
                          amount |-> Paid(pools[path[n]], step[n - 1].amount)]

PoolsAreTyped == \A p \in DOMAIN market : market[p] \in Depths \cup {None}

(* Execution is the last of them.                                          *)
LEMMA ExecutionIsLastStep ==
    ASSUME NEW c, PoolsAreTyped, Path(c) \in Seq(DOMAIN market)
    PROVE  \E step : Steps(Path(c), market, step) /\ Execution(c) = step[Len(Path(c))]
<1>. DEFINE L == Len(Path(c))
            Pool(n) == market[Path(c)[n]]
            Then(n, v) == IF ~v.whole \/ Pool(n) = None
                          THEN [whole |-> FALSE, amount |-> 0]
                          ELSE [whole |-> Taken(Pool(n), v.amount) = v.amount,
                                amount |-> Paid(Pool(n), v.amount)]
            G == [n \in 1..L |-> [v \in Ends |-> Then(n, v)]]
<1>1. L \in Nat /\ \A n \in 1..L : Pool(n) \in Depths \cup {None}
  BY DEF PoolsAreTyped
<1>2. [whole |-> TRUE, amount |-> AmountIn] \in Ends
  BY QuotesAssumption DEF Ends
<1>3. ASSUME NEW n \in 1..L, NEW v \in Ends PROVE Then(n, v) \in Ends
  <2>1. v.amount \in Nat /\ v.whole \in BOOLEAN
    BY DEF Ends
  <2>2. Pool(n) # None => Paid(Pool(n), v.amount) \in Nat
    <3>. HIDE DEF Pool, L
    <3>. QED BY <1>1, <1>3, <2>1, PoolPays
  <2>. HIDE DEF Pool, L
  <2>. QED BY <2>1, <2>2 DEF Ends
<1>4. G \in [1..L -> [Ends -> Ends]]
  <2>. HIDE DEF Then, L
  <2>. QED BY <1>3
<1>5. PICK f \in [0..L -> Ends] : /\ f[0] = [whole |-> TRUE, amount |-> AmountIn]
                                  /\ \A n \in 1..L : f[n] = G[n][f[n - 1]]
  <2>. HIDE DEF G, L, Then
  <2>1. PICK f : Iterates(Ends, [whole |-> TRUE, amount |-> AmountIn], L, G, f)
    BY <1>1, <1>2, <1>4, Recursion
  <2>. QED BY <2>1 DEF Iterates
<1>6. ASSUME NEW n \in 1..L PROVE f[n] = Then(n, f[n - 1]) /\ f[n - 1] \in Ends
  <2>1. n - 1 \in 0..L
    BY <1>1
  <2>2. f[n - 1] \in Ends
    BY <2>1, <1>5
  <2>. HIDE DEF Then, L, Ends
  <2>. QED BY <1>5, <2>2
<1>. DEFINE step[n \in 0..L] ==
       IF n = 0 THEN [whole |-> TRUE, amount |-> AmountIn]
       ELSE LET pool == market[Path(c)[n]]
                before == step[n - 1]
            IN  IF ~before.whole \/ pool = None THEN [whole |-> FALSE, amount |-> 0]
                ELSE [whole |-> Taken(pool, before.amount) = before.amount,
                      amount |-> Paid(pool, before.amount)]
<1>7. f = [n \in 0..L |-> IF n = 0 THEN [whole |-> TRUE, amount |-> AmountIn] ELSE Then(n, f[n - 1])]
  <2>1. \A n \in 0..L : n # 0 => n \in 1..L
    BY <1>1
  <2>. HIDE DEF Then, L, G
  <2>. QED BY <1>5, <1>6, <2>1
<1>8. step = [n \in 0..L |-> IF n = 0 THEN [whole |-> TRUE, amount |-> AmountIn] ELSE Then(n, step[n - 1])]
  BY <1>7
<1>9. Execution(c) = step[L]
  BY DEF Execution
<1>10. \A n \in 0..L : step[n] = f[n]
  <2>. DEFINE S == {n \in 0..L : step[n] = f[n]}
  <2>. HIDE DEF step, L, Then, G
  <2>1. 0 \in S
    BY <1>1, <1>5, <1>8
  <2>2. ASSUME NEW n \in 1..L, n - 1 \in S PROVE n \in S
    <3>1. n \in 0..L /\ n # 0 /\ step[n - 1] = f[n - 1]
      BY <2>2, <1>1
    <3>2. step[n] = Then(n, step[n - 1])
      BY <3>1, <1>8
    <3>. QED BY <3>1, <3>2, <1>6
  <2>3. 0..L \subseteq S
    <3>. HIDE DEF S
    <3>. QED BY <1>1, <2>1, <2>2, UpTo
  <2>. QED BY <2>3
<1>11. Steps(Path(c), market, f)
  <2>. HIDE DEF step, G
  <2>. QED BY <1>5, <1>6 DEF Steps
<1>12. L \in 0..L
  BY <1>1
<1>. QED
  <2>. HIDE DEF step, G
  <2>. QED BY <1>9, <1>10, <1>11, <1>12

(* The quote of a path against its execution, hop by hop: a path that is   *)
(* quoted spends its input at every hop and pays the quoted output, and    *)
(* one that is missing cannot be executed.                                 *)
LEMMA QuoteExecutes ==
    ASSUME NEW c, PoolsAreTyped, Kind(c) \in Kinds, Path(c) \in Seq(DOMAIN market)
    PROVE  /\ QuoteOf(c) \in Answers
           /\ QuoteOf(c).kind = "route" =>
                 Execution(c) = [whole |-> TRUE, amount |-> QuoteOf(c).output]
           /\ QuoteOf(c) = Missing => ~Execution(c).whole
<1>. DEFINE L == Len(Path(c))
<1>1. PICK hop : Hops(Kind(c), Path(c), market, hop) /\ QuoteOf(c) = hop[L]
  BY QuoteIsLastHop DEF QuoteOf, PoolsAreTyped
<1>2. PICK step : Steps(Path(c), market, step) /\ Execution(c) = step[L]
  BY ExecutionIsLastStep
<1>3. L \in Nat /\ \A n \in 1..L : market[Path(c)[n]] \in Depths \cup {None}
  BY DEF PoolsAreTyped
<1>. DEFINE S == {n \in 0..L :
         /\ hop[n].kind = "route" => step[n] = [whole |-> TRUE, amount |-> hop[n].output]
         /\ hop[n] = Missing => ~step[n].whole}
<1>. HIDE DEF L
<1>4. 0 \in S
  <2>1. hop[0] = Found(AmountIn)
    BY <1>1 DEF Hops
  <2>2. step[0] = [whole |-> TRUE, amount |-> AmountIn]
    BY <1>2 DEF Steps
  <2>3. hop[0] # Missing /\ hop[0].output = AmountIn
    BY <2>1 DEF Found, Missing
  <2>4. step[0] = [whole |-> TRUE, amount |-> hop[0].output]
    BY <2>2, <2>3
  <2>5. 0 \in 0..L
    BY <1>3
  <2>. QED
    BY <2>3, <2>4, <2>5, Zenon
<1>5. ASSUME NEW n \in 1..L, n - 1 \in S PROVE n \in S
  <2>1. PICK h, s, pool : h = hop[n - 1] /\ s = step[n - 1] /\ pool = market[Path(c)[n]]
    OBVIOUS
  <2>2. n - 1 \in 0..L /\ n \in 0..L
    BY <1>3
  <2>3. h \in Answers /\ s \in Ends /\ pool \in Depths \cup {None}
    BY <1>1, <1>2, <1>3, <2>1, <2>2 DEF Hops, Steps, L
  <2>4. /\ h.kind = "route" => s = [whole |-> TRUE, amount |-> h.output]
        /\ h = Missing => ~s.whole
    BY <1>5, <2>1
  <2>5. hop[n] = IF h.kind # "route" THEN h ELSE QuoteHop(Kind(c), pool, h.output)
    BY <1>1, <2>1 DEF Hops, L
  <2>6. step[n] = IF ~s.whole \/ pool = None
                  THEN [whole |-> FALSE, amount |-> 0]
                  ELSE [whole |-> Taken(pool, s.amount) = s.amount, amount |-> Paid(pool, s.amount)]
    BY <1>2, <2>1 DEF Steps, L
  <2>7. CASE h.kind # "route"
    BY <2>2, <2>4, <2>5, <2>6, <2>7
  <2>8. CASE h.kind = "route"
    <3>1. h.output \in Nat
      BY <2>3, <2>8 DEF Answers, Missing, Failed
    <3>2. PICK x, q : x \in Nat /\ x = h.output /\ q = QuoteHop(Kind(c), pool, x)
      BY <3>1
    <3>3. /\ q.kind = "route" => pool # None /\ Taken(pool, x) = x /\ q = Found(Paid(pool, x))
          /\ q = Missing => pool = None
      BY <2>3, <3>2, HopAnswers
    <3>4. s.whole /\ s.amount = x /\ hop[n] = q
      BY <2>4, <2>5, <2>8, <3>2
    <3>5. ASSUME q.kind = "route"
          PROVE  step[n] = [whole |-> TRUE, amount |-> hop[n].output]
      <4>1. (Taken(pool, s.amount) = s.amount) = TRUE
        BY <3>3, <3>4, <3>5
      <4>2. Paid(pool, s.amount) = hop[n].output
        BY <3>3, <3>4, <3>5 DEF Found
      <4>3. step[n] = [whole |-> Taken(pool, s.amount) = s.amount, amount |-> Paid(pool, s.amount)]
        BY <2>6, <3>3, <3>4, <3>5
      <4>. QED BY <4>1, <4>2, <4>3, Zenon
    <3>6. q = Missing => ~step[n].whole
      BY <2>6, <3>3
    <3>. QED
      BY <2>2, <3>4, <3>5, <3>6
  <2>. QED BY <2>7, <2>8
<1>6. L \in S
  <2>. HIDE DEF S
  <2>1. 0..L \subseteq S
    BY <1>3, <1>4, <1>5, UpTo
  <2>. QED BY <1>3, <2>1
<1>7. QuoteOf(c) \in Answers
  BY <1>1, <1>3 DEF Hops, L
<1>. QED
  BY <1>1, <1>2, <1>6, <1>7

-----------------------------------------------------------------------------
(* Candidates and their order.                                             *)

(* A sequence of members of S, as the provers need it.                     *)
LEMMA SeqShape ==
    ASSUME NEW S, NEW s \in Seq(S)
    PROVE  /\ Len(s) \in Nat /\ DOMAIN s = 1..Len(s)
           /\ \A i \in DOMAIN s : i \in Nat \ {0} /\ i <= Len(s) /\ s[i] \in S
           /\ s # <<>> <=> Len(s) > 0
<1>1. Len(s) \in Nat /\ DOMAIN s = 1..Len(s) /\ s \in [1..Len(s) -> S]
  BY LenProperties
<1>2. s # <<>> <=> Len(s) > 0
  BY EmptySeq
<1>. QED
  BY <1>1, <1>2

(* What is in tt, when it is ss without the head of its member f and       *)
(* without the members before that, which are empty.                       *)

(* What the search is over, as SearchAssumption has it.                    *)
ConfigInv ==
    /\ \A pool \in DOMAIN market : market[pool] \in Depths \cup {None}
    /\ deployments \in Seq([kind : Kinds, paths : Seq(Seq(DOMAIN market))])

(* A candidate is a deployment's number and a path's.                      *)
LEMMA CandidateShape ==
    ASSUME ConfigInv
    PROVE  \A c \in Candidates :
              /\ c = <<c[1], c[2]>> /\ c[1] \in Nat /\ c[2] \in Nat
              /\ Kind(c) \in Kinds /\ Path(c) \in Seq(DOMAIN market)
<1>. TAKE c \in Candidates
<1>1. PICK i, j : i \in DOMAIN deployments /\ j \in DOMAIN deployments[i].paths /\ c = <<i, j>>
  BY DEF Candidates
<1>2. i \in Nat /\ deployments[i] \in [kind : Kinds, paths : Seq(Seq(DOMAIN market))]
  <2>. DEFINE R == [kind : Kinds, paths : Seq(Seq(DOMAIN market))]
  <2>1. deployments \in Seq(R)
    BY DEF ConfigInv
  <2>. HIDE DEF R
  <2>2. i \in Nat /\ deployments[i] \in R
    BY <1>1, <2>1, SeqShape
  <2>. QED BY <2>2 DEF R
<1>3. deployments[i].kind \in Kinds /\ deployments[i].paths \in Seq(Seq(DOMAIN market))
  BY <1>2
<1>4. j \in Nat /\ deployments[i].paths[j] \in Seq(DOMAIN market)
  BY <1>1, <1>3, SeqShape
<1>. QED
  BY <1>1, <1>2, <1>3, <1>4 DEF Kind, Path

(* Candidates are totally ordered: deployment by deployment, path by path. *)
LEMMA BeforeIsTotal ==
    ASSUME ConfigInv
    PROVE  \A c, d, e \in Candidates :
              /\ ~Before(c, c)
              /\ c = d \/ Before(c, d) \/ Before(d, c)
              /\ Before(c, d) /\ Before(d, e) => Before(c, e)
<1>. TAKE c, d, e \in Candidates
<1>1. /\ c = <<c[1], c[2]>> /\ c[1] \in Nat /\ c[2] \in Nat
      /\ d = <<d[1], d[2]>> /\ d[1] \in Nat /\ d[2] \in Nat
      /\ e[1] \in Nat /\ e[2] \in Nat
  BY CandidateShape
<1>2. c[1] = d[1] /\ c[2] = d[2] => c = d
  BY <1>1
<1>. QED
  BY <1>1, <1>2 DEF Before

(* There are finitely many of them.                                        *)
LEMMA CandidatesFinite ==
    ASSUME ConfigInv
    PROVE  IsFiniteSet(Candidates)
<1>. DEFINE D == DOMAIN deployments
            N(i) == Len(deployments[i].paths)
            Own(i) == {<<i, j>> : j \in DOMAIN deployments[i].paths}
            own == [i \in D |-> Own(i)]
            All == {Own(i) : i \in D}
<1>1. D = 1..Len(deployments) /\ Len(deployments) \in Nat
  BY DEF ConfigInv
<1>2. ASSUME NEW i \in D PROVE DOMAIN deployments[i].paths = 1..N(i) /\ N(i) \in Nat
  BY DEF ConfigInv
<1>3. ASSUME NEW i \in D PROVE IsFiniteSet(Own(i))
  <2>. DEFINE f == [j \in 1..N(i) |-> <<i, j>>]
  <2>1. f \in Surjection(1..N(i), Own(i))
    BY <1>2, <1>3 DEF Surjection
  <2>2. IsFiniteSet(1..N(i))
    BY <1>2, <1>3, FS_Interval
  <2>. HIDE DEF Own, N, f
  <2>. QED BY <2>1, <2>2, FS_Surjection
<1>4. IsFiniteSet(D)
  BY <1>1, FS_Interval
<1>5. own \in Surjection(D, All)
  <2>. HIDE DEF D, Own
  <2>. QED BY DEF Surjection
<1>6. IsFiniteSet(All)
  <2>. HIDE DEF D, Own, own, All
  <2>. QED BY <1>4, <1>5, FS_Surjection
<1>7. Candidates = UNION All
  BY DEF Candidates
<1>8. \A T \in All : IsFiniteSet(T)
  <2>. HIDE DEF D, Own
  <2>. QED BY <1>3
<1>. QED
  <2>. HIDE DEF All
  <2>. QED BY <1>6, <1>7, <1>8, FS_UNION

(* The place of a candidate says where it is in that order.                *)
LEMMA PlacesInOrder ==
    ASSUME ConfigInv
    PROVE  \A c, d \in Candidates :
              /\ Place(c) \in Nat
              /\ Before(c, d) <=> Place(c) < Place(d)
              /\ Place(c) = Place(d) => c = d
<1>. DEFINE Below(c) == {d \in Candidates : Before(d, c)}
<1>1. ASSUME NEW c \in Candidates
      PROVE  IsFiniteSet(Below(c)) /\ Place(c) = Cardinality(Below(c)) /\ Place(c) \in Nat
  <2>1. Below(c) \in SUBSET Candidates /\ Place(c) = Cardinality(Below(c))
    BY DEF Place
  <2>. HIDE DEF Below
  <2>. QED BY <2>1, CandidatesFinite, FS_Subset, FS_CardinalityType
<1>2. ASSUME NEW c \in Candidates, NEW d \in Candidates, Before(c, d)
      PROVE  Place(c) < Place(d)
  <2>1. Below(c) \in SUBSET Below(d)
    BY <1>2, BeforeIsTotal
  <2>2. c \in Below(d) /\ c \notin Below(c)
    BY <1>2, BeforeIsTotal
  <2>. HIDE DEF Below
  <2>3. Below(c) # Below(d)
    BY <2>2
  <2>4. Cardinality(Below(c)) <= Cardinality(Below(d)) /\ Cardinality(Below(c)) # Cardinality(Below(d))
    BY <1>1, <2>1, <2>3, FS_Subset
  <2>. QED BY <1>1, <2>4
<1>. QED
  <2>. TAKE c, d \in Candidates
  <2>1. c = d \/ Before(c, d) \/ Before(d, c)
    BY BeforeIsTotal
  <2>2. Place(c) \in Nat /\ Place(d) \in Nat
    BY <1>1
  <2>3. Before(c, d) => Place(c) < Place(d)
    BY <1>2
  <2>4. Before(d, c) => Place(d) < Place(c)
    BY <1>2
  <2>5. c = d => ~Before(c, d)
    BY BeforeIsTotal
  <2>. QED BY <2>1, <2>2, <2>3, <2>4, <2>5

-----------------------------------------------------------------------------
(* Taking the next candidate of the sources.                               *)

(* tt is ss without its empty sources and without the first element of     *)
(* the first other one, its source f.                                      *)
DropsHead(ss, f, tt) ==
    /\ f \in 1..Len(ss) /\ ss[f] # <<>>
    /\ \A i \in 1..Len(ss) : i < f => ss[i] = <<>>
    /\ tt = [i \in 1..(Len(ss) - f + 1) |-> IF i = 1 THEN Tail(ss[f]) ELSE ss[i + f - 1]]

(* Where the a-th element of source i of tt was.                           *)
Shift(i, a) == IF i = 1 THEN a + 1 ELSE a

(* The lists that are left, source by source.                              *)
LEMMA TailMembers ==
    ASSUME NEW C, NEW ss \in Seq(Seq(C)), NEW f, NEW tt, DropsHead(ss, f, tt),
           NEW n, n = Len(ss) - f + 1
    PROVE  /\ n \in Nat \ {0} /\ f \in Nat \ {0} /\ tt \in Seq(Seq(C)) /\ DOMAIN tt = 1..n
           /\ \A i \in 1..n : i + f - 1 \in DOMAIN ss /\ (i # 1 => tt[i] = ss[i + f - 1])
           /\ tt[1] \in Seq(C) /\ Len(tt[1]) = Len(ss[f]) - 1 /\ Len(ss[f]) \in Nat \ {0}
           /\ DOMAIN tt[1] = 1..(Len(ss[f]) - 1) /\ DOMAIN ss[f] = 1..Len(ss[f])
           /\ \A a \in DOMAIN tt[1] : tt[1][a] = ss[f][a + 1]
           /\ \A i \in DOMAIN ss : ss[i] \in Seq(C)
<1>1. /\ Len(ss) \in Nat /\ DOMAIN ss = 1..Len(ss) /\ \A i \in DOMAIN ss : ss[i] \in Seq(C)
  BY SeqShape
<1>2. f \in 1..Len(ss) /\ ss[f] # <<>>
      /\ tt = [i \in 1..n |-> IF i = 1 THEN Tail(ss[f]) ELSE ss[i + f - 1]]
  BY DEF DropsHead
<1>3. PICK t \in Seq(C) : t = ss[f] /\ t # <<>>
  BY <1>1, <1>2
<1>4. /\ Tail(t) \in Seq(C) /\ Len(Tail(t)) = Len(t) - 1 /\ Len(t) \in Nat \ {0}
      /\ \A a \in 1..Len(Tail(t)) : Tail(t)[a] = t[a + 1]
  BY <1>3, HeadTailProperties, EmptySeq
<1>5. DOMAIN t = 1..Len(t) /\ DOMAIN Tail(t) = 1..(Len(t) - 1)
  BY <1>4, SeqShape
<1>6. n \in Nat \ {0} /\ f \in Nat \ {0} /\ \A i \in 1..n : i + f - 1 \in 1..Len(ss)
  BY <1>1, <1>2
<1>7. DOMAIN tt = 1..n /\ tt[1] = Tail(t) /\ \A i \in 1..n : i # 1 => tt[i] = ss[i + f - 1]
  BY <1>2, <1>3, <1>6
<1>8. tt \in [1..n -> Seq(C)]
  <2>1. \A i \in 1..n : tt[i] \in Seq(C)
    BY <1>1, <1>4, <1>6, <1>7
  <2>. QED BY <1>2, <2>1
<1>9. tt \in Seq(Seq(C))
  BY <1>6, <1>8 DEF Seq
<1>. QED
  BY <1>1, <1>3, <1>4, <1>5, <1>6, <1>7, <1>9

(* What is left was there before, behind the element that was taken.       *)
LEMMA TailComesFrom ==
    ASSUME NEW C, NEW ss \in Seq(Seq(C)), NEW f, NEW tt, DropsHead(ss, f, tt)
    PROVE  \A i \in DOMAIN tt : \A a \in DOMAIN tt[i] :
              /\ i \in Nat /\ a \in Nat /\ i + f - 1 \in DOMAIN ss
              /\ Shift(i, a) \in DOMAIN ss[i + f - 1]
              /\ tt[i][a] = ss[i + f - 1][Shift(i, a)]
              /\ f < i + f - 1 \/ (f = i + f - 1 /\ 1 < Shift(i, a))
<1>. TAKE i \in DOMAIN tt
<1>. TAKE a \in DOMAIN tt[i]
<1>1. PICK n : n = Len(ss) - f + 1
  OBVIOUS
<1>2. /\ n \in Nat \ {0} /\ f \in Nat \ {0} /\ i \in 1..n /\ i + f - 1 \in DOMAIN ss
      /\ i # 1 => tt[i] = ss[i + f - 1]
      /\ tt[i] \in Seq(C)
  <2>1. n \in Nat \ {0} /\ f \in Nat \ {0} /\ DOMAIN tt = 1..n /\ tt \in Seq(Seq(C))
    BY <1>1, TailMembers
  <2>2. i \in 1..n
    BY <2>1
  <2>3. i + f - 1 \in DOMAIN ss /\ (i # 1 => tt[i] = ss[i + f - 1])
    <3>1. \A x \in 1..n : x + f - 1 \in DOMAIN ss /\ (x # 1 => tt[x] = ss[x + f - 1])
      BY <1>1, TailMembers
    <3>. QED BY <2>2, <3>1
  <2>4. tt[i] \in Seq(C)
    BY <2>1, SeqShape
  <2>. QED BY <2>1, <2>2, <2>3, <2>4
<1>3. a \in Nat \ {0}
  BY <1>2, SeqShape
<1>4. CASE i = 1
  <2>1. /\ a \in 1..(Len(ss[f]) - 1) /\ Len(ss[f]) \in Nat /\ DOMAIN ss[f] = 1..Len(ss[f])
        /\ tt[i][a] = ss[f][a + 1]
    <3>1. /\ DOMAIN tt[1] = 1..(Len(ss[f]) - 1) /\ DOMAIN ss[f] = 1..Len(ss[f])
          /\ Len(ss[f]) \in Nat \ {0}
          /\ \A x \in DOMAIN tt[1] : tt[1][x] = ss[f][x + 1]
      BY <1>1, TailMembers
    <3>2. a \in DOMAIN tt[1]
      BY <1>4
    <3>. QED BY <1>4, <3>1, <3>2
  <2>2. i + f - 1 = f /\ Shift(i, a) = a + 1 /\ a + 1 \in DOMAIN ss[f]
    BY <1>2, <1>4, <2>1 DEF Shift
  <2>. QED BY <1>2, <1>3, <2>1, <2>2
<1>5. CASE i # 1
  BY <1>2, <1>3, <1>5 DEF Shift
<1>. QED
  BY <1>4, <1>5

(* All but the element that was taken is left.                             *)
LEMMA TailHolds ==
    ASSUME NEW C, NEW ss \in Seq(Seq(C)), NEW f, NEW tt, DropsHead(ss, f, tt),
           NEW j \in DOMAIN ss, NEW b \in DOMAIN ss[j], ~(j = f /\ b = 1)
    PROVE  \E i, a : i \in DOMAIN tt /\ a \in DOMAIN tt[i] /\ tt[i][a] = ss[j][b]
<1>1. PICK n : n = Len(ss) - f + 1
  OBVIOUS
<1>2. n \in Nat \ {0} /\ f \in Nat \ {0} /\ ss[j] \in Seq(C) /\ DOMAIN tt = 1..n
  BY <1>1, TailMembers
<1>3. j \in 1..Len(ss) /\ Len(ss) \in Nat /\ b \in Nat \ {0} /\ ss[j] # <<>>
  BY <1>2, SeqShape
<1>4. ~(j < f)
  BY <1>3 DEF DropsHead
<1>5. CASE j = f
  <2>1. /\ DOMAIN ss[f] = 1..Len(ss[f]) /\ Len(ss[f]) \in Nat \ {0}
        /\ DOMAIN tt[1] = 1..(Len(ss[f]) - 1)
        /\ \A a \in DOMAIN tt[1] : tt[1][a] = ss[f][a + 1]
    BY <1>1, TailMembers
  <2>2. b \in 1..Len(ss[f]) /\ b # 1
    BY <1>5, <2>1
  <2>3. b - 1 \in 1..(Len(ss[f]) - 1) /\ b - 1 + 1 = b
    BY <2>1, <2>2
  <2>4. b - 1 \in DOMAIN tt[1] /\ tt[1][b - 1] = ss[j][b]
    BY <1>5, <2>1, <2>3
  <2>5. 1 \in DOMAIN tt
    BY <1>2
  <2>. QED BY <2>4, <2>5
<1>6. CASE j # f
  <2>1. PICK i : i = j - f + 1
    OBVIOUS
  <2>2. i \in 1..n /\ i # 1 /\ i + f - 1 = j
    <3>0. Len(ss) \in Nat /\ f \in Nat /\ j \in Nat
      BY <1>2, <1>3
    <3>1. PICK len \in Nat, g \in Nat, k \in Nat : len = Len(ss) /\ g = f /\ k = j
      BY ZenonT(30), <3>0
    <3>2. k >= 1 /\ k <= len /\ ~(k < g) /\ k # g /\ i = k - g + 1 /\ n = len - g + 1
      BY <1>1, <1>3, <1>4, <1>6, <2>1, <3>1
    <3>3. k > g
      BY <3>2
    <3>4. /\ k - g + 1 \in 1..(len - g + 1) /\ k - g + 1 # 1
          /\ (k - g + 1) + g - 1 = k
      BY <3>2, <3>3
    <3>. QED BY <3>1, <3>2, <3>4
  <2>3. tt[i] = ss[j]
    BY <1>1, <2>2, TailMembers
  <2>. QED BY <1>2, <2>2, <2>3
<1>. QED
  BY <1>5, <1>6

(* The lists hold candidates in their order.                               *)
InOrder(ss) ==
    \A i, j \in DOMAIN ss : \A a \in DOMAIN ss[i], b \in DOMAIN ss[j] :
        i < j \/ (i = j /\ a < b) => Before(ss[i][a], ss[j][b])

SourcesInv == InOrder(sources)

Lists == Seq(Seq(Candidates))

Members(ss) == UNION {{ss[i][j] : j \in DOMAIN ss[i]} : i \in DOMAIN ss}

LEMMA MembersShape ==
    ASSUME NEW ss
    PROVE  \A c : c \in Members(ss) <=> \E i, a : i \in DOMAIN ss /\ a \in DOMAIN ss[i] /\ c = ss[i][a]
BY DEF Members

(* Remaining is what the sources hold, before and after a step.            *)
LEMMA RemainingShape ==
    Remaining = Members(sources) /\ Remaining' = Members(sources')
BY DEF Remaining, Members

(* And so is SourcesInv.                                                   *)
LEMMA SourcesInOrder ==
    (SourcesInv <=> InOrder(sources)) /\ (SourcesInv' <=> InOrder(sources'))
BY DEF SourcesInv, InOrder, Before

(* searchCandidates.next goes past exhausted sources only.                 *)
LEMMA FirstLeftIsFirst ==
    ASSUME sources \in Lists, Left # {}
    PROVE  /\ FirstLeft \in 1..Len(sources) /\ sources[FirstLeft] # <<>>
           /\ \A i \in 1..Len(sources) : i < FirstLeft => sources[i] = <<>>
           /\ Head(sources[FirstLeft]) = sources[FirstLeft][1] /\ 1 \in DOMAIN sources[FirstLeft]
           /\ sources[FirstLeft][1] \in Candidates
<1>1. DOMAIN sources = 1..Len(sources) /\ Len(sources) \in Nat
      /\ \A i \in DOMAIN sources : sources[i] \in Seq(Candidates)
  BY SeqShape DEF Lists
<1>2. Left \in SUBSET Nat
  BY <1>1 DEF Left
<1>3. PICK f \in Left : \A j \in Left : f <= j
  BY <1>2, LeastNumber
<1>4. FirstLeft \in Left /\ \A j \in Left : FirstLeft <= j
  BY <1>3 DEF FirstLeft
<1>5. \A i \in DOMAIN sources : i < FirstLeft => sources[i] = <<>>
  <2>. SUFFICES ASSUME NEW i \in DOMAIN sources, i < FirstLeft, sources[i] # <<>> PROVE FALSE
    OBVIOUS
  <2>1. i \in Left
    BY DEF Left
  <2>. QED BY <1>2, <1>4, <2>1
<1>6. FirstLeft \in DOMAIN sources /\ sources[FirstLeft] # <<>>
  BY <1>4 DEF Left
<1>7. PICK t \in Seq(Candidates) : t = sources[FirstLeft] /\ t # <<>>
  BY <1>1, <1>6
<1>8. Head(t) = t[1] /\ 1 \in DOMAIN t /\ t[1] \in Candidates
  BY <1>7, SeqShape
<1>. QED
  BY <1>1, <1>5, <1>6, <1>7, <1>8

(* What next hands out leaves the sources, comes before all that is left,  *)
(* and leaves that in order.                                               *)
LEMMA HeadLeaves ==
    ASSUME ConfigInv, sources \in Lists, SourcesInv, Left # {},
           deployments' = deployments,
           sources' = [i \in 1..(Len(sources) - FirstLeft + 1) |->
                      IF i = 1 THEN Tail(sources[FirstLeft]) ELSE sources[i + FirstLeft - 1]]
    PROVE  /\ Head(sources[FirstLeft]) \in Remaining \cap Candidates
           /\ Remaining' = Remaining \ {Head(sources[FirstLeft])}
           /\ \A d \in Remaining' : Before(Head(sources[FirstLeft]), d)
           /\ sources' \in Lists /\ SourcesInv'
<1>1. PICK ss, f, tt : ss = sources /\ f = FirstLeft /\ tt = sources'
  OBVIOUS
<1>2. PICK h \in Candidates : h = Head(sources[FirstLeft]) /\ h = ss[f][1]
  BY <1>1, FirstLeftIsFirst
<1>3. /\ ss \in Lists /\ f \in DOMAIN ss /\ f \in Nat /\ 1 \in DOMAIN ss[f]
  BY <1>1, FirstLeftIsFirst, SeqShape DEF Lists
<1>4. DropsHead(ss, f, tt)
  BY <1>1, FirstLeftIsFirst DEF DropsHead
<1>5. Candidates' = Candidates
  BY DEF Candidates
<1>6. tt \in Lists
  <2>1. PICK n : n = Len(ss) - f + 1
    OBVIOUS
  <2>. QED BY <1>3, <1>4, <2>1, TailMembers DEF Lists
<1>7. /\ \A i, j \in DOMAIN ss : \A a \in DOMAIN ss[i], b \in DOMAIN ss[j] :
            i < j \/ (i = j /\ a < b) => Before(ss[i][a], ss[j][b])
      /\ \A c : c \in Remaining <=> \E i, a : i \in DOMAIN ss /\ a \in DOMAIN ss[i] /\ c = ss[i][a]
  BY <1>1, RemainingShape, MembersShape DEF SourcesInv, InOrder
<1>8. \A c : c \in Remaining' <=> \E i, a : i \in DOMAIN tt /\ a \in DOMAIN tt[i] /\ c = tt[i][a]
  <2>1. Remaining' = Members(sources')
    BY RemainingShape
  <2>2. Members(sources') = Members(tt)
    BY <1>1
  <2>3. \A c : c \in Members(tt) <=> \E i, a : i \in DOMAIN tt /\ a \in DOMAIN tt[i] /\ c = tt[i][a]
    BY MembersShape
  <2>. QED BY <2>1, <2>2, <2>3
<1>9. \A i \in DOMAIN tt : \A a \in DOMAIN tt[i] :
              /\ i \in Nat /\ a \in Nat /\ i + f - 1 \in DOMAIN ss
              /\ Shift(i, a) \in DOMAIN ss[i + f - 1]
              /\ tt[i][a] = ss[i + f - 1][Shift(i, a)]
              /\ f < i + f - 1 \/ (f = i + f - 1 /\ 1 < Shift(i, a))
  BY <1>3, <1>4, TailComesFrom DEF Lists
<1>10. ASSUME NEW i \in DOMAIN tt, NEW j \in DOMAIN tt, NEW a \in DOMAIN tt[i], NEW b \in DOMAIN tt[j],
              i < j \/ (i = j /\ a < b)
       PROVE  Before(tt[i][a], tt[j][b])
  <2>1. /\ i \in Nat /\ a \in Nat /\ i + f - 1 \in DOMAIN ss
        /\ Shift(i, a) \in DOMAIN ss[i + f - 1] /\ tt[i][a] = ss[i + f - 1][Shift(i, a)]
    BY <1>9
  <2>2. /\ j \in Nat /\ b \in Nat /\ j + f - 1 \in DOMAIN ss
        /\ Shift(j, b) \in DOMAIN ss[j + f - 1] /\ tt[j][b] = ss[j + f - 1][Shift(j, b)]
    BY <1>9
  <2>3. i + f - 1 < j + f - 1 \/ (i + f - 1 = j + f - 1 /\ Shift(i, a) < Shift(j, b))
    BY <1>3, <1>10, <2>1, <2>2 DEF Shift
  <2>. QED BY <1>7, <2>1, <2>2, <2>3
<1>11. ASSUME NEW d \in Remaining' PROVE d \in Remaining /\ Before(h, d)
  <2>1. PICK i, a : i \in DOMAIN tt /\ a \in DOMAIN tt[i] /\ d = tt[i][a]
    BY <1>8
  <2>2. PICK j, b : /\ j \in DOMAIN ss /\ b \in DOMAIN ss[j] /\ d = ss[j][b]
                    /\ f < j \/ (f = j /\ 1 < b)
    BY <1>9, <2>1
  <2>. QED BY <1>2, <1>3, <1>7, <2>2
<1>12. ASSUME NEW d \in Remaining, d # h PROVE d \in Remaining'
  <2>1. PICK j, b : j \in DOMAIN ss /\ b \in DOMAIN ss[j] /\ d = ss[j][b]
    BY <1>7
  <2>2. ~(j = f /\ b = 1)
    BY <1>2, <1>12, <2>1
  <2>3. \E i, a : i \in DOMAIN tt /\ a \in DOMAIN tt[i] /\ tt[i][a] = ss[j][b]
    BY <1>3, <1>4, <2>1, <2>2, TailHolds DEF Lists
  <2>. QED BY <1>8, <2>1, <2>3
<1>13. ~Before(h, h)
  BY BeforeIsTotal
<1>14. Remaining' = Remaining \ {h}
  BY <1>11, <1>12, <1>13
<1>15. h \in Remaining
  BY <1>2, <1>3, <1>7
<1>16. SourcesInv'
  <2>1. InOrder(tt)
    BY <1>10 DEF InOrder
  <2>2. InOrder(sources') <=> InOrder(tt)
    BY <1>1
  <2>. QED BY <2>1, <2>2, SourcesInOrder
<1>17. sources' \in Lists
  BY <1>1, <1>6
<1>. QED
  BY <1>2, <1>11, <1>14, <1>15, <1>16, <1>17

(* A source that is dropped because the budget ended leaves the others in  *)
(* order.                                                                  *)
LEMMA RestOfSources ==
    ASSUME sources \in Lists, SourcesInv, Left # {}, deployments' = deployments,
           sources' = SubSeq(sources, FirstLeft + 1, Len(sources))
    PROVE  Remaining' \subseteq Remaining /\ sources' \in Lists /\ SourcesInv'
<1>1. PICK ss, f, n, m : ss = sources /\ f = FirstLeft /\ n = Len(ss) /\ m = n - f
  OBVIOUS
<1>2. /\ ss \in Lists /\ f \in 1..n /\ n \in Nat /\ DOMAIN ss = 1..n /\ f \in Nat /\ m \in Nat
      /\ \A i \in DOMAIN ss : ss[i] \in Seq(Candidates)
  BY <1>1, FirstLeftIsFirst, SeqShape DEF Lists
<1>3. PICK tt : tt = SubSeq(ss, f + 1, n)
  OBVIOUS
<1>4. \A i \in (f + 1)..n : ss[i] \in Seq(Candidates)
  BY <1>2
<1>5. f + 1 \in Int /\ n \in Int /\ n - (f + 1) + 1 = m /\ (f + 1 <= n \/ m = 0)
  BY <1>1, <1>2
<1>6. /\ tt \in Lists /\ Len(tt) = m
      /\ \A i \in 1..m : tt[i] = ss[(f + 1) + i - 1]
  BY <1>3, <1>4, <1>5, SubSeqProperties DEF Lists
<1>7. DOMAIN tt = 1..m
  BY <1>6, SeqShape DEF Lists
<1>8. \A i \in DOMAIN tt : i \in Nat /\ f + i \in DOMAIN ss /\ tt[i] = ss[f + i]
  <2>. TAKE i \in DOMAIN tt
  <2>1. i \in 1..m /\ (f + 1) + i - 1 = f + i /\ f + i \in 1..n
    BY <1>1, <1>2, <1>7
  <2>. QED BY <1>2, <1>6, <2>1
<1>9. tt = sources'
  BY <1>1, <1>3
<1>10. Remaining' \subseteq Remaining
  <2>. SUFFICES ASSUME NEW d \in Remaining' PROVE d \in Remaining
    OBVIOUS
  <2>1. PICK i, a : i \in DOMAIN tt /\ a \in DOMAIN tt[i] /\ d = tt[i][a]
    <3>1. Remaining' = Members(sources') /\ Members(sources') = Members(tt)
      BY <1>9, RemainingShape
    <3>. QED BY <3>1, MembersShape
  <2>2. f + i \in DOMAIN ss /\ a \in DOMAIN ss[f + i] /\ d = ss[f + i][a]
    BY <1>8, <2>1
  <2>. QED BY <1>1, <2>2, RemainingShape, MembersShape
<1>11. SourcesInv'
  <2>. SUFFICES InOrder(tt)
    <3>1. InOrder(sources') <=> InOrder(tt)
      BY <1>9
    <3>. QED BY <3>1, SourcesInOrder
  <2>. SUFFICES ASSUME NEW i \in DOMAIN tt, NEW j \in DOMAIN tt, NEW a \in DOMAIN tt[i],
                       NEW b \in DOMAIN tt[j], i < j \/ (i = j /\ a < b)
                PROVE  Before(tt[i][a], tt[j][b])
    BY DEF InOrder
  <2>1. /\ i \in Nat /\ j \in Nat /\ f + i \in DOMAIN ss /\ f + j \in DOMAIN ss
        /\ tt[i] = ss[f + i] /\ tt[j] = ss[f + j]
    BY <1>8
  <2>2. f + i < f + j \/ (f + i = f + j /\ a < b)
    BY <1>2, <2>1
  <2>. QED BY <1>1, <2>1, <2>2 DEF SourcesInv, InOrder
<1>12. Candidates' = Candidates
  BY DEF Candidates
<1>. QED
  BY <1>6, <1>9, <1>10, <1>11

-----------------------------------------------------------------------------
(* The invariant.                                                          *)

Outcomes == Answers \cup {Late}

WorkItems == [index : Nat, candidate : Candidates, result : Outcomes]

Asking == [pc |-> "asking"]

Quoting == [pc : {"quoting", "checking"}, index : Nat, candidate : Candidates]

Sending == [pc : {"sending"}, item : WorkItems]

(* A result is filed under the place of its candidate, and is the quote of *)
(* it, a failure, or the mark of a budget that has indeed ended.           *)
Truthful(item) ==
    /\ item.index = Place(item.candidate)
    /\ item.result \in {Failed, Late, QuoteOf(item.candidate)}
    /\ item.result = Late => expired

TypeInv ==
    /\ expired \in BOOLEAN /\ cancelled \in BOOLEAN /\ (cancelled => expired)
    /\ main \in {"snapshot", "launching", "draining", "folding", "done"}
    /\ launched \in 0..Concurrency
    /\ sources \in Lists
    /\ index \in Nat
    /\ worker \in [Workers -> {Idle, Exited, Asking} \cup Quoting \cup Sending]
    /\ ordered \in Seq(WorkItems)

(* The candidates that were handed out.                                    *)
Handed == Received \cup UNION {Holding(w) : w \in Workers}

(* They are the first of the order, one per index; what is neither handed  *)
(* out nor left was dropped when the budget ended.                         *)
QueueInv ==
    /\ Handed \cap Remaining = {}
    /\ Handed \subseteq Candidates /\ Remaining \subseteq Candidates
    /\ IsFiniteSet(Handed) /\ Cardinality(Handed) = index
    /\ {Place(c) : c \in Handed} = 0..(index - 1)
    /\ ~expired => Handed \cup Remaining = Candidates
    /\ ~expired => \A c \in Handed, d \in Remaining : Before(c, d)

(* No candidate is with two workers, with one and received, or received    *)
(* twice.                                                                  *)
ApartInv ==
    /\ \A v, w \in Workers : v # w => Holding(v) \cap Holding(w) = {}
    /\ \A w \in Workers : Holding(w) \cap Received = {}
    /\ \A i, j \in DOMAIN ordered : ordered[i].candidate = ordered[j].candidate => i = j

ResultInv ==
    /\ \A w \in Workers, c \in Candidates :
          worker[w].pc \in {"quoting", "checking"} /\ worker[w].candidate = c
              => worker[w].index = Place(c)
    /\ \A w \in Workers, item \in WorkItems :
          worker[w].pc = "sending" /\ worker[w].item = item => Truthful(item)
    /\ \A item \in Items : Truthful(item)

(* Workers are started in turn, and one exits while the budget lasts only  *)
(* when nothing is left.  The results channel is closed after them all.    *)
PoolInv ==
    /\ \A w \in Workers : worker[w] = Idle <=> w > launched
    /\ main = "snapshot" => launched = 0
    /\ main \in {"folding", "done"} => \A w \in Workers : worker[w] \in {Idle, Exited}
    /\ ~expired /\ (\E w \in Workers : worker[w] = Exited) => Remaining = {}
    /\ ~expired /\ main \in {"draining", "folding"} /\ launched < Concurrency => Remaining = {}

(* The response holds every route and error received, sorted; it claims to *)
(* be complete only when every candidate was received and none was late.   *)
AnswerInv ==
    /\ main # "done" => ~stored
    /\ main = "done" => (stored <=> Answered)
    /\ Answered =>
          /\ answer = [routes |-> Routes, errors |-> Errors, best |-> Best(Routes),
                       complete |-> answer.complete]
          /\ answer.complete \in BOOLEAN
          /\ answer.complete =>
              /\ Received = Candidates
              /\ \A item \in Items : item.result # Late

CoreInv == ConfigInv /\ TypeInv /\ SourcesInv /\ QueueInv /\ ApartInv /\ ResultInv

IInv == CoreInv /\ PoolInv /\ AnswerInv

-----------------------------------------------------------------------------
(* What the parts say, and what a step that leaves them alone keeps.       *)

(* Candidates, places and quotes are those of the searched block.          *)
LEMMA ChainFixed ==
    ASSUME UNCHANGED config
    PROVE  /\ Candidates' = Candidates
           /\ \A c : Place(c)' = Place(c)
           /\ \A c : QuoteOf(c)' = QuoteOf(c)
<1>1. deployments' = deployments /\ market' = market
  BY DEF config
<1>2. Candidates' = Candidates
  BY <1>1 DEF Candidates
<1>3. \A c : Place(c)' = Place(c)
  BY <1>2 DEF Place, Before
<1>4. \A c : QuoteOf(c)' = QuoteOf(c)
  BY <1>1 DEF QuoteOf, Kind, Path
<1>. QED BY <1>2, <1>3, <1>4

(* The states of a worker, and the candidate it holds in each.             *)
LEMMA WorkerShape ==
    ASSUME TypeInv
    PROVE  \A w \in Workers :
              /\ worker[w].pc \in {"off", "exited", "asking", "quoting", "checking", "sending"}
              /\ worker[w].pc = "off" <=> worker[w] = Idle
              /\ worker[w].pc = "exited" <=> worker[w] = Exited
              /\ worker[w].pc = "asking" <=> worker[w] = Asking
              /\ worker[w].pc \in {"quoting", "checking"} =>
                    worker[w] \in Quoting /\ worker[w].candidate \in Candidates
                    /\ Holding(w) = {worker[w].candidate}
              /\ worker[w].pc = "sending" =>
                    worker[w] \in Sending /\ worker[w].item \in WorkItems
                    /\ worker[w].item.candidate \in Candidates
                    /\ Holding(w) = {worker[w].item.candidate}
              /\ worker[w].pc \in {"off", "exited", "asking"} => Holding(w) = {}
<1>. TAKE w \in Workers
<1>1. worker[w] \in {Idle, Exited, Asking} \cup Quoting \cup Sending
  BY DEF TypeInv
<1>2. CASE worker[w] \in {Idle, Exited, Asking}
  BY <1>2 DEF Idle, Exited, Asking, Holding
<1>3. CASE worker[w] \in Quoting
  BY <1>3 DEF Quoting, Holding, Idle, Exited, Asking
<1>4. CASE worker[w] \in Sending
  <2>1. worker[w].pc = "sending" /\ worker[w].item \in WorkItems
    BY <1>4 DEF Sending
  <2>2. worker[w].item.candidate \in Candidates
    BY <2>1 DEF WorkItems
  <2>. QED BY <1>4, <2>1, <2>2 DEF Holding, Idle, Exited, Asking
<1>. QED BY <1>1, <1>2, <1>3, <1>4

(* What was received.                                                      *)
LEMMA OrderedShape ==
    ASSUME TypeInv
    PROVE  /\ DOMAIN ordered = 1..Len(ordered) /\ Len(ordered) \in Nat
           /\ \A i \in DOMAIN ordered : ordered[i] \in WorkItems /\ ordered[i].candidate \in Candidates
           /\ Items \subseteq WorkItems /\ Received \subseteq Candidates
<1>1. /\ DOMAIN ordered = 1..Len(ordered) /\ Len(ordered) \in Nat
      /\ \A i \in DOMAIN ordered : ordered[i] \in WorkItems
  BY SeqShape DEF TypeInv
<1>2. \A i \in DOMAIN ordered : ordered[i].candidate \in Candidates
  BY <1>1 DEF WorkItems
<1>. QED
  BY <1>1, <1>2 DEF Items, Received

(* A step that hands out and receives nothing keeps the queue.             *)
LEMMA Frame ==
    ASSUME QueueInv, ApartInv, UNCHANGED <<config, index, ordered>>,
           \A w \in Workers : Holding(w)' = Holding(w),
           Remaining' \subseteq Remaining,
           ~expired' => ~expired /\ Remaining' = Remaining
    PROVE  QueueInv' /\ ApartInv'
<1>1. Candidates' = Candidates /\ \A c : Place(c)' = Place(c)
  BY ChainFixed
<1>2. Received' = Received
  BY DEF Received
<1>3. Handed' = Handed
  BY <1>2 DEF Handed
<1>4. ApartInv'
  BY <1>2 DEF ApartInv
<1>5. {Place(c) : c \in Handed}' = {Place(c) : c \in Handed}
  BY <1>1, <1>3
<1>6. QueueInv'
  <2>1. (Handed \cap Remaining)' = {} /\ Remaining' \subseteq Candidates'
    BY <1>1, <1>3 DEF QueueInv
  <2>2. (~expired => \A c \in Handed, d \in Remaining : Before(c, d))'
    BY <1>3 DEF QueueInv, Before
  <2>. QED BY <1>1, <1>3, <1>5, <2>1, <2>2 DEF QueueInv
<1>. QED BY <1>4, <1>6

(* A worker that finds nothing loses nothing, unless the budget has ended. *)
LEMMA FindsNoneFrame ==
    ASSUME TypeInv, SourcesInv, UNCHANGED <<config, expired>>, FindsNone
    PROVE  /\ Remaining' \subseteq Remaining /\ sources' \in Lists /\ SourcesInv'
           /\ ~expired' => Remaining = {} /\ Remaining' = {}
           /\ index' = index
<1>1. Candidates' = Candidates /\ deployments' = deployments
  BY ChainFixed DEF config
<1>2. sources \in Lists
  BY DEF TypeInv
<1>3. CASE expired /\ sources' = sources
  BY <1>2, <1>3, RemainingShape, SourcesInOrder DEF FindsNone
<1>4. CASE expired /\ Left # {} /\ sources' = SubSeq(sources, FirstLeft + 1, Len(sources))
  BY <1>1, <1>2, <1>4, RestOfSources DEF FindsNone
<1>5. CASE ~expired /\ sources' = <<>>
  <2>1. Left = {}
    BY <1>5 DEF FindsNone, Available
  <2>2. Members(sources) = {}
    BY <2>1, MembersShape DEF Left
  <2>3. Members(<<>>) = {} /\ InOrder(<<>>) /\ <<>> \in Lists
    BY MembersShape DEF InOrder, Lists
  <2>4. Members(sources') = Members(<<>>) /\ (InOrder(sources') <=> InOrder(<<>>))
    BY <1>5
  <2>. QED BY <1>5, <2>2, <2>3, <2>4, RemainingShape, SourcesInOrder DEF FindsNone
<1>. QED BY <1>3, <1>4, <1>5 DEF FindsNone

(* next, under its lock: the candidate it hands out is the one whose place *)
(* is the index it gives with it.                                          *)
LEMMA HandingOut ==
    ASSUME ConfigInv, TypeInv, SourcesInv, QueueInv, ApartInv,
           NEW w \in Workers, Holding(w) = {}, TakesNext(w), UNCHANGED <<config, expired, ordered>>
    PROVE  /\ \E h \in Candidates :
                 /\ Place(h) = index /\ h \notin Handed
                 /\ worker' = [worker EXCEPT ![w] = [pc |-> "quoting", index |-> index, candidate |-> h]]
           /\ QueueInv' /\ ApartInv' /\ SourcesInv' /\ sources' \in Lists /\ Remaining' \subseteq Remaining
           /\ index' = index + 1
<1>. DEFINE h == Head(sources[FirstLeft])
<1>1. /\ ~expired /\ Left # {} /\ sources \in Lists /\ deployments' = deployments
      /\ worker' = [worker EXCEPT ![w] = [pc |-> "quoting", index |-> index, candidate |-> h]]
      /\ index' = index + 1
  BY DEF TakesNext, Available, TypeInv, config
<1>2. sources' = [i \in 1..(Len(sources) - FirstLeft + 1) |->
                      IF i = 1 THEN Tail(sources[FirstLeft]) ELSE sources[i + FirstLeft - 1]]
  BY DEF TakesNext
<1>3. /\ h \in Remaining \cap Candidates
      /\ Remaining' = Remaining \ {h}
      /\ \A d \in Remaining' : Before(h, d)
      /\ sources' \in Lists /\ SourcesInv'
  BY <1>1, <1>2, HeadLeaves
<1>. HIDE DEF h
<1>4. h \notin Handed
  BY <1>3 DEF QueueInv
<1>5. Candidates' = Candidates /\ \A c : Place(c)' = Place(c)
  BY ChainFixed
<1>6. Holding(w)' = {h}
  <2>1. worker'[w] = [pc |-> "quoting", index |-> index, candidate |-> h]
    BY <1>1 DEF TypeInv
  <2>. QED BY <2>1 DEF Holding
<1>7. \A v \in Workers : v # w => Holding(v)' = Holding(v)
  BY <1>1 DEF Holding
<1>8. Received' = Received
  BY DEF Received
<1>9. Handed' = Handed \cup {h}
  BY <1>6, <1>7, <1>8 DEF Handed
<1>10. Place(h) = index
  <2>1. {d \in Candidates : Before(d, h)} = Handed
    <3>1. \A d \in Handed : d \in Candidates /\ Before(d, h)
      BY <1>1, <1>3 DEF QueueInv
    <3>2. ASSUME NEW d \in Candidates, Before(d, h), d \notin Handed PROVE FALSE
      <4>1. d \in Remaining /\ (d = h \/ d \in Remaining')
        BY <1>1, <1>3, <3>2 DEF QueueInv
      <4>2. ~Before(h, d)
        BY <1>3, <3>2, BeforeIsTotal
      <4>3. d # h
        BY <3>2, BeforeIsTotal
      <4>. QED BY <1>3, <4>1, <4>2, <4>3
    <3>. QED BY <3>1, <3>2
  <2>. QED BY <2>1 DEF Place, QueueInv
<1>11. QueueInv'
  <2>1. (Handed \cap Remaining)' = {} /\ Handed' \subseteq Candidates' /\ Remaining' \subseteq Candidates'
    BY <1>3, <1>5, <1>9 DEF QueueInv
  <2>2. IsFiniteSet(Handed') /\ Cardinality(Handed') = index'
    <3>1. IsFiniteSet(Handed) /\ Cardinality(Handed) = index
      BY DEF QueueInv
    <3>. QED BY <1>1, <1>4, <1>9, <3>1, FS_AddElement
  <2>3. {Place(c) : c \in Handed}' = 0..(index' - 1)
    <3>1. {Place(c) : c \in Handed} = 0..(index - 1) /\ index \in Nat
      BY DEF QueueInv, TypeInv
    <3>2. {Place(c) : c \in Handed}' = {Place(c) : c \in Handed} \cup {index}
      BY <1>5, <1>9, <1>10
    <3>3. 0..(index - 1) \cup {index} = 0..(index + 1 - 1)
      BY <3>1
    <3>. QED BY <1>1, <3>1, <3>2, <3>3
  <2>4. Handed' \cup Remaining' = Candidates'
    BY <1>1, <1>3, <1>5, <1>9 DEF QueueInv
  <2>5. \A c \in Handed', d \in Remaining' : Before(c, d)
    BY <1>1, <1>3, <1>9 DEF QueueInv
  <2>6. (~expired => \A c \in Handed, d \in Remaining : Before(c, d))'
    BY <2>5 DEF Before
  <2>. QED BY <2>1, <2>2, <2>3, <2>4, <2>6 DEF QueueInv
<1>12. ApartInv'
  <2>1. ASSUME NEW v \in Workers PROVE h \notin Holding(v) /\ h \notin Received
    BY <1>4 DEF Handed
  <2>2. \A u, v \in Workers : u # v => Holding(u)' \cap Holding(v)' = {}
    BY <1>6, <1>7, <2>1 DEF ApartInv
  <2>3. \A v \in Workers : Holding(v)' \cap Received' = {}
    BY <1>6, <1>7, <1>8, <2>1 DEF ApartInv
  <2>. QED BY <2>2, <2>3 DEF ApartInv
<1>. QED
  BY <1>1, <1>3, <1>4, <1>10, <1>11, <1>12

(* A send on the results channel moves a candidate from its worker to the  *)
(* results, and no other.                                                  *)
LEMMA Delivering ==
    ASSUME TypeInv, QueueInv, ApartInv, NEW w \in Workers, Deliver(w)
    PROVE  QueueInv' /\ ApartInv' /\ Remaining' = Remaining /\ Items' = Items \cup {worker[w].item}
<1>. DEFINE item == worker[w].item
            c == item.candidate
<1>1. /\ worker[w].pc = "sending" /\ ordered' = Append(ordered, item)
      /\ worker' = [worker EXCEPT ![w] = IF item.result = Late THEN Exited ELSE [pc |-> "asking"]]
      /\ UNCHANGED config /\ index' = index /\ expired' = expired /\ sources' = sources
  BY DEF Deliver, chain, queue, contexts
<1>2. item \in WorkItems /\ c \in Candidates /\ Holding(w) = {c}
  BY <1>1, WorkerShape
<1>. HIDE DEF item, c
<1>3. Candidates' = Candidates /\ \A d : Place(d)' = Place(d)
  BY <1>1, ChainFixed
<1>4. /\ ordered \in Seq(WorkItems) /\ Len(ordered) \in Nat /\ DOMAIN ordered = 1..Len(ordered)
  BY OrderedShape DEF TypeInv
<1>5. /\ DOMAIN ordered' = 1..(Len(ordered) + 1)
      /\ \A i \in 1..Len(ordered) : ordered'[i] = ordered[i]
      /\ ordered'[Len(ordered) + 1] = item
  BY <1>1, <1>2, <1>4
<1>6. Received' = Received \cup {c}
  BY <1>4, <1>5 DEF Received, c
<1>7. Items' = Items \cup {item}
  BY <1>4, <1>5 DEF Items
<1>8. Holding(w)' = {}
  <2>1. worker'[w] \in {Exited, Asking}
    BY <1>1 DEF TypeInv, Asking
  <2>. QED BY <2>1 DEF Holding, Exited, Asking
<1>9. \A v \in Workers : v # w => Holding(v)' = Holding(v)
  BY <1>1 DEF Holding
<1>10. Handed' = Handed
  BY <1>2, <1>6, <1>8, <1>9 DEF Handed
<1>11. Remaining' = Remaining
  BY <1>1 DEF Remaining
<1>12. QueueInv'
  <2>1. {Place(d) : d \in Handed}' = {Place(d) : d \in Handed}
    BY <1>3, <1>10
  <2>2. (~expired => \A b \in Handed, d \in Remaining : Before(b, d))'
    BY <1>1, <1>10, <1>11 DEF QueueInv, Before
  <2>. QED BY <1>1, <1>3, <1>10, <1>11, <2>1, <2>2 DEF QueueInv
<1>13. ApartInv'
  <2>1. \A u, v \in Workers : u # v => Holding(u)' \cap Holding(v)' = {}
    BY <1>8, <1>9 DEF ApartInv
  <2>2. \A v \in Workers : Holding(v)' \cap Received' = {}
    BY <1>2, <1>6, <1>8, <1>9 DEF ApartInv
  <2>3. \A i \in DOMAIN ordered : ordered[i].candidate # c
    BY <1>2 DEF ApartInv, Received
  <2>4. \A i, j \in DOMAIN ordered' : ordered'[i].candidate = ordered'[j].candidate => i = j
    <3>. SUFFICES ASSUME NEW i \in DOMAIN ordered', NEW j \in DOMAIN ordered',
                         ordered'[i].candidate = ordered'[j].candidate
                  PROVE  i = j
      OBVIOUS
    <3>1. i \in DOMAIN ordered \/ i = Len(ordered) + 1
      BY <1>4, <1>5
    <3>2. j \in DOMAIN ordered \/ j = Len(ordered) + 1
      BY <1>4, <1>5
    <3>3. i \in DOMAIN ordered => ordered'[i] = ordered[i]
      BY <1>4, <1>5
    <3>4. j \in DOMAIN ordered => ordered'[j] = ordered[j]
      BY <1>4, <1>5
    <3>. QED BY <1>5, <2>3, <3>1, <3>2, <3>3, <3>4 DEF ApartInv, c
  <2>. QED BY <2>1, <2>2, <2>4 DEF ApartInv
<1>. QED
  BY <1>7, <1>11, <1>12, <1>13 DEF item

LEMMA ConfigFixed ==
    ASSUME ConfigInv, UNCHANGED config
    PROVE  ConfigInv'
BY DEF ConfigInv, config

(* QuoteExecutes, for the candidates of the search.                        *)
LEMMA QuotesAnswer ==
    ASSUME ConfigInv
    PROVE  \A c \in Candidates :
              /\ QuoteOf(c) \in Answers /\ QuoteOf(c) # Late
              /\ QuoteOf(c).kind = "route" =>
                    Execution(c) = [whole |-> TRUE, amount |-> QuoteOf(c).output]
              /\ QuoteOf(c) = Missing => ~Execution(c).whole
<1>. TAKE c \in Candidates
<1>1. Kind(c) \in Kinds /\ Path(c) \in Seq(DOMAIN market) /\ PoolsAreTyped
  BY CandidateShape DEF ConfigInv, PoolsAreTyped
<1>2. Late \notin Answers
  BY DEF Late, Answers, Failed, Missing
<1>. QED
  BY <1>1, <1>2, QuoteExecutes

(* The answer is not touched before it is given, nor after.                *)
LEMMA AnswerKept ==
    ASSUME AnswerInv, stored' = stored,
           \/ main # "done" /\ main' # "done"
           \/ UNCHANGED <<config, main, answer, ordered>>
    PROVE  AnswerInv'
<1>1. CASE main # "done" /\ main' # "done"
  BY <1>1 DEF AnswerInv, Answered
<1>2. CASE UNCHANGED <<config, main, answer, ordered>>
  <2>1. Candidates' = Candidates
    BY <1>2, ChainFixed
  <2>2. Items' = Items /\ Received' = Received
    BY <1>2 DEF Items, Received
  <2>3. Routes' = Routes /\ Errors' = Errors /\ Best(Routes)' = Best(Routes)
    BY <2>2 DEF Routes, Errors, Sorted, IsRoute, IsError, Best
  <2>4. Answered' <=> Answered
    BY <1>2 DEF Answered
  <2>. QED BY <1>2, <2>1, <2>2, <2>3, <2>4 DEF AnswerInv
<1>. QED
  BY <1>1, <1>2

(* The contexts and the handler's own steps leave the queue alone.         *)
LEMMA CoreKept ==
    ASSUME CoreInv, UNCHANGED <<chain, queue, worker, ordered>>,
           expired' \in BOOLEAN, cancelled' \in BOOLEAN, cancelled' => expired', expired => expired',
           main' \in {"snapshot", "launching", "draining", "folding", "done"},
           launched' \in 0..Concurrency
    PROVE  CoreInv' /\ Remaining' = Remaining
<1>1. UNCHANGED <<config, sources, index, worker, ordered>>
  BY DEF chain, queue
<1>2. Candidates' = Candidates /\ (\A c : Place(c)' = Place(c)) /\ (\A c : QuoteOf(c)' = QuoteOf(c))
  BY <1>1, ChainFixed
<1>3. ConfigInv'
  BY <1>1, ConfigFixed DEF CoreInv
<1>4. TypeInv'
  BY <1>1, <1>2 DEF CoreInv, TypeInv, Lists, WorkItems, Quoting, Sending, Idle, Exited, Asking,
                    Outcomes, Answers, Missing, Failed, Late, Workers
<1>5. Remaining' = Remaining /\ SourcesInv'
  BY <1>1, RemainingShape, SourcesInOrder DEF CoreInv
<1>6. \A w \in Workers : Holding(w)' = Holding(w)
  BY <1>1 DEF Holding
<1>7. QueueInv' /\ ApartInv'
  BY <1>1, <1>5, <1>6, Frame DEF CoreInv
<1>8. ResultInv'
  <2>1. \A item : Truthful(item) => Truthful(item)'
    BY <1>2 DEF Truthful, Failed, Late
  <2>2. Items' = Items /\ WorkItems' = WorkItems
    BY <1>1, <1>2 DEF Items, WorkItems, Outcomes, Answers, Missing, Failed, Late
  <2>. QED BY <1>1, <1>2, <2>1, <2>2 DEF CoreInv, ResultInv
<1>. QED
  BY <1>3, <1>4, <1>5, <1>7, <1>8 DEF CoreInv

(* CoreInv after a step of one worker, from its parts.                     *)
LEMMA CoreFromParts ==
    ASSUME CoreInv, UNCHANGED config, SourcesInv', QueueInv', ApartInv', ResultInv',
           sources' \in Lists, index' \in Nat, launched' \in 0..Concurrency,
           UNCHANGED <<expired, cancelled>>,
           main' \in {"snapshot", "launching", "draining", "folding", "done"},
           worker' \in [Workers -> {Idle, Exited, Asking} \cup Quoting \cup Sending],
           ordered' \in Seq(WorkItems)
    PROVE  CoreInv'
<1>1. Candidates' = Candidates
  BY ChainFixed
<1>2. ConfigInv'
  BY ConfigFixed DEF CoreInv
<1>3. Lists' = Lists /\ WorkItems' = WorkItems
  BY <1>1 DEF Lists, WorkItems, Outcomes, Answers, Missing, Failed, Late
<1>4. /\ Idle' = Idle /\ Exited' = Exited /\ Asking' = Asking /\ Quoting' = Quoting /\ Sending' = Sending
      /\ Workers' = Workers
  BY <1>1, <1>3 DEF Idle, Exited, Asking, Quoting, Sending, Workers
<1>5. TypeInv'
  BY <1>3, <1>4 DEF CoreInv, TypeInv
<1>. QED
  BY <1>2, <1>5 DEF CoreInv

(* ResultInv after it.                                                     *)
LEMMA ResultFrame ==
    ASSUME CoreInv, UNCHANGED <<config, expired>>,
           \A w \in Workers, c \in Candidates :
              worker'[w].pc \in {"quoting", "checking"} /\ worker'[w].candidate = c
                  => worker'[w].index = Place(c),
           \A w \in Workers, item \in WorkItems :
              worker'[w].pc = "sending" /\ worker'[w].item = item => Truthful(item),
           \A item \in Items' : Truthful(item)
    PROVE  ResultInv'
<1>1. Candidates' = Candidates /\ (\A c : Place(c)' = Place(c)) /\ (\A c : QuoteOf(c)' = QuoteOf(c))
  BY ChainFixed
<1>2. \A item : Truthful(item) => Truthful(item)'
  BY <1>1 DEF Truthful, Failed, Late
<1>3. WorkItems' = WorkItems
  BY <1>1 DEF WorkItems, Outcomes, Answers, Missing, Failed, Late
<1>. QED
  BY <1>1, <1>2, <1>3 DEF ResultInv, Workers

-----------------------------------------------------------------------------
(* The handler's steps.                                                    *)

(* The contexts may end at any time.                                       *)
LEMMA ExpirePreserves ==
    ASSUME IInv, Expire \/ Cancel
    PROVE  IInv'
<1>1. /\ UNCHANGED <<chain, queue, worker, ordered, main, launched, answer, stored>>
      /\ expired' = TRUE /\ cancelled' \in BOOLEAN
  BY DEF Expire, Cancel, IInv, CoreInv, TypeInv
<1>2. CoreInv' /\ Remaining' = Remaining
  <2>1. main \in {"snapshot", "launching", "draining", "folding", "done"} /\ launched \in 0..Concurrency
    BY DEF IInv, CoreInv, TypeInv
  <2>. QED BY <1>1, <2>1, CoreKept DEF IInv
<1>3. PoolInv'
  BY <1>1 DEF IInv, PoolInv, Idle, Exited
<1>4. AnswerInv'
  BY <1>1, AnswerKept DEF IInv, chain
<1>. QED
  BY <1>2, <1>3, <1>4 DEF IInv

LEMMA TakeSnapshotPreserves ==
    ASSUME IInv, TakeSnapshot
    PROVE  IInv'
<1>1. /\ UNCHANGED <<chain, queue, worker, ordered, expired, cancelled, launched, stored>>
      /\ main = "snapshot" /\ launched = 0
      /\ main' = "launching" \/ (main' = "done" /\ answer' = ErrorReply)
  BY DEF TakeSnapshot, Reply, IInv, PoolInv, contexts
<1>2. CoreInv' /\ Remaining' = Remaining
  <2>1. /\ expired \in BOOLEAN /\ cancelled \in BOOLEAN /\ (cancelled => expired)
        /\ launched \in 0..Concurrency
    BY DEF IInv, CoreInv, TypeInv
  <2>. QED BY <1>1, <2>1, CoreKept DEF IInv
<1>3. \A w \in Workers : worker[w] = Idle
  BY <1>1 DEF IInv, PoolInv, Workers
<1>4. PoolInv'
  BY <1>1, <1>2, <1>3 DEF IInv, PoolInv, Idle, Exited
<1>5. AnswerInv'
  <2>1. CASE main' = "launching"
    BY <1>1, <2>1, AnswerKept DEF IInv
  <2>2. CASE main' = "done" /\ answer' = ErrorReply
    <3>1. ~Answered'
      BY <2>2 DEF Answered, ErrorReply
    <3>2. ~stored'
      BY <1>1 DEF IInv, AnswerInv
    <3>. QED BY <2>2, <3>1, <3>2 DEF AnswerInv
  <2>. QED BY <1>1, <2>1, <2>2
<1>. QED
  BY <1>2, <1>4, <1>5 DEF IInv

(* A worker that has nothing asks for a candidate, and gets one.           *)
LEMMA Asks ==
    ASSUME CoreInv, NEW w \in Workers, Holding(w) = {}, TakesNext(w),
           UNCHANGED <<config, expired, cancelled, ordered>>,
           launched' \in 0..Concurrency,
           main' \in {"snapshot", "launching", "draining", "folding", "done"}
    PROVE  /\ CoreInv' /\ Remaining' \subseteq Remaining /\ ~expired
           /\ worker'[w] # Idle /\ worker'[w] # Exited
           /\ \A v \in Workers : v # w => worker'[v] = worker[v]
<1>1. PICK h \in Candidates :
         /\ Place(h) = index /\ h \notin Handed
         /\ worker' = [worker EXCEPT ![w] = [pc |-> "quoting", index |-> index, candidate |-> h]]
  BY HandingOut DEF CoreInv
<1>2. /\ QueueInv' /\ ApartInv' /\ SourcesInv' /\ sources' \in Lists /\ Remaining' \subseteq Remaining
      /\ index' = index + 1
  BY HandingOut DEF CoreInv
<1>3. worker \in [Workers -> {Idle, Exited, Asking} \cup Quoting \cup Sending] /\ index \in Nat
      /\ ordered \in Seq(WorkItems)
  BY DEF CoreInv, TypeInv
<1>4. /\ worker'[w] = [pc |-> "quoting", index |-> index, candidate |-> h]
      /\ \A v \in Workers : v # w => worker'[v] = worker[v]
  BY <1>1, <1>3
<1>5. worker' \in [Workers -> {Idle, Exited, Asking} \cup Quoting \cup Sending]
  <2>1. [pc |-> "quoting", index |-> index, candidate |-> h] \in Quoting
    BY <1>3 DEF Quoting
  <2>. QED BY <1>1, <1>3, <2>1
<1>6. Items' = Items
  BY DEF Items
<1>7. ResultInv'
  <2>1. \A v \in Workers, c \in Candidates :
              worker'[v].pc \in {"quoting", "checking"} /\ worker'[v].candidate = c
                  => worker'[v].index = Place(c)
    BY <1>1, <1>4 DEF CoreInv, ResultInv
  <2>2. \A v \in Workers, item \in WorkItems :
              worker'[v].pc = "sending" /\ worker'[v].item = item => Truthful(item)
    BY <1>4 DEF CoreInv, ResultInv
  <2>. QED BY <1>6, <2>1, <2>2, ResultFrame DEF CoreInv, ResultInv
<1>8. CoreInv'
  BY <1>2, <1>3, <1>5, <1>7, CoreFromParts
<1>. QED
  BY <1>2, <1>4, <1>8 DEF Idle, Exited, TakesNext, Available

(* The loop that starts the workers.                                       *)
LEMMA LaunchPreserves ==
    ASSUME IInv, Launch
    PROVE  IInv'
<1>1. /\ UNCHANGED <<chain, expired, cancelled, ordered, answer, stored>> /\ UNCHANGED config
      /\ main = "launching" /\ launched \in 0..Concurrency /\ Concurrency \in Nat \ {0}
  BY SearchAssumption DEF Launch, contexts, IInv, CoreInv, TypeInv, chain
<1>2. \A w \in Workers : worker[w] = Idle <=> w > launched
  BY DEF IInv, PoolInv
<1>3. CASE launched < Concurrency /\ TakesNext(launched + 1) /\ launched' = launched + 1 /\ main' = main
  <2>1. PICK w \in Workers : w = launched + 1
    BY <1>1, <1>3 DEF Workers
  <2>2. worker[w] = Idle /\ Holding(w) = {}
    BY <1>1, <1>2, <2>1 DEF Holding, Idle
  <2>3. launched' \in 0..Concurrency
    BY <1>1, <1>3
  <2>4. /\ CoreInv' /\ Remaining' \subseteq Remaining /\ ~expired
        /\ worker'[w] # Idle /\ worker'[w] # Exited
        /\ \A v \in Workers : v # w => worker'[v] = worker[v]
    BY <1>1, <1>3, <2>1, <2>2, <2>3, Asks DEF IInv
  <2>5. PoolInv'
    <3>1. \A v \in Workers : worker'[v] = Idle <=> v > launched'
      BY <1>1, <1>2, <1>3, <2>1, <2>4 DEF Workers
    <3>2. (\E v \in Workers : worker'[v] = Exited) => Remaining' = {}
      BY <1>1, <2>4 DEF IInv, PoolInv
    <3>. QED BY <1>1, <1>3, <3>1, <3>2 DEF PoolInv, Idle, Exited, Workers
  <2>6. AnswerInv'
    BY <1>1, <1>3, AnswerKept DEF IInv
  <2>. QED BY <2>4, <2>5, <2>6 DEF IInv
<1>4. CASE launched < Concurrency /\ FindsNone /\ main' = "draining" /\ UNCHANGED <<launched, worker>>
  <2>1. /\ Remaining' \subseteq Remaining /\ sources' \in Lists /\ SourcesInv'
        /\ ~expired' => Remaining = {} /\ Remaining' = {}
        /\ index' = index
    BY <1>1, <1>4, FindsNoneFrame DEF IInv, CoreInv
  <2>2. \A w \in Workers : Holding(w)' = Holding(w)
    BY <1>4 DEF Holding
  <2>3. QueueInv' /\ ApartInv'
    BY <1>1, <2>1, <2>2, Frame DEF IInv, CoreInv
  <2>4. ResultInv'
    <3>1. Items' = Items
      BY <1>1 DEF Items
    <3>. QED BY <1>1, <1>4, <3>1, ResultFrame DEF IInv, CoreInv, ResultInv
  <2>5. CoreInv'
    BY <1>1, <1>4, <2>1, <2>3, <2>4, CoreFromParts DEF IInv, CoreInv, TypeInv
  <2>6. PoolInv'
    BY <1>1, <1>2, <1>4, <2>1 DEF PoolInv, Idle, Exited, Workers
  <2>7. AnswerInv'
    BY <1>1, <1>4, AnswerKept DEF IInv
  <2>. QED BY <2>5, <2>6, <2>7 DEF IInv
<1>5. CASE launched = Concurrency /\ main' = "draining" /\ UNCHANGED <<launched, queue, worker>>
  <2>1. CoreInv' /\ Remaining' = Remaining
    BY <1>1, <1>5, CoreKept DEF IInv, CoreInv, TypeInv
  <2>2. PoolInv'
    BY <1>1, <1>5, <2>1 DEF IInv, PoolInv, Idle, Exited, Workers
  <2>3. AnswerInv'
    BY <1>1, <1>5, AnswerKept DEF IInv
  <2>. QED BY <2>1, <2>2, <2>3 DEF IInv
<1>. QED
  BY <1>1, <1>3, <1>4, <1>5 DEF Launch

(* What the steps of a worker have in common, which neither starts nor     *)
(* hands out.                                                              *)

(* The results channel is closed once every started worker has returned.   *)
LEMMA ClosePreserves ==
    ASSUME IInv, Close
    PROVE  IInv'
<1>1. /\ UNCHANGED <<chain, queue, worker, ordered, expired, cancelled, launched, stored>>
      /\ main = "draining" /\ \A w \in Workers : worker[w] \in {Idle, Exited}
      /\ main' = "folding" \/ (main' = "done" /\ answer' = [error |-> "cancelled"])
  BY DEF Close, Reply, contexts
<1>2. CoreInv' /\ Remaining' = Remaining
  <2>1. /\ expired \in BOOLEAN /\ cancelled \in BOOLEAN /\ (cancelled => expired)
        /\ launched \in 0..Concurrency
    BY DEF IInv, CoreInv, TypeInv
  <2>. QED BY <1>1, <2>1, CoreKept DEF IInv
<1>3. PoolInv'
  BY <1>1, <1>2 DEF IInv, PoolInv, Idle, Exited
<1>4. AnswerInv'
  <2>1. CASE main' = "folding"
    BY <1>1, <2>1, AnswerKept DEF IInv
  <2>2. CASE main' = "done" /\ answer' = [error |-> "cancelled"]
    <3>1. ~Answered'
      BY <2>2 DEF Answered
    <3>2. ~stored'
      BY <1>1 DEF IInv, AnswerInv
    <3>. QED BY <2>2, <3>1, <3>2 DEF AnswerInv
  <2>. QED BY <1>1, <2>1, <2>2
<1>. QED
  BY <1>2, <1>3, <1>4 DEF IInv

(* When the budget lasts until all workers have returned, every candidate  *)
(* was received and none was late.                                         *)
LEMMA AllReceived ==
    ASSUME IInv, ~expired, main = "folding"
    PROVE  Received = Candidates /\ \A item \in Items : item.result # Late
<1>1. \A w \in Workers : worker[w] \in {Idle, Exited}
  BY DEF IInv, PoolInv
<1>2. Remaining = {}
  <2>1. CASE launched < Concurrency
    BY <2>1 DEF IInv, PoolInv
  <2>2. CASE launched = Concurrency
    <3>1. 1 \in Workers /\ ~(1 > launched)
      BY <2>2, SearchAssumption DEF Workers
    <3>. QED BY <1>1, <3>1 DEF IInv, PoolInv
  <2>. QED BY <2>1, <2>2, SearchAssumption DEF IInv, CoreInv, TypeInv
<1>3. \A w \in Workers : Holding(w) = {}
  BY <1>1 DEF Holding, Idle, Exited
<1>4. Handed = Received
  BY <1>3 DEF Handed
<1>5. Received = Candidates
  BY <1>2, <1>4 DEF IInv, CoreInv, QueueInv
<1>6. \A item \in Items : item.result # Late
  BY DEF IInv, CoreInv, ResultInv, Truthful
<1>. QED
  BY <1>5, <1>6

(* The response is made of what was received.                              *)
LEMMA FoldPreserves ==
    ASSUME IInv, Fold
    PROVE  IInv'
<1>1. /\ UNCHANGED <<chain, queue, worker, ordered, expired, cancelled, launched>>
      /\ main = "folding" /\ main' = "done" /\ stored' = TRUE
      /\ answer' = [routes |-> Routes, errors |-> Errors, best |-> Best(Routes), complete |-> ~expired]
  BY DEF Fold, Reply, contexts
<1>2. CoreInv' /\ Remaining' = Remaining
  <2>1. /\ expired \in BOOLEAN /\ cancelled \in BOOLEAN /\ (cancelled => expired)
        /\ launched \in 0..Concurrency
    BY DEF IInv, CoreInv, TypeInv
  <2>. QED BY <1>1, <2>1, CoreKept DEF IInv
<1>3. PoolInv'
  BY <1>1, <1>2 DEF IInv, PoolInv, Idle, Exited
<1>4. Candidates' = Candidates
  BY <1>1, ChainFixed DEF chain
<1>5. Items' = Items /\ Received' = Received
  BY <1>1 DEF Items, Received
<1>6. Routes' = Routes /\ Errors' = Errors /\ Best(Routes)' = Best(Routes)
  BY <1>5 DEF Routes, Errors, Sorted, IsRoute, IsError, Best
<1>7. Answered'
  BY <1>1 DEF Answered
<1>8. answer'.complete = ~expired /\ answer'.complete \in BOOLEAN
  BY <1>1
<1>9. answer' = [routes |-> Routes', errors |-> Errors', best |-> Best(Routes)',
                 complete |-> answer'.complete]
  BY <1>1, <1>6, <1>8
<1>10. AnswerInv'
  <2>1. answer'.complete => Received' = Candidates' /\ \A item \in Items' : item.result # Late
    BY <1>1, <1>4, <1>5, <1>8, AllReceived
  <2>2. (\A item \in Items : item.result # Late)' <=> \A item \in Items' : item.result # Late
    BY DEF Late
  <2>. QED BY <1>1, <1>7, <1>8, <1>9, <2>1, <2>2 DEF AnswerInv
<1>. QED
  BY <1>2, <1>3, <1>10 DEF IInv

-----------------------------------------------------------------------------
(* The workers' steps.                                                     *)

(* IInv after a step of one worker, from what such steps have in common.   *)
LEMMA WorkerStep ==
    ASSUME IInv, NEW w \in Workers, worker[w].pc \notin {"off", "exited"},
           UNCHANGED <<config, expired, cancelled, main, launched, answer, stored>>,
           CoreInv', Remaining' \subseteq Remaining,
           worker'[w] # Idle,
           worker'[w] = Exited => expired \/ Remaining' = {},
           \A v \in Workers : v # w => worker'[v] = worker[v]
    PROVE  IInv'
<1>1. worker[w] \notin {Idle, Exited}
  BY WorkerShape DEF IInv, CoreInv
<1>2. main \notin {"folding", "done"}
  BY <1>1 DEF IInv, PoolInv
<1>3. PoolInv'
  <2>1. \A v \in Workers : worker'[v] = Idle <=> v > launched'
    BY <1>1 DEF IInv, PoolInv
  <2>2. ~expired /\ (\E v \in Workers : worker'[v] = Exited) => Remaining' = {}
    BY DEF IInv, PoolInv
  <2>3. ~expired /\ main \in {"draining", "folding"} /\ launched < Concurrency => Remaining' = {}
    BY DEF IInv, PoolInv
  <2>. QED BY <1>2, <2>1, <2>2, <2>3 DEF IInv, PoolInv, Idle, Exited, Workers
<1>4. AnswerInv'
  BY <1>2, AnswerKept DEF IInv
<1>. QED
  BY <1>3, <1>4 DEF IInv

(* A step in which a worker keeps its candidate.                           *)
LEMMA SamePlace ==
    ASSUME CoreInv, NEW w \in Workers, UNCHANGED <<config, expired, cancelled, main, launched, sources, index, ordered>>,
           NEW new \in Quoting \cup Sending, worker' = [worker EXCEPT ![w] = new],
           Holding(w)' = Holding(w),
           new.pc \in {"quoting", "checking"} => new.index = Place(new.candidate),
           new.pc = "sending" => Truthful(new.item)
    PROVE  /\ CoreInv' /\ Remaining' = Remaining /\ worker'[w] \notin {Idle, Exited}
           /\ \A v \in Workers : v # w => worker'[v] = worker[v]
<1>1. worker \in [Workers -> {Idle, Exited, Asking} \cup Quoting \cup Sending]
  BY DEF CoreInv, TypeInv
<1>2. worker'[w] = new /\ \A v \in Workers : v # w => worker'[v] = worker[v]
  BY <1>1
<1>3. \A v \in Workers : Holding(v)' = Holding(v)
  BY <1>2 DEF Holding
<1>4. Remaining' = Remaining /\ SourcesInv'
  BY RemainingShape, SourcesInOrder DEF CoreInv
<1>5. QueueInv' /\ ApartInv'
  BY <1>3, <1>4, Frame DEF CoreInv
<1>6. ResultInv'
  <2>1. Items' = Items
    BY DEF Items
  <2>2. \A v \in Workers, c \in Candidates :
              worker'[v].pc \in {"quoting", "checking"} /\ worker'[v].candidate = c
                  => worker'[v].index = Place(c)
    BY <1>2 DEF CoreInv, ResultInv
  <2>3. \A v \in Workers, item \in WorkItems :
              worker'[v].pc = "sending" /\ worker'[v].item = item => Truthful(item)
    BY <1>2 DEF CoreInv, ResultInv
  <2>. QED BY <2>1, <2>2, <2>3, ResultFrame DEF CoreInv, ResultInv
<1>7. worker' \in [Workers -> {Idle, Exited, Asking} \cup Quoting \cup Sending]
  BY <1>1
<1>8. CoreInv'
  BY <1>4, <1>5, <1>6, <1>7, CoreFromParts DEF CoreInv, TypeInv
<1>9. new \notin {Idle, Exited}
  BY DEF Quoting, Sending, Idle, Exited
<1>. QED
  BY <1>2, <1>4, <1>8, <1>9

(* The origin check of a Slipstream deployment.                            *)
LEMMA CheckPreserves ==
    ASSUME IInv, NEW w \in Workers, CheckOrigin(w) \/ OriginChecked(w)
    PROVE  IInv'
<1>1. PICK pc \in {"quoting", "checking"} :
         /\ worker[w].pc \in {"quoting", "checking"}
         /\ worker' = [worker EXCEPT ![w].pc = pc]
         /\ UNCHANGED <<config, expired, cancelled, main, launched, sources, index, ordered, answer, stored>>
  BY DEF CheckOrigin, OriginChecked, contexts, queue
<1>2. worker[w] \in Quoting /\ worker[w].candidate \in Candidates /\ Holding(w) = {worker[w].candidate}
  BY <1>1, WorkerShape DEF IInv, CoreInv
<1>. DEFINE new == [pc |-> pc, index |-> worker[w].index, candidate |-> worker[w].candidate]
<1>3. new \in Quoting
  BY <1>2 DEF Quoting
<1>4. worker' = [worker EXCEPT ![w] = new]
  <2>1. [worker[w] EXCEPT !.pc = pc] = new
    BY <1>2 DEF Quoting
  <2>. HIDE DEF new
  <2>. QED BY <1>1, <2>1
<1>5. new.index = Place(new.candidate)
  BY <1>1, <1>2 DEF IInv, CoreInv, ResultInv
<1>6. Holding(w)' = Holding(w)
  <2>1. worker'[w] = new
    BY <1>4 DEF IInv, CoreInv, TypeInv
  <2>. QED BY <1>2, <2>1 DEF Holding
<1>7. new.pc = pc
  OBVIOUS
<1>. HIDE DEF new
<1>8. /\ CoreInv' /\ Remaining' = Remaining /\ worker'[w] \notin {Idle, Exited}
      /\ \A v \in Workers : v # w => worker'[v] = worker[v]
  BY <1>1, <1>3, <1>4, <1>5, <1>6, <1>7, SamePlace DEF IInv
<1>. QED
  BY <1>1, <1>8, WorkerStep

(* Quote returns, in time or late.                                         *)
LEMMA QuoteReturnsPreserves ==
    ASSUME IInv, NEW w \in Workers, QuoteReturns(w)
    PROVE  IInv'
<1>1. PICK result \in Results(w) :
         /\ worker[w].pc = "quoting"
         /\ worker' = [worker EXCEPT ![w] =
              [pc |-> "sending", item |-> Item(w, IF expired THEN Late ELSE result)]]
         /\ UNCHANGED <<config, expired, cancelled, main, launched, sources, index, ordered, answer, stored>>
  BY DEF QuoteReturns, contexts, queue, chain
<1>2. worker[w] \in Quoting /\ worker[w].candidate \in Candidates /\ Holding(w) = {worker[w].candidate}
  BY <1>1, WorkerShape DEF IInv, CoreInv
<1>3. PICK c, r : c \in Candidates /\ c = worker[w].candidate /\ r = IF expired THEN Late ELSE result
  BY <1>2
<1>4. worker[w].index = Place(c) /\ worker[w].index \in Nat
  BY <1>1, <1>2, <1>3 DEF IInv, CoreInv, ResultInv, Quoting
<1>5. result \in {Failed, QuoteOf(c)}
  BY <1>3 DEF Results
<1>6. QuoteOf(c) \in Answers /\ QuoteOf(c) # Late /\ Failed \in Answers /\ Failed # Late
  <2>1. QuoteOf(c) \in Answers /\ QuoteOf(c) # Late
    BY <1>3, QuotesAnswer DEF IInv, CoreInv
  <2>2. Failed \in Answers /\ Failed # Late
    BY DEF Answers, Failed, Late
  <2>. QED BY <2>1, <2>2
<1>7. r \in Outcomes /\ r \in {Failed, Late, QuoteOf(c)} /\ (r = Late => expired)
  BY <1>3, <1>5, <1>6 DEF Outcomes
<1>8. PICK item : item = [index |-> worker[w].index, candidate |-> c, result |-> r]
  OBVIOUS
<1>9. item \in WorkItems /\ Truthful(item) /\ item.candidate = c
  BY <1>3, <1>4, <1>7, <1>8 DEF WorkItems, Truthful
<1>10. PICK new : new = [pc |-> "sending", item |-> item]
  OBVIOUS
<1>11. new \in Sending /\ worker' = [worker EXCEPT ![w] = new] /\ new.pc = "sending" /\ new.item = item
  BY <1>1, <1>3, <1>8, <1>9, <1>10 DEF Sending, Item
<1>12. Holding(w)' = Holding(w)
  <2>1. worker'[w] = new
    BY <1>11 DEF IInv, CoreInv, TypeInv
  <2>. QED BY <1>2, <1>3, <1>9, <1>11, <2>1 DEF Holding
<1>13. /\ CoreInv' /\ Remaining' = Remaining /\ worker'[w] \notin {Idle, Exited}
       /\ \A v \in Workers : v # w => worker'[v] = worker[v]
  BY <1>1, <1>9, <1>11, <1>12, SamePlace DEF IInv
<1>. QED
  BY <1>1, <1>13, WorkerStep

LEMMA DeliverPreserves ==
    ASSUME IInv, NEW w \in Workers, Deliver(w)
    PROVE  IInv'
<1>1. PICK item : item = worker[w].item
  OBVIOUS
<1>2. /\ worker[w].pc = "sending" /\ ordered' = Append(ordered, item)
      /\ worker' = [worker EXCEPT ![w] = IF item.result = Late THEN Exited ELSE Asking]
      /\ UNCHANGED <<config, expired, cancelled, main, launched, sources, index, answer, stored>>
  BY <1>1 DEF Deliver, chain, queue, contexts, Asking
<1>3. item \in WorkItems /\ Truthful(item)
  BY <1>1, <1>2, WorkerShape DEF IInv, CoreInv, ResultInv
<1>4. QueueInv' /\ ApartInv' /\ Remaining' = Remaining /\ Items' = Items \cup {item}
  BY <1>1, Delivering DEF IInv, CoreInv
<1>5. worker \in [Workers -> {Idle, Exited, Asking} \cup Quoting \cup Sending] /\ ordered \in Seq(WorkItems)
  BY DEF IInv, CoreInv, TypeInv
<1>6. /\ worker'[w] \in {Exited, Asking} /\ (worker'[w] = Exited => item.result = Late)
      /\ \A v \in Workers : v # w => worker'[v] = worker[v]
  BY <1>2, <1>5 DEF Exited, Asking
<1>7. worker'[w] # Idle /\ worker'[w].pc \in {"exited", "asking"}
  BY <1>6 DEF Exited, Asking, Idle
<1>8. SourcesInv'
  BY <1>2, SourcesInOrder DEF IInv, CoreInv
<1>9. ResultInv'
  <2>1. \A v \in Workers, c \in Candidates :
              worker'[v].pc \in {"quoting", "checking"} /\ worker'[v].candidate = c
                  => worker'[v].index = Place(c)
    BY <1>6, <1>7 DEF IInv, CoreInv, ResultInv
  <2>2. \A v \in Workers, i \in WorkItems :
              worker'[v].pc = "sending" /\ worker'[v].item = i => Truthful(i)
    BY <1>6, <1>7 DEF IInv, CoreInv, ResultInv
  <2>3. \A i \in Items' : Truthful(i)
    BY <1>3, <1>4 DEF IInv, CoreInv, ResultInv
  <2>. QED BY <1>2, <2>1, <2>2, <2>3, ResultFrame DEF IInv
<1>10. worker' \in [Workers -> {Idle, Exited, Asking} \cup Quoting \cup Sending]
       /\ ordered' \in Seq(WorkItems)
  BY <1>2, <1>3, <1>5
<1>11. CoreInv'
  BY <1>2, <1>4, <1>8, <1>9, <1>10, CoreFromParts DEF IInv, CoreInv, TypeInv
<1>12. worker'[w] = Exited => expired
  BY <1>3, <1>6 DEF Truthful
<1>. QED
  BY <1>2, <1>4, <1>6, <1>7, <1>11, <1>12, WorkerStep

LEMMA AskPreserves ==
    ASSUME IInv, NEW w \in Workers, Ask(w)
    PROVE  IInv'
<1>1. /\ worker[w].pc = "asking"
      /\ UNCHANGED <<config, expired, cancelled, main, launched, ordered, answer, stored>>
  BY DEF Ask, chain, contexts
<1>2. Holding(w) = {}
  BY <1>1, WorkerShape DEF IInv, CoreInv
<1>3. worker \in [Workers -> {Idle, Exited, Asking} \cup Quoting \cup Sending]
  BY DEF IInv, CoreInv, TypeInv
<1>4. CASE TakesNext(w)
  <2>1. /\ CoreInv' /\ Remaining' \subseteq Remaining
        /\ worker'[w] # Idle /\ worker'[w] # Exited
        /\ \A v \in Workers : v # w => worker'[v] = worker[v]
    BY <1>1, <1>2, <1>4, Asks DEF IInv, CoreInv, TypeInv
  <2>. QED BY <1>1, <2>1, WorkerStep
<1>5. CASE FindsNone /\ worker' = [worker EXCEPT ![w] = Exited]
  <2>1. /\ Remaining' \subseteq Remaining /\ sources' \in Lists /\ SourcesInv'
        /\ ~expired' => Remaining = {} /\ Remaining' = {}
        /\ index' = index
    BY <1>1, <1>5, FindsNoneFrame DEF IInv, CoreInv
  <2>2. worker'[w] = Exited /\ worker'[w] # Idle /\ worker'[w].pc = "exited"
        /\ \A v \in Workers : v # w => worker'[v] = worker[v]
    BY <1>3, <1>5 DEF Exited, Idle
  <2>3. \A v \in Workers : Holding(v)' = Holding(v)
    BY <1>2, <2>2 DEF Holding
  <2>4. QueueInv' /\ ApartInv'
    BY <1>1, <2>1, <2>3, Frame DEF IInv, CoreInv
  <2>5. ResultInv'
    <3>1. Items' = Items
      BY <1>1 DEF Items
    <3>2. \A v \in Workers, c \in Candidates :
              worker'[v].pc \in {"quoting", "checking"} /\ worker'[v].candidate = c
                  => worker'[v].index = Place(c)
      BY <2>2 DEF IInv, CoreInv, ResultInv
    <3>3. \A v \in Workers, i \in WorkItems :
              worker'[v].pc = "sending" /\ worker'[v].item = i => Truthful(i)
      BY <2>2 DEF IInv, CoreInv, ResultInv
    <3>. QED BY <1>1, <3>1, <3>2, <3>3, ResultFrame DEF IInv, CoreInv, ResultInv
  <2>6. worker' \in [Workers -> {Idle, Exited, Asking} \cup Quoting \cup Sending]
    BY <1>3, <1>5
  <2>7. CoreInv'
    BY <1>1, <2>1, <2>4, <2>5, <2>6, CoreFromParts DEF IInv, CoreInv, TypeInv
  <2>. QED BY <1>1, <2>1, <2>2, <2>7, WorkerStep
<1>. QED
  BY <1>4, <1>5 DEF Ask

-----------------------------------------------------------------------------
(* The invariant holds.                                                    *)

LEMMA InitHolds == Init => IInv
<1>. SUFFICES ASSUME Init PROVE IInv
  OBVIOUS
<1>1. ConfigInv
  <2>1. PICK s \in Searches : deployments = s.deployments /\ market = s.market
    BY DEF Init
  <2>. QED BY <2>1, SearchAssumption DEF ConfigInv
<1>2. PICK n \in Nat : n = Len(deployments) /\ DOMAIN deployments = 1..n
  BY <1>1, SeqShape DEF ConfigInv
<1>3. \A i \in DOMAIN deployments : deployments[i].paths \in Seq(Seq(DOMAIN market))
  <2>. DEFINE R == [kind : Kinds, paths : Seq(Seq(DOMAIN market))]
  <2>1. deployments \in Seq(R)
    BY <1>1 DEF ConfigInv
  <2>. HIDE DEF R
  <2>2. \A i \in DOMAIN deployments : deployments[i] \in R
    BY <2>1, SeqShape
  <2>. QED BY <2>2 DEF R
<1>4. /\ DOMAIN sources = DOMAIN deployments
      /\ \A i \in DOMAIN sources : sources[i] = [j \in DOMAIN deployments[i].paths |-> <<i, j>>]
      /\ sources = [i \in 1..n |-> sources[i]]
  BY <1>2 DEF Init
<1>5. \A i \in DOMAIN sources : /\ DOMAIN sources[i] = DOMAIN deployments[i].paths
                                /\ \A j \in DOMAIN sources[i] : sources[i][j] = <<i, j>>
  BY <1>4
<1>6. \A c : c \in Remaining <=> c \in Candidates
  <2>1. \A c : c \in Remaining <=> \E i, j : i \in DOMAIN sources /\ j \in DOMAIN sources[i] /\ c = sources[i][j]
    BY RemainingShape, MembersShape
  <2>2. \A c : c \in Candidates <=>
                  \E i, j : i \in DOMAIN deployments /\ j \in DOMAIN deployments[i].paths /\ c = <<i, j>>
    BY DEF Candidates
  <2>3. ASSUME NEW c \in Remaining PROVE c \in Candidates
    <3>1. PICK i, j : i \in DOMAIN sources /\ j \in DOMAIN sources[i] /\ c = sources[i][j]
      BY <2>1
    <3>2. i \in DOMAIN deployments /\ j \in DOMAIN deployments[i].paths /\ c = <<i, j>>
      BY <1>4, <1>5, <3>1
    <3>. QED BY <2>2, <3>2
  <2>4. ASSUME NEW c \in Candidates PROVE c \in Remaining
    <3>1. PICK i, j : i \in DOMAIN deployments /\ j \in DOMAIN deployments[i].paths /\ c = <<i, j>>
      BY <2>2
    <3>2. i \in DOMAIN sources /\ j \in DOMAIN sources[i] /\ c = sources[i][j]
      BY <1>4, <1>5, <3>1
    <3>. QED BY <2>1, <3>2
  <2>. QED BY <2>3, <2>4
<1>7. sources \in Lists
  <2>1. ASSUME NEW i \in DOMAIN sources PROVE sources[i] \in Seq(Candidates)
    <3>1. PICK m \in Nat : DOMAIN deployments[i].paths = 1..m
      BY <1>3, <1>4, SeqShape
    <3>2. \A j \in 1..m : <<i, j>> \in Candidates
      BY <1>4, <3>1 DEF Candidates
    <3>3. sources[i] \in [1..m -> Candidates]
      BY <1>4, <3>1, <3>2
    <3>. QED BY <3>1, <3>3 DEF Seq
  <2>2. sources \in [1..n -> Seq(Candidates)]
    BY <1>2, <1>4, <2>1
  <2>. QED BY <1>2, <2>2 DEF Seq, Lists
<1>8. SourcesInv
  <2>. SUFFICES ASSUME NEW i \in DOMAIN sources, NEW j \in DOMAIN sources,
                       NEW a \in DOMAIN sources[i], NEW b \in DOMAIN sources[j],
                       i < j \/ (i = j /\ a < b)
                PROVE  Before(sources[i][a], sources[j][b])
    BY DEF SourcesInv, InOrder
  <2>1. sources[i][a] = <<i, a>> /\ sources[j][b] = <<j, b>>
    BY <1>5
  <2>. QED BY <2>1 DEF Before
<1>9. /\ \A w \in Workers : worker[w] = Idle
      /\ worker \in [Workers -> {Idle, Exited, Asking} \cup Quoting \cup Sending]
      /\ ordered = <<>> /\ DOMAIN ordered = {} /\ expired = FALSE /\ cancelled = FALSE /\ index = 0
      /\ main = "snapshot" /\ launched = 0 /\ stored = FALSE
  BY DEF Init
<1>10. \A w \in Workers : Holding(w) = {}
  BY <1>9 DEF Holding, Idle
<1>11. Received = {} /\ Items = {} /\ Handed = {}
  BY <1>9, <1>10 DEF Received, Items, Handed
<1>12. TypeInv
  <2>1. launched \in 0..Concurrency
    BY <1>9, SearchAssumption
  <2>2. ordered \in Seq(WorkItems)
    BY <1>9, EmptySeq
  <2>. QED BY <1>7, <1>9, <2>1, <2>2 DEF TypeInv
<1>13. QueueInv
  <2>1. IsFiniteSet(Handed) /\ Cardinality(Handed) = index
    BY <1>9, <1>11, FS_EmptySet
  <2>2. {Place(c) : c \in Handed} = 0..(index - 1)
    BY <1>9, <1>11
  <2>. QED BY <1>6, <1>11, <2>1, <2>2 DEF QueueInv
<1>14. ApartInv
  BY <1>9, <1>10 DEF ApartInv
<1>15. ResultInv
  BY <1>9, <1>11 DEF ResultInv, Idle
<1>16. PoolInv
  BY <1>9 DEF PoolInv, Idle, Exited, Workers
<1>17. AnswerInv
  BY <1>9 DEF AnswerInv, Answered
<1>. QED
  BY <1>1, <1>8, <1>12, <1>13, <1>14, <1>15, <1>16, <1>17 DEF IInv, CoreInv

LEMMA NextPreserves == IInv /\ [Next]_vars => IInv'
<1>. SUFFICES ASSUME IInv, [Next]_vars PROVE IInv'
  OBVIOUS
<1>1. CASE Expire \/ Cancel
  BY <1>1, ExpirePreserves
<1>2. CASE TakeSnapshot
  BY <1>2, TakeSnapshotPreserves
<1>3. CASE Launch
  BY <1>3, LaunchPreserves
<1>4. CASE Close
  BY <1>4, ClosePreserves
<1>5. CASE Fold
  BY <1>5, FoldPreserves
<1>6. ASSUME NEW w \in Workers,
             CheckOrigin(w) \/ OriginChecked(w) \/ QuoteReturns(w) \/ Deliver(w) \/ Ask(w)
      PROVE  IInv'
  BY <1>6, CheckPreserves, QuoteReturnsPreserves, DeliverPreserves, AskPreserves
<1>7. CASE UNCHANGED vars
  <2>1. /\ UNCHANGED <<chain, queue, worker, ordered, expired, cancelled, main, launched, answer, stored>>
        /\ UNCHANGED config
    BY <1>7 DEF vars, contexts, chain
  <2>2. CoreInv' /\ Remaining' = Remaining
    BY <2>1, CoreKept DEF IInv, CoreInv, TypeInv
  <2>3. PoolInv'
    BY <2>1, <2>2 DEF IInv, PoolInv, Idle, Exited, Workers
  <2>4. AnswerInv'
    BY <2>1, AnswerKept DEF IInv
  <2>. QED BY <2>2, <2>3, <2>4 DEF IInv
<1>. QED
  BY <1>1, <1>2, <1>3, <1>4, <1>5, <1>6, <1>7 DEF Next, Finished

LEMMA Invariant == Spec => []IInv
<1>. QED
  BY InitHolds, NextPreserves, PTL DEF Spec

(* Every candidate is in one place at any time, to be handed out, with one *)
(* worker or received, whatever the workers do at once: the mutex of       *)
(* searchCandidates.next and the unbuffered results channel of handler.go  *)
(* lose none and double none.                                              *)
THEOREM NothingIsLost == Spec => []NothingLostOrDoubled
<1>1. IInv => NothingLostOrDoubled
  BY DEF IInv, CoreInv, QueueInv, ApartInv, Handed, NothingLostOrDoubled
<1>. QED
  BY <1>1, Invariant, PTL

(* GetQuote returns only when every goroutine it started has returned, and *)
(* saves a quote exactly when it answers.                                  *)
THEOREM AllWorkersReturn == Spec => []NoWorkerLeft
<1>1. IInv => NoWorkerLeft
  BY DEF IInv, PoolInv, AnswerInv, NoWorkerLeft
<1>. QED
  BY <1>1, Invariant, PTL

-----------------------------------------------------------------------------
(* The results in order.                                                   *)

(* What was received, as a set: one result per candidate and per index.    *)
LEMMA ItemsShape ==
    ASSUME CoreInv
    PROVE  /\ IsFiniteSet(Items)
           /\ \A item \in Items :
                 /\ item \in WorkItems /\ item.candidate \in Candidates /\ item.index = Place(item.candidate)
                 /\ item.index \in Nat
                 /\ item.result \in {Failed, Late, QuoteOf(item.candidate)}
                 /\ item = [index |-> item.index, candidate |-> item.candidate, result |-> item.result]
           /\ \A x, y \in Items : x.candidate = y.candidate => x = y
           /\ \A x, y \in Items : x.index = y.index => x = y
           /\ Received = {item.candidate : item \in Items}
<1>1. DOMAIN ordered = 1..Len(ordered) /\ Len(ordered) \in Nat /\ Items \subseteq WorkItems
  BY OrderedShape DEF CoreInv
<1>2. IsFiniteSet(Items)
  <2>. DEFINE f == [i \in DOMAIN ordered |-> ordered[i]]
  <2>1. f \in Surjection(DOMAIN ordered, Items)
    BY DEF Surjection, Items
  <2>2. IsFiniteSet(DOMAIN ordered)
    BY <1>1, FS_Interval
  <2>. HIDE DEF f
  <2>. QED BY <2>1, <2>2, FS_Surjection
<1>3. ASSUME NEW item \in Items
      PROVE  /\ item \in WorkItems /\ item.candidate \in Candidates /\ item.index = Place(item.candidate)
             /\ item.index \in Nat
             /\ item.result \in {Failed, Late, QuoteOf(item.candidate)}
             /\ item = [index |-> item.index, candidate |-> item.candidate, result |-> item.result]
  <2>1. item \in WorkItems
    BY <1>1, <1>3
  <2>2. /\ item.candidate \in Candidates /\ item.index \in Nat
        /\ item = [index |-> item.index, candidate |-> item.candidate, result |-> item.result]
    BY <2>1 DEF WorkItems
  <2>. QED BY <1>3, <2>1, <2>2 DEF CoreInv, ResultInv, Truthful
<1>4. \A x, y \in Items : x.candidate = y.candidate => x = y
  <2>1. \A i, j \in DOMAIN ordered : ordered[i].candidate = ordered[j].candidate => i = j
    BY DEF CoreInv, ApartInv
  <2>. QED BY <2>1 DEF Items
<1>5. \A x, y \in Items : x.index = y.index => x = y
  <2>. SUFFICES ASSUME NEW x \in Items, NEW y \in Items, x.index = y.index PROVE x = y
    OBVIOUS
  <2>1. PICK c \in Candidates, d \in Candidates : c = x.candidate /\ d = y.candidate
    BY <1>3
  <2>2. c = d
    BY <1>3, <2>1, PlacesInOrder DEF CoreInv
  <2>. QED BY <1>4, <2>1, <2>2
<1>6. Received = {item.candidate : item \in Items}
  BY DEF Received, Items
<1>. QED
  BY <1>2, <1>3, <1>4, <1>5, <1>6

(* sort.Slice over results whose indices differ: all of them, once each,   *)
(* by increasing index.                                                    *)
LEMMA SortedShape ==
    ASSUME CoreInv, NEW items \in SUBSET Items
    PROVE  /\ IsFiniteSet(items) /\ Cardinality(items) \in Nat
           /\ DOMAIN Sorted(items) = 1..Cardinality(items)
           /\ Len(Sorted(items)) = Cardinality(items)
           /\ \A k \in DOMAIN Sorted(items) :
                 /\ Sorted(items)[k] \in items
                 /\ Cardinality({other \in items : other.index < Sorted(items)[k].index}) = k - 1
           /\ \A k, l \in DOMAIN Sorted(items) : k < l => Sorted(items)[k].index < Sorted(items)[l].index
           /\ \A item \in items : \E k \in DOMAIN Sorted(items) : Sorted(items)[k] = item
<1>1. IsFiniteSet(items) /\ Cardinality(items) \in Nat
  BY ItemsShape, FS_Subset, FS_CardinalityType
<1>. DEFINE key == [item \in items |-> item.index]
            Below(x) == {other \in items : other.index < x.index}
            rank == [x \in items |-> Cardinality(Below(x))]
            n == Cardinality(items)
<1>2. key \in [items -> Nat] /\ \A x, y \in items : key[x] = key[y] => x = y
  BY ItemsShape
<1>3. Ranks(items, key, rank)
  BY DEF Ranks
<1>4. /\ \A k \in 1..n : \E x \in items :
            /\ Cardinality(Below(x)) = k - 1
            /\ \A z \in items : Cardinality(Below(z)) = k - 1 => z = x
      /\ \A x \in items : \E k \in 1..n : Cardinality(Below(x)) = k - 1
  <2>1. /\ \A k \in 1..n : \E x \in items :
              rank[x] = k - 1 /\ \A z \in items : rank[z] = k - 1 => z = x
        /\ \A x \in items : \E k \in 1..n : rank[x] = k - 1
    <3>. HIDE DEF key, rank
    <3>. QED BY <1>1, <1>2, <1>3, Ranking
  <2>2. \A x \in items : rank[x] = Cardinality(Below(x))
    OBVIOUS
  <2>. HIDE DEF rank, Below, n
  <2>. QED BY <2>1, <2>2
<1>5. /\ DOMAIN Sorted(items) = 1..n
      /\ \A k \in 1..n : Sorted(items)[k] = CHOOSE item \in items : Cardinality(Below(item)) = k - 1
  BY DEF Sorted
<1>6. Len(Sorted(items)) = n
  BY <1>1 DEF Sorted
<1>. HIDE DEF key, Below, n
<1>7. \A k \in 1..n : /\ Sorted(items)[k] \in items
                      /\ Cardinality(Below(Sorted(items)[k])) = k - 1
  BY <1>4, <1>5
<1>8. ASSUME NEW item \in items PROVE \E k \in 1..n : Sorted(items)[k] = item
  <2>1. PICK k \in 1..n : Cardinality(Below(item)) = k - 1
    BY <1>4
  <2>2. Sorted(items)[k] = item
    BY <1>4, <1>7, <2>1
  <2>. QED BY <2>2
<1>9. ASSUME NEW k \in 1..n, NEW l \in 1..n, k < l
      PROVE  Sorted(items)[k].index < Sorted(items)[l].index
  <2>1. PICK x \in items, y \in items : x = Sorted(items)[k] /\ y = Sorted(items)[l]
    BY <1>7
  <2>2. Cardinality(Below(x)) = k - 1 /\ Cardinality(Below(y)) = l - 1
    BY <1>7, <2>1
  <2>3. x.index \in Nat /\ y.index \in Nat
    BY ItemsShape
  <2>4. ASSUME y.index <= x.index PROVE FALSE
    <3>1. Below(y) \in SUBSET Below(x)
      <4>1. ASSUME NEW z \in items, z.index < y.index PROVE z.index < x.index
        <5>1. z.index \in Nat
          BY ItemsShape
        <5>. QED BY <2>3, <2>4, <4>1, <5>1
      <4>. QED BY <4>1 DEF Below
    <3>2. IsFiniteSet(Below(x))
      BY <1>1, FS_Subset DEF Below
    <3>3. Cardinality(Below(y)) <= Cardinality(Below(x))
      BY <3>1, <3>2, FS_Subset
    <3>4. k \in Int /\ l \in Int /\ l - 1 <= k - 1
      BY <2>2, <3>3, <1>1 DEF n
    <3>. QED BY <1>9, <3>4
  <2>. QED BY <2>1, <2>3, <2>4
<1>10. \A k \in DOMAIN Sorted(items) :
                 /\ Sorted(items)[k] \in items
                 /\ Cardinality({other \in items : other.index < Sorted(items)[k].index}) = k - 1
  BY <1>5, <1>7 DEF Below
<1>. QED
  BY <1>1, <1>5, <1>6, <1>8, <1>9, <1>10 DEF n

(* A result is a route, an error or a missing pool, and a route is what    *)
(* the quoter says.                                                        *)
LEMMA ResultKinds ==
    ASSUME CoreInv
    PROVE  \A item \in Items :
              /\ IsRoute(item) => /\ item.result = QuoteOf(item.candidate)
                                  /\ ~IsError(item) /\ item.result # Missing
              /\ IsError(item) => item.result # Missing
              /\ IsRoute(item) \/ IsError(item) \/ item.result = Missing
              /\ item.result = Missing => QuoteOf(item.candidate) = Missing
<1>. TAKE item \in Items
<1>1. /\ item.candidate \in Candidates
      /\ item.result \in {Failed, Late, QuoteOf(item.candidate)}
  BY ItemsShape
<1>2. QuoteOf(item.candidate) \in Answers
  BY <1>1, QuotesAnswer DEF CoreInv
<1>3. /\ \A a \in Answers : a.kind = "route" \/ a = Failed \/ a = Missing
      /\ Failed.kind = "error" /\ Late.kind = "search budget expired" /\ Missing.kind = "missing"
  BY DEF Answers, Failed, Late, Missing
<1>. QED
  BY <1>1, <1>2, <1>3 DEF IsRoute, IsError

LEMMA AnswerParts ==
    ASSUME IInv, Answered
    PROVE  /\ answer.routes = Routes /\ answer.errors = Errors
           /\ answer.complete =>
                 Received = Candidates /\ \A item \in Items : item.result # Late
BY DEF IInv, AnswerInv

(* The routes and errors of the response hold every such result, in order. *)
LEMMA RoutesShape ==
    ASSUME CoreInv
    PROVE  /\ \A i \in DOMAIN Routes : Routes[i] \in Items /\ IsRoute(Routes[i])
           /\ \A i, j \in DOMAIN Routes : i < j => Routes[i].index < Routes[j].index
           /\ \A item \in Items : IsRoute(item) => item.candidate \in Reported(Routes)
           /\ \A item \in Items : IsError(item) => item.candidate \in Reported(Errors)
           /\ Len(Routes) = Cardinality({item \in Items : IsRoute(item)})
           /\ Len(Errors) = Cardinality({item \in Items : IsError(item)})
<1>. DEFINE R == {item \in Items : IsRoute(item)}
            E == {item \in Items : IsError(item)}
<1>1. R \in SUBSET Items /\ E \in SUBSET Items /\ Routes = Sorted(R) /\ Errors = Sorted(E)
  BY DEF Routes, Errors
<1>2. /\ \A i \in DOMAIN Sorted(R) : Sorted(R)[i] \in R
      /\ \A i, j \in DOMAIN Sorted(R) : i < j => Sorted(R)[i].index < Sorted(R)[j].index
      /\ \A item \in R : \E i \in DOMAIN Sorted(R) : Sorted(R)[i] = item
      /\ Len(Sorted(R)) = Cardinality(R)
  <2>. HIDE DEF R
  <2>. QED BY <1>1, SortedShape
<1>3. /\ \A item \in E : \E i \in DOMAIN Sorted(E) : Sorted(E)[i] = item
      /\ Len(Sorted(E)) = Cardinality(E)
  <2>. HIDE DEF E
  <2>. QED BY <1>1, SortedShape
<1>4. \A item \in R : item.candidate \in Reported(Routes)
  <2>. HIDE DEF R
  <2>. QED BY <1>1, <1>2 DEF Reported
<1>5. \A item \in E : item.candidate \in Reported(Errors)
  <2>. HIDE DEF E
  <2>. QED BY <1>1, <1>3 DEF Reported
<1>. QED
  BY <1>1, <1>2, <1>3, <1>4, <1>5

(* Every route GetQuote offers spends its whole input at each hop when it  *)
(* is executed at the block of the quote, and pays what was quoted; and a  *)
(* path that would do so is in a complete answer, as a route or an error.  *)
THEOREM OfferedRoutesExecute == Spec => []RoutesExecute
<1>1. IInv => RoutesExecute
  <2>. SUFFICES ASSUME IInv, Answered PROVE RoutesExecute
    BY DEF RoutesExecute
  <2>1. CoreInv /\ ConfigInv
    BY DEF IInv, CoreInv
  <2>2. answer.routes = Routes /\ answer.errors = Errors
        /\ (answer.complete => Received = Candidates /\ \A item \in Items : item.result # Late)
    BY AnswerParts
  <2>3. ASSUME NEW i \in DOMAIN Routes
        PROVE  Execution(Routes[i].candidate) = [whole |-> TRUE, amount |-> Routes[i].result.output]
    <3>1. PICK item \in Items : item = Routes[i] /\ IsRoute(item)
      BY <2>1, RoutesShape
    <3>2. item.candidate \in Candidates /\ item.result = QuoteOf(item.candidate)
      BY <2>1, <3>1, ItemsShape, ResultKinds
    <3>3. PICK c \in Candidates : c = item.candidate
      BY <3>2
    <3>4. Execution(c) = [whole |-> TRUE, amount |-> QuoteOf(c).output]
      BY <2>1, <3>1, <3>2, <3>3, QuotesAnswer DEF IsRoute
    <3>. QED BY <3>1, <3>2, <3>3, <3>4
  <2>4. ASSUME answer.complete, NEW c \in Candidates
        PROVE  c \in Reported(Routes) \cup Reported(Errors) \/ ~Execution(c).whole
    <3>1. PICK item \in Items : item.candidate = c
      BY <2>1, <2>2, <2>4, ItemsShape
    <3>2. CASE IsRoute(item) \/ IsError(item)
      BY <2>1, <3>1, <3>2, RoutesShape
    <3>3. CASE item.result = Missing
      <4>1. QuoteOf(c) = Missing
        BY <2>1, <3>1, <3>3, ResultKinds
      <4>. QED BY <2>1, <4>1, QuotesAnswer
    <3>. QED BY <2>1, <3>2, <3>3, ResultKinds
  <2>. QED BY <2>2, <2>3, <2>4 DEF RoutesExecute
<1>. QED
  BY <1>1, Invariant, PTL

(* Results are counted alike as a list and as a set.                       *)
LEMMA CountKept ==
    ASSUME CoreInv
    PROVE  Cardinality({item \in Items : IsRoute(item)}) + Cardinality({item \in Items : IsError(item)})
              = Cardinality({i \in DOMAIN ordered : ordered[i].result # Missing})
<1>. DEFINE R == {item \in Items : IsRoute(item)}
            E == {item \in Items : IsError(item)}
            I == {i \in DOMAIN ordered : ordered[i].result # Missing}
            f == [i \in I |-> ordered[i]]
<1>1. IsFiniteSet(R) /\ IsFiniteSet(E)
  <2>1. R \in SUBSET Items /\ E \in SUBSET Items
    OBVIOUS
  <2>. HIDE DEF R, E
  <2>. QED BY <2>1, ItemsShape, FS_Subset
<1>2. R \cap E = {}
  BY ResultKinds
<1>3. Cardinality(R \cup E) = Cardinality(R) + Cardinality(E) /\ IsFiniteSet(R \cup E)
  <2>. HIDE DEF R, E
  <2>1. Cardinality({}) = 0 /\ Cardinality(R) \in Nat /\ Cardinality(E) \in Nat
    BY <1>1, FS_EmptySet, FS_CardinalityType
  <2>. QED BY <1>1, <1>2, <2>1, FS_Union
<1>4. IsFiniteSet(I)
  <2>1. DOMAIN ordered = 1..Len(ordered) /\ Len(ordered) \in Nat
    BY OrderedShape DEF CoreInv
  <2>2. IsFiniteSet(DOMAIN ordered)
    BY <2>1, FS_Interval
  <2>3. I \in SUBSET DOMAIN ordered
    OBVIOUS
  <2>. HIDE DEF I
  <2>. QED BY <2>2, <2>3, FS_Subset
<1>5. ASSUME NEW x PROVE x \in R \cup E <=> x \in Items /\ x.result # Missing
  BY ResultKinds
<1>6. \A i \in I : f[i] \in R \cup E
  <2>. HIDE DEF R, E
  <2>. QED BY <1>5 DEF Items
<1>7. \A x \in R \cup E : \E i \in I : f[i] = x
  <2>. SUFFICES ASSUME NEW x \in R \cup E PROVE \E i \in I : f[i] = x
    OBVIOUS
  <2>. HIDE DEF R, E
  <2>1. PICK i \in DOMAIN ordered : ordered[i] = x
    BY <1>5 DEF Items
  <2>2. i \in I
    BY <1>5, <2>1
  <2>. QED BY <2>1, <2>2
<1>8. \A i, j \in I : f[i] = f[j] => i = j
  BY DEF CoreInv, ApartInv
<1>9. f \in Surjection(I, R \cup E) /\ f \in Injection(I, R \cup E)
  <2>1. f \in [I -> R \cup E]
    <3>. HIDE DEF R, E
    <3>. QED BY <1>6
  <2>. HIDE DEF R, E, I, f
  <2>. QED BY <1>7, <1>8, <2>1 DEF Surjection, Injection, IsInjective
<1>10. Cardinality(R \cup E) = Cardinality(I)
  <2>. HIDE DEF R, E, I, f
  <2>. QED BY <1>4, <1>9, FS_Surjection
<1>. QED
  <2>. HIDE DEF R, E, I
  <2>1. Cardinality(R) + Cardinality(E) = Cardinality(I)
    BY <1>3, <1>10
  <2>. QED BY <2>1 DEF R, E, I

(* A partial answer is true: its routes carry their quotes in candidate    *)
(* order, the results fill the indices that were handed out, and every one *)
(* of them that is not a missing pool is in the response.                  *)
THEOREM PartialTruth == Spec => []PartialIsTruthful
<1>1. IInv => PartialIsTruthful
  <2>. SUFFICES ASSUME IInv, Answered PROVE PartialIsTruthful
    BY DEF PartialIsTruthful
  <2>1. CoreInv
    BY DEF IInv
  <2>2. answer.routes = Routes /\ answer.errors = Errors
    BY AnswerParts
  <2>3. \A i \in DOMAIN Routes : Routes[i].result = QuoteOf(Routes[i].candidate)
    BY <2>1, RoutesShape, ResultKinds
  <2>4. \A i, j \in DOMAIN Routes : i < j => Routes[i].index < Routes[j].index
    BY <2>1, RoutesShape
  <2>5. {ordered[i].index : i \in DOMAIN ordered} = 0..(index - 1)
    <3>1. \A w \in Workers : worker[w] \in {Idle, Exited}
      BY DEF IInv, PoolInv, Answered
    <3>2. \A w \in Workers : Holding(w) = {}
      BY <3>1 DEF Holding, Idle, Exited
    <3>3. Handed = Received
      BY <3>2 DEF Handed
    <3>4. {Place(c) : c \in Received} = 0..(index - 1)
      BY <2>1, <3>3 DEF CoreInv, QueueInv
    <3>5. \A i \in DOMAIN ordered : ordered[i].index = Place(ordered[i].candidate)
      BY <2>1, ItemsShape DEF Items
    <3>6. {ordered[i].index : i \in DOMAIN ordered} = {Place(c) : c \in Received}
      BY <3>5 DEF Received
    <3>. QED BY <3>4, <3>6
  <2>6. Len(Routes) + Len(Errors) = Cardinality({i \in DOMAIN ordered : ordered[i].result # Missing})
    BY <2>1, RoutesShape, CountKept
  <2>. QED BY <2>2, <2>3, <2>4, <2>5, <2>6 DEF PartialIsTruthful
<1>. QED
  BY <1>1, Invariant, PTL

LEMMA SameCount ==
    ASSUME CoreInv, NEW items \in SUBSET Items, NEW cs, cs = {item.candidate : item \in items}
    PROVE  IsFiniteSet(cs) /\ Cardinality(cs) = Cardinality(items)
<1>. DEFINE f == [item \in items |-> item.candidate]
<1>1. f \in Surjection(items, cs) /\ f \in Injection(items, cs)
  BY ItemsShape DEF Surjection, Injection, IsInjective
<1>2. IsFiniteSet(items)
  BY ItemsShape, FS_Subset
<1>. QED
  <2>. HIDE DEF f
  <2>. QED BY <1>1, <1>2, FS_Surjection

(* Taking candidates in their order is sorting their results by index.     *)
LEMMA InTurnIsSorted ==
    ASSUME CoreInv, \A item \in Items : item.result # Late,
           NEW items \in SUBSET Items, NEW cs, cs = {item.candidate : item \in items}
    PROVE  InTurn(cs) = Sorted(items)
<1>. DEFINE n == Cardinality(items)
            Below(c) == {d \in cs : Before(d, c)}
            key == [c \in cs |-> Place(c)]
            rank == [c \in cs |-> Cardinality(Below(c))]
<1>1. IsFiniteSet(cs) /\ Cardinality(cs) = n /\ cs \subseteq Candidates
  <2>1. cs \subseteq Candidates
    BY ItemsShape
  <2>. QED BY <2>1, SameCount
<1>2. \A item \in Items : ResultOf(item.candidate) = item.result
  <2>. SUFFICES ASSUME NEW item \in Items PROVE ResultOf(item.candidate) = item.result
    OBVIOUS
  <2>1. item.result \in {Failed, QuoteOf(item.candidate)}
    BY ItemsShape
  <2>2. PICK i \in DOMAIN ordered : ordered[i] = item
    BY DEF Items
  <2>3. \A j \in DOMAIN ordered : ordered[j].candidate = item.candidate => ordered[j] = item
    BY ItemsShape DEF Items
  <2>. QED BY <2>1, <2>2, <2>3 DEF ResultOf
<1>3. /\ DOMAIN InTurn(cs) = 1..n
      /\ \A k \in 1..n : InTurn(cs)[k] =
            LET c == CHOOSE c \in cs : Cardinality(Below(c)) = k - 1
            IN  [index |-> Place(c), candidate |-> c, result |-> ResultOf(c)]
      /\ InTurn(cs) = [k \in 1..n |-> InTurn(cs)[k]]
  BY <1>1 DEF InTurn
<1>4. key \in [cs -> Nat] /\ \A x, y \in cs : key[x] = key[y] => x = y
  BY <1>1, PlacesInOrder DEF CoreInv
<1>5. Ranks(cs, key, rank)
  <2>1. \A c \in cs : Below(c) = {d \in cs : key[d] < key[c]}
    BY <1>1, PlacesInOrder DEF CoreInv
  <2>. HIDE DEF Below, key
  <2>. QED BY <2>1 DEF Ranks
<1>6. \A k \in 1..n : \E c \in cs : rank[c] = k - 1 /\ \A d \in cs : rank[d] = k - 1 => d = c
  <2>. HIDE DEF key, rank, n
  <2>. QED BY <1>1, <1>4, <1>5, Ranking
<1>7. ASSUME NEW item \in items
      PROVE  Cardinality(Below(item.candidate)) = Cardinality({other \in items : other.index < item.index})
  <2>. DEFINE T == {other \in items : other.index < item.index}
  <2>1. T \in SUBSET Items
    OBVIOUS
  <2>2. \A other \in items : other.index < item.index <=> Before(other.candidate, item.candidate)
    <3>. TAKE other \in items
    <3>1. PICK c \in Candidates, d \in Candidates : c = other.candidate /\ d = item.candidate
      BY ItemsShape
    <3>2. other.index = Place(c) /\ item.index = Place(d)
      BY <3>1, ItemsShape
    <3>. QED BY <3>1, <3>2, PlacesInOrder DEF CoreInv
  <2>3. Below(item.candidate) = {other.candidate : other \in T}
    BY <2>2
  <2>. HIDE DEF T, Below
  <2>4. Cardinality(Below(item.candidate)) = Cardinality(T)
    BY <2>1, <2>3, SameCount
  <2>. QED BY <2>4 DEF T
<1>8. ASSUME NEW k \in 1..n PROVE InTurn(cs)[k] = Sorted(items)[k]
  <2>1. PICK item \in items : /\ item = Sorted(items)[k]
                              /\ Cardinality({other \in items : other.index < item.index}) = k - 1
    BY SortedShape
  <2>2. PICK c \in cs : c = item.candidate
    OBVIOUS
  <2>3. Cardinality(Below(c)) = k - 1
    <3>. HIDE DEF Below
    <3>. QED BY <1>7, <2>1, <2>2
  <2>4. \A d \in cs : Cardinality(Below(d)) = k - 1 => d = c
    <3>1. \A d \in cs : rank[d] = Cardinality(Below(d))
      OBVIOUS
    <3>. HIDE DEF rank, Below, n
    <3>. QED BY <1>6, <2>3, <3>1
  <2>5. (CHOOSE d \in cs : Cardinality(Below(d)) = k - 1) = c
    <3>. HIDE DEF Below
    <3>. QED BY <2>3, <2>4
  <2>6. InTurn(cs)[k] = [index |-> Place(c), candidate |-> c, result |-> ResultOf(c)]
    <3>. HIDE DEF Below, n
    <3>. QED BY <1>3, <2>5
  <2>7. item = [index |-> Place(c), candidate |-> c, result |-> ResultOf(c)]
    BY <1>2, <2>2, ItemsShape
  <2>. QED BY <2>1, <2>6, <2>7
<1>9. Sorted(items) = [k \in 1..n |-> Sorted(items)[k]]
  <2>. DEFINE at(k) == CHOOSE item \in items :
                          Cardinality({other \in items : other.index < item.index}) = k - 1
  <2>1. Sorted(items) = [k \in 1..n |-> at(k)]
    BY DEF Sorted
  <2>. HIDE DEF at, n
  <2>2. ASSUME NEW f, f = [k \in 1..n |-> at(k)] PROVE f = [k \in 1..n |-> f[k]]
    BY <2>2
  <2>. QED BY <2>1, <2>2
<1>. QED
  <2>. DEFINE s == InTurn(cs)
              t == Sorted(items)
  <2>1. s = [k \in 1..n |-> s[k]] /\ t = [k \in 1..n |-> t[k]] /\ \A k \in 1..n : s[k] = t[k]
    BY <1>3, <1>8, <1>9
  <2>. HIDE DEF s, t, n
  <2>2. s = t
    BY <2>1
  <2>. QED BY <2>2 DEF s, t

(* A complete response is the one a single worker would have given had the *)
(* same calls failed: neither QuoteConcurrency nor the order in which the  *)
(* workers finish shows in its routes, its errors or its best route.       *)
THEOREM CompleteIsSequential == Spec => []ConcurrencyInvisible
<1>1. IInv => ConcurrencyInvisible
  <2>. SUFFICES ASSUME IInv, Answered, answer.complete PROVE answer = Sequential
    BY DEF ConcurrencyInvisible
  <2>1. CoreInv
    BY DEF IInv
  <2>2. Received = Candidates /\ \A item \in Items : item.result # Late
    BY AnswerParts
  <2>3. \A c \in Candidates : \E item \in Items : item.candidate = c /\ item.result = ResultOf(c)
    <3>. SUFFICES ASSUME NEW c \in Candidates
                  PROVE  \E item \in Items : item.candidate = c /\ item.result = ResultOf(c)
      OBVIOUS
    <3>1. PICK item \in Items : item.candidate = c
      BY <2>1, <2>2, ItemsShape
    <3>2. item.result \in {Failed, QuoteOf(c)}
      BY <2>1, <2>2, <3>1, ItemsShape
    <3>3. PICK i \in DOMAIN ordered : ordered[i] = item
      BY DEF Items
    <3>4. \A j \in DOMAIN ordered : ordered[j].candidate = c => ordered[j] = item
      BY <2>1, <3>1, ItemsShape DEF Items
    <3>. QED BY <3>1, <3>2, <3>3, <3>4 DEF ResultOf
  <2>4. \A item \in Items : item.candidate \in Candidates /\ item.result = ResultOf(item.candidate)
    BY <2>1, <2>3, ItemsShape
  <2>5. {c \in Candidates : ResultOf(c).kind = "route"} = {item.candidate : item \in {x \in Items : IsRoute(x)}}
    BY <2>3, <2>4 DEF IsRoute
  <2>6. {c \in Candidates : ResultOf(c) = Failed} = {item.candidate : item \in {x \in Items : IsError(x)}}
    BY <2>2, <2>3, <2>4 DEF IsError
  <2>7. InTurn({c \in Candidates : ResultOf(c).kind = "route"}) = Routes
    <3>. DEFINE R == {x \in Items : IsRoute(x)}
                cs == {c \in Candidates : ResultOf(c).kind = "route"}
    <3>1. R \in SUBSET Items /\ cs = {item.candidate : item \in R} /\ Routes = Sorted(R)
      BY <2>5 DEF Routes
    <3>. HIDE DEF R, cs
    <3>2. InTurn(cs) = Sorted(R)
      BY <2>1, <2>2, <3>1, InTurnIsSorted
    <3>. QED BY <3>1, <3>2 DEF cs
  <2>8. InTurn({c \in Candidates : ResultOf(c) = Failed}) = Errors
    <3>. DEFINE E == {x \in Items : IsError(x)}
                cs == {c \in Candidates : ResultOf(c) = Failed}
    <3>1. E \in SUBSET Items /\ cs = {item.candidate : item \in E} /\ Errors = Sorted(E)
      BY <2>6 DEF Errors
    <3>. HIDE DEF E, cs
    <3>2. InTurn(cs) = Sorted(E)
      BY <2>1, <2>2, <3>1, InTurnIsSorted
    <3>. QED BY <3>1, <3>2 DEF cs
  <2>9. answer = [routes |-> Routes, errors |-> Errors, best |-> Best(Routes), complete |-> TRUE]
    <3>1. /\ answer = [routes |-> Routes, errors |-> Errors, best |-> Best(Routes),
                       complete |-> answer.complete]
          /\ answer.complete \in BOOLEAN
      BY DEF IInv, AnswerInv
    <3>2. answer.complete = TRUE
      BY <3>1
    <3>. QED BY <3>1, <3>2
  <2>. QED BY <2>7, <2>8, <2>9 DEF Sequential
<1>. QED
  BY <1>1, Invariant, PTL

=============================================================================
