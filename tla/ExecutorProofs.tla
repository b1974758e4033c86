--------------------------- MODULE ExecutorProofs ---------------------------
(***************************************************************************)
(* Proofs about the Executor for any tokens, plans, taxes and routers.     *)
(*                                                                         *)
(* TypeInv adds to the types what an accepted plan gives: the two ends of  *)
(* a hop differ and are tokens of the plan, and no balance but the hop's   *)
(* input falls in the router's turn.  CallersInv says what every caller    *)
(* holds in the middle of a call, by the plan alone.                       *)
(***************************************************************************)
EXTENDS Executor, SequenceTheorems, TLAPS

(* An accepted plan's routes are one or two allocations of one or two hops *)
(* between different tokens.                                               *)
LEMMA AcceptedShape ==
    ASSUME NEW p \in Plans, Accepted(p)
    PROVE  /\ p.tokenIn \in Tokens /\ p.tokenOut \in Tokens /\ p.tokenIn # p.tokenOut
           /\ DOMAIN p.allocations = 1..Len(p.allocations) /\ Len(p.allocations) \in {1, 2}
           /\ p.amountIn \in Nat /\ p.minAmountOut \in Nat
           /\ \A i \in DOMAIN p.allocations :
                 /\ p.allocations[i].amountIn \in Nat
                 /\ p.allocations[i].venue \in Venues
                 /\ Len(p.allocations[i].hops) \in {1, 2}
                 /\ DOMAIN p.allocations[i].hops = 1..Len(p.allocations[i].hops)
                 /\ \A j \in DOMAIN p.allocations[i].hops :
                       p.allocations[i].hops[j] \in Tokens \ {p.tokenIn}
                 /\ p.allocations[i].hops[Len(p.allocations[i].hops)] = p.tokenOut
                 /\ Len(p.allocations[i].hops) = 2 => p.allocations[i].hops[1] # p.tokenOut
<1>1. p \in Plan
  BY ExecutorAssumption
<1>2. /\ p.allocations \in Seq(Allocation) /\ p.amountIn \in Nat /\ p.minAmountOut \in Nat
  BY <1>1, ExecutorAssumption DEF Plan, Uint
<1>3. ASSUME NEW i \in DOMAIN p.allocations
      PROVE  /\ p.allocations[i].hops \in Seq(AnyToken)
             /\ p.allocations[i].amountIn \in Nat
  <2>1. p.allocations[i] \in Allocation
    BY <1>2
  <2> QED
    BY <2>1, ExecutorAssumption DEF Allocation, Uint
<1>4. DOMAIN p.allocations = 1..Len(p.allocations)
  BY <1>2
<1>5. ASSUME NEW i \in DOMAIN p.allocations
      PROVE  DOMAIN p.allocations[i].hops = 1..Len(p.allocations[i].hops)
  BY <1>3
<1> QED
  BY <1>2, <1>3, <1>4, <1>5 DEF Accepted, HopsAccepted

LEMMA AppendToTwo ==
    ASSUME NEW S, NEW x \in S, NEW y \in S, NEW m \in S
    PROVE  Append(<<x, y>>, m) = <<x, y, m>>
<1>1. <<x, y>> \in Seq(S) /\ <<x, y, m>> \in Seq(S)
  OBVIOUS
<1>2. /\ Append(<<x, y>>, m) \in Seq(S) /\ Len(Append(<<x, y>>, m)) = 3
      /\ \A i \in 1..3 : Append(<<x, y>>, m)[i] = <<x, y, m>>[i]
  BY <1>1, AppendProperties
<1> QED
  BY <1>1, <1>2, SeqEqual

LEMMA AppendToThree ==
    ASSUME NEW S, NEW x \in S, NEW y \in S, NEW m \in S, NEW n \in S
    PROVE  Append(<<x, y, m>>, n) = <<x, y, m, n>>
<1>1. <<x, y, m>> \in Seq(S) /\ <<x, y, m, n>> \in Seq(S)
  OBVIOUS
<1>2. /\ Append(<<x, y, m>>, n) \in Seq(S) /\ Len(Append(<<x, y, m>>, n)) = 4
      /\ \A i \in 1..4 : Append(<<x, y, m>>, n)[i] = <<x, y, m, n>>[i]
  BY <1>1, AppendProperties
<1> QED
  BY <1>1, <1>2, SeqEqual

(* The list validate builds, spelled out.                                  *)
LEMMA ListOfFour ==
    ASSUME NEW S, NEW x \in S, NEW y \in S, NEW m \in S, NEW n \in S
    PROVE  /\ <<x, y>> \o <<>> \o <<>> = <<x, y>>
           /\ <<x, y>> \o <<m>> \o <<>> = <<x, y, m>>
           /\ <<x, y>> \o <<>> \o <<n>> = <<x, y, n>>
           /\ <<x, y>> \o <<m>> \o <<n>> = <<x, y, m, n>>
<1> DEFINE two == <<x, y>>
           three == <<x, y, m>>
<1>1. two \in Seq(S) /\ three \in Seq(S) /\ <<>> \in Seq(S) /\ <<m>> \in Seq(S) /\ <<n>> \in Seq(S)
  OBVIOUS
<1>2. two \o <<>> = two /\ three \o <<>> = three
  BY <1>1
<1>3. two \o <<m>> = Append(two, m) /\ two \o <<n>> = Append(two, n) /\ three \o <<n>> = Append(three, n)
  BY <1>1, AppendIsConcat
<1>4. Append(two, m) = three /\ Append(two, n) = <<x, y, n>> /\ Append(three, n) = <<x, y, m, n>>
  BY AppendToTwo, AppendToThree
<1> QED
  BY <1>2, <1>3, <1>4

(* The tokens a plan moves are all among those whose balances are checked. *)
LEMMA TouchedCovers ==
    ASSUME NEW p \in Plans, Accepted(p)
    PROVE  /\ Touched(p) \in Seq(Tokens)
           /\ \A t \in TokensOf(p) : \E i \in DOMAIN Touched(p) : Touched(p)[i] = t
<1> DEFINE first == Middle(p.allocations[1])
           second == IF Len(p.allocations) = 2 THEN Middle(p.allocations[2]) ELSE <<>>
           Covering ==
              /\ Touched(p) \in Seq(Tokens)
              /\ \E i \in DOMAIN Touched(p) : Touched(p)[i] = p.tokenIn
              /\ \E i \in DOMAIN Touched(p) : Touched(p)[i] = p.tokenOut
              /\ \A t \in Tokens : first = <<t>> \/ second = <<t>>
                    => \E i \in DOMAIN Touched(p) : Touched(p)[i] = t
<1>1. /\ first = <<>> \/ \E m \in Tokens : first = <<m>>
      /\ second = <<>> \/ \E m \in Tokens : second = <<m>>
  BY AcceptedShape DEF Middle
<1>2. /\ p.tokenIn \in Tokens /\ p.tokenOut \in Tokens
      /\ Touched(p) = <<p.tokenIn, p.tokenOut>> \o first \o (IF second = first THEN <<>> ELSE second)
  BY AcceptedShape DEF Touched
<1>3. Covering
  <2> HIDE DEF first, second
  <2>1. CASE first = second /\ first = <<>>
    <3>1. Touched(p) = <<p.tokenIn, p.tokenOut>>
      BY <1>2, <2>1, ListOfFour
    <3> QED
      BY <3>1, <2>1, <1>2
  <2>2. ASSUME NEW m \in Tokens, first = <<m>>, second = <<m>> \/ second = <<>>
        PROVE  Covering
    <3>0. (IF second = first THEN <<>> ELSE second) = <<>>
      BY <2>2
    <3>a. Touched(p) = <<p.tokenIn, p.tokenOut>> \o <<m>> \o <<>>
      BY <3>0, <1>2, <2>2
    <3>b. <<p.tokenIn, p.tokenOut>> \o <<m>> \o <<>> = <<p.tokenIn, p.tokenOut, m>>
      BY <1>2, ListOfFour
    <3>1. Touched(p) = <<p.tokenIn, p.tokenOut, m>>
      BY <3>a, <3>b
    <3> QED
      BY <3>1, <2>2, <1>2
  <2>3. ASSUME NEW m \in Tokens, second = <<m>>, first = <<>>
        PROVE  Covering
    <3>1. Touched(p) = <<p.tokenIn, p.tokenOut, m>>
      BY <1>2, <2>3, ListOfFour
    <3> QED
      BY <3>1, <2>3, <1>2
  <2>4. ASSUME NEW m \in Tokens, NEW n \in Tokens, first = <<m>>, second = <<n>>, m # n
        PROVE  Covering
    <3>0. <<m>> # <<n>>
      <4>1. <<m>>[1] # <<n>>[1]
        BY <2>4
      <4> QED
        BY <4>1
    <3>1. Touched(p) = <<p.tokenIn, p.tokenOut>> \o <<m>> \o <<n>>
      BY <3>0, <1>2, <2>4
    <3>a. <<p.tokenIn, p.tokenOut>> \o <<m>> \o <<n>> = <<p.tokenIn, p.tokenOut, m, n>>
      BY <1>2, ListOfFour
    <3>2. Touched(p) = <<p.tokenIn, p.tokenOut, m, n>>
      BY <3>1, <3>a
    <3> QED
      BY <3>2, <2>4, <1>2
  <2> QED
    BY <1>1, <2>1, <2>2, <2>3, <2>4
<1>4. ASSUME NEW t \in TokensOf(p)
      PROVE  t = p.tokenIn \/ t = p.tokenOut \/ (t \in Tokens /\ (first = <<t>> \/ second = <<t>>))
  <2>1. CASE t = p.tokenIn
    BY <2>1
  <2>2. CASE t # p.tokenIn
    <3>1. PICK i \in DOMAIN p.allocations :
             t \in {p.allocations[i].hops[j] : j \in DOMAIN p.allocations[i].hops}
      BY <2>2 DEF TokensOf
    <3>2. PICK j \in DOMAIN p.allocations[i].hops : t = p.allocations[i].hops[j]
      BY <3>1
    <3>3. i \in {1, 2} /\ (i = 2 => Len(p.allocations) = 2) /\ t \in Tokens
      BY <3>2, AcceptedShape
    <3>4. j = Len(p.allocations[i].hops) \/ (j = 1 /\ Len(p.allocations[i].hops) = 2)
      BY AcceptedShape
    <3>5. CASE j = Len(p.allocations[i].hops)
      BY <3>2, <3>5, AcceptedShape
    <3>6. CASE j = 1 /\ Len(p.allocations[i].hops) = 2
      <4>1. Middle(p.allocations[i]) = <<t>>
        BY <3>2, <3>6 DEF Middle
      <4> QED
        BY <4>1, <3>3
    <3> QED
      BY <3>4, <3>5, <3>6
  <2> QED
    BY <2>1, <2>2
<1> QED
  BY <1>3, <1>4

-----------------------------------------------------------------------------

(* Where a call stands, beside its types.                                  *)
StepInv ==
    call # None =>
        /\ Accepted(call.plan)
        /\ call.touched = Touched(call.plan)
        /\ call.pc = "router" => call.before = balance[Self]
        /\ call.pc = "cleanup" =>
              \A t \in Tokens : t # HopIn => balance[Self][t] >= call.before[t]

TypeInv == TypeOK /\ StepInv

(* The hop a call is at connects two tokens of its plan.                   *)
LEMMA HopShape ==
    ASSUME TypeInv, call # None
    PROVE  /\ call \in Call /\ call.plan \in Plans /\ Accepted(call.plan)
           /\ call.route \in 1..Len(call.plan.allocations)
           /\ Len(call.plan.allocations) \in {1, 2}
           /\ call.hop \in 1..Len(Route.hops) /\ Len(Route.hops) \in {1, 2}
           /\ HopIn \in Tokens /\ HopOut \in Tokens /\ HopIn # HopOut
           /\ Route.venue \in Venues
           /\ call.hop = 1 => HopIn = call.plan.tokenIn
           /\ call.hop < Len(Route.hops) => call.hop + 1 \in DOMAIN Route.hops
           /\ call.hop = Len(Route.hops) => HopOut = call.plan.tokenOut
           /\ call.route < Len(call.plan.allocations) =>
                 /\ call.route + 1 = Len(call.plan.allocations)
                 /\ 1 \in DOMAIN call.plan.allocations[call.route + 1].hops
                 /\ call.plan.allocations[call.route + 1].amountIn \in Nat
<1>1. call \in Call /\ call.plan \in Plans /\ Accepted(call.plan)
  BY DEF TypeInv, TypeOK, StepInv, Call
<1>2. /\ call.route \in DOMAIN call.plan.allocations
      /\ call.hop \in DOMAIN Route.hops
  BY DEF TypeInv, TypeOK
<1>3. /\ Len(call.plan.allocations) \in {1, 2}
      /\ DOMAIN call.plan.allocations = 1..Len(call.plan.allocations)
      /\ call.plan.tokenIn \in Tokens
  BY <1>1, AcceptedShape
<1>4. /\ Len(Route.hops) \in {1, 2} /\ DOMAIN Route.hops = 1..Len(Route.hops)
      /\ Route.venue \in Venues
      /\ \A j \in DOMAIN Route.hops : Route.hops[j] \in Tokens \ {call.plan.tokenIn}
      /\ Route.hops[Len(Route.hops)] = call.plan.tokenOut
      /\ Len(Route.hops) = 2 => Route.hops[1] # call.plan.tokenOut
  BY <1>1, <1>2, AcceptedShape DEF Route
<1>a. call.route \in 1..Len(call.plan.allocations)
  BY <1>2, <1>3
<1>b. call.hop \in 1..Len(Route.hops)
  BY <1>2, <1>4
<1>c. call.hop \in {1, 2}
  BY <1>b, <1>4
<1>d. call.route < Len(call.plan.allocations) =>
         /\ call.route + 1 = Len(call.plan.allocations)
         /\ call.route + 1 \in DOMAIN call.plan.allocations
  <2>1. CASE Len(call.plan.allocations) = 1
    BY <2>1, <1>a
  <2>2. CASE Len(call.plan.allocations) = 2
    <3>1. DOMAIN call.plan.allocations = 1..2
      BY <2>2, <1>3
    <3> QED
      BY <2>2, <3>1, <1>a
  <2> QED
    BY <2>1, <2>2, <1>3
<1>e. \A i \in DOMAIN call.plan.allocations :
         /\ 1 \in DOMAIN call.plan.allocations[i].hops
         /\ call.plan.allocations[i].amountIn \in Nat
  BY <1>1, AcceptedShape
<1>f. call.hop < Len(Route.hops) => call.hop + 1 \in DOMAIN Route.hops
  BY <1>b, <1>4
<1>6. HopOut \in Tokens \ {call.plan.tokenIn}
  BY <1>2, <1>4 DEF HopOut
<1>7. CASE call.hop = 1
  <2>1. HopIn = call.plan.tokenIn
    BY <1>7 DEF HopIn
  <2> QED
    BY <2>1, <1>1, <1>3, <1>4, <1>6, <1>7, <1>a, <1>b, <1>d, <1>e, <1>f DEF HopOut
<1>8. CASE call.hop = 2
  <2>1. Len(Route.hops) = 2
    BY <1>8, <1>2, <1>4
  <2>2. HopIn = Route.hops[1] /\ HopOut = call.plan.tokenOut
    BY <1>8, <1>4, <2>1 DEF HopIn, HopOut
  <2>3. HopIn \in Tokens /\ HopIn # HopOut
    BY <2>1, <2>2, <1>4
  <2> QED
    BY <2>1, <2>2, <2>3, <1>1, <1>3, <1>4, <1>6, <1>8, <1>a, <1>b, <1>d, <1>e, <1>f
<1> QED
  BY <1>c, <1>7, <1>8

(* What the executor and a caller hold after a transfer between them.      *)
LEMMA TransferFacts ==
    ASSUME NEW from \in Accounts, NEW to \in Accounts, from # to, NEW t \in Tokens,
           NEW amount \in Nat, balance \in Balances, Transfers(from, to, t, amount)
    PROVE  /\ balance' \in Balances
           /\ \A a \in Accounts \ {from, to} : balance'[a] = balance[a]
           /\ \A u \in Tokens \ {t} : balance'[from][u] = balance[from][u] /\ balance'[to][u] = balance[to][u]
           /\ balance'[from][t] <= balance[from][t] - amount
           /\ balance'[to][t] <= balance[to][t] + amount
<1>1. PICK extra \in Taxes, tax \in Taxes :
         /\ tax <= amount /\ amount + extra <= balance[from][t]
         /\ balance' = [balance EXCEPT ![from][t] = @ - (amount + extra),
                                       ![to][t] = @ + (amount - tax)]
  BY DEF Transfers, Moved
<1>2. extra \in Nat /\ tax \in Nat
  BY ExecutorAssumption
<1>3. /\ balance[from] \in [Tokens -> Nat] /\ balance[to] \in [Tokens -> Nat]
      /\ \A a \in Accounts : balance[a] \in [Tokens -> Nat]
  BY DEF Balances
<1>4. /\ balance'[from] = [balance[from] EXCEPT ![t] = @ - (amount + extra)]
      /\ balance'[to] = [balance[to] EXCEPT ![t] = @ + (amount - tax)]
      /\ \A a \in Accounts \ {from, to} : balance'[a] = balance[a]
      /\ DOMAIN balance' = Accounts
  BY <1>1 DEF Balances
<1>5. balance[from][t] - (amount + extra) \in Nat /\ balance[to][t] + (amount - tax) \in Nat
  BY <1>1, <1>2, <1>3
<1>6. balance'[from] \in [Tokens -> Nat] /\ balance'[to] \in [Tokens -> Nat]
  BY <1>3, <1>4, <1>5
<1>7. balance' = [a \in Accounts |-> balance'[a]]
  BY <1>1 DEF Balances
<1>8. balance' \in Balances
  BY <1>3, <1>4, <1>6, <1>7 DEF Balances
<1> QED
  BY <1>2, <1>3, <1>4, <1>5, <1>8

-----------------------------------------------------------------------------

LEMMA TypeInit == Init => TypeInv
<1> SUFFICES ASSUME Init PROVE TypeInv
  OBVIOUS
<1>1. balance \in Balances
  BY ExecutorAssumption DEF Init, Balances
<1>2. approved \in [Tokens -> [Venues -> Nat]]
  BY DEF Init, NoApprovals
<1> QED
  BY <1>1, <1>2, ExecutorAssumption DEF Init, TypeInv, TypeOK, StepInv

LEMMA TypeExecute ==
    ASSUME TypeInv, Execute PROVE TypeInv'
<1>1. PICK c \in Callers, p \in Plans :
         /\ Accepted(p)
         /\ call' = [pc |-> "pull", caller |-> c, plan |-> p, touched |-> Touched(p),
                     entry |-> balance, route |-> 1, hop |-> 1,
                     amountIn |-> p.allocations[1].amountIn, before |-> balance[Self],
                     amountOut |-> 0]
  BY DEF Execute
<1>2. /\ Touched(p) \in Seq(Tokens) /\ 1 \in DOMAIN p.allocations
      /\ p.allocations[1].amountIn \in Nat /\ 1 \in DOMAIN p.allocations[1].hops
  BY <1>1, AcceptedShape, TouchedCovers
<1>3. balance \in Balances /\ balance[Self] \in [Tokens -> Nat]
  BY DEF TypeInv, TypeOK, Balances, Accounts
<1>4. call' \in Call
  BY <1>1, <1>2, <1>3 DEF Call
<1>5. call'.route \in DOMAIN call'.plan.allocations /\ call'.hop \in DOMAIN Route'.hops
  BY <1>1, <1>2 DEF Route
<1>6. StepInv'
  BY <1>1 DEF StepInv
<1> QED
  BY <1>4, <1>5, <1>6, ExecutorAssumption DEF Execute, TypeInv, TypeOK

LEMMA TypeRevert ==
    ASSUME TypeInv, Revert PROVE TypeInv'
<1>1. call.entry \in Balances
  BY DEF Revert, TypeInv, TypeOK, Call
<1>2. NoApprovals \in [Tokens -> [Venues -> Nat]]
  BY DEF NoApprovals
<1> QED
  BY <1>1, <1>2 DEF Revert, TypeInv, TypeOK, StepInv

LEMMA TypePull ==
    ASSUME TypeInv, Pull PROVE TypeInv'
<1>1. call # None /\ call.pc = "pull" /\ call' = [call EXCEPT !.pc = "approve"]
  BY DEF Pull, At
<1>2. /\ call \in Call /\ call.caller \in Callers /\ call.plan.tokenIn \in Tokens
      /\ call.plan.amountIn \in Nat
  BY <1>1, HopShape, AcceptedShape DEF Call
<1>3. Transfers(call.caller, Self, call.plan.tokenIn, call.plan.amountIn)
  BY DEF Pull
<1>4. balance' \in Balances
  BY <1>2, <1>3, TransferFacts, ExecutorAssumption DEF TypeInv, TypeOK, Accounts
<1>5. call' \in Call /\ call'.plan = call.plan /\ call'.route = call.route /\ call'.hop = call.hop
      /\ call'.touched = call.touched /\ call'.pc = "approve"
  BY <1>1, <1>2 DEF Call
<1>6. Route' = Route
  BY <1>5 DEF Route
<1> QED
  BY <1>1, <1>4, <1>5, <1>6 DEF Pull, TypeInv, TypeOK, StepInv

LEMMA TypeApprove ==
    ASSUME TypeInv, Approve PROVE TypeInv'
<1>1. /\ call # None /\ call.pc = "approve" /\ UNCHANGED <<balance, served>>
      /\ approved' = [approved EXCEPT ![HopIn][Route.venue] = call.amountIn]
      /\ call' = [call EXCEPT !.pc = "router", !.before = balance[Self]]
  BY DEF Approve, At
<1>2. call \in Call /\ call.amountIn \in Nat /\ balance[Self] \in [Tokens -> Nat]
  BY <1>1, HopShape DEF Call, TypeInv, TypeOK, Balances, Accounts
<1>3. approved' \in [Tokens -> [Venues -> Nat]]
  BY <1>1, <1>2 DEF TypeInv, TypeOK
<1>4. /\ call' \in Call /\ call'.plan = call.plan /\ call'.route = call.route /\ call'.hop = call.hop
      /\ call'.touched = call.touched /\ call'.pc = "router" /\ call'.before = balance[Self]
  BY <1>1, <1>2 DEF Call
<1>5. Route' = Route
  BY <1>4 DEF Route
<1> QED
  BY <1>1, <1>3, <1>4, <1>5 DEF TypeInv, TypeOK, StepInv

(* What a router can do: only the hop's input falls.                       *)
LEMMA RouterFacts ==
    ASSUME TypeInv, RouterSwaps
    PROVE  /\ balance' \in Balances
           /\ \A c \in Callers : balance'[c] = balance[c]
           /\ \A t \in Tokens : t # HopIn => balance'[Self][t] >= balance[Self][t]
           /\ call # None /\ call.pc = "router" /\ call' = [call EXCEPT !.pc = "cleanup"]
           /\ UNCHANGED served
           /\ \E spent \in 0..approved[HopIn][Route.venue] :
                 approved' = [approved EXCEPT ![HopIn][Route.venue] = @ - spent]
<1>1. PICK spent \in 0..approved[HopIn][Route.venue], extra \in Taxes, handed \in [Tokens -> Outputs] :
         /\ spent + extra <= balance[Self][HopIn]
         /\ approved' = [approved EXCEPT ![HopIn][Route.venue] = @ - spent]
         /\ balance' = [balance EXCEPT ![Self] = [t \in Tokens |->
               balance[Self][t] + handed[t] - (IF t = HopIn THEN spent + extra ELSE 0)]]
  BY DEF RouterSwaps
<1>2. call # None /\ call.pc = "router" /\ call' = [call EXCEPT !.pc = "cleanup"] /\ UNCHANGED served
  BY DEF RouterSwaps, At
<1>3. /\ HopIn \in Tokens /\ Route.venue \in Venues
      /\ balance \in Balances /\ balance[Self] \in [Tokens -> Nat]
      /\ approved[HopIn][Route.venue] \in Nat
  BY <1>2, HopShape DEF TypeInv, TypeOK, Balances, Accounts
<1>4. spent \in Nat /\ extra \in Nat /\ \A t \in Tokens : handed[t] \in Nat
  <2>1. spent \in Nat
    BY <1>3
  <2>2. \A t \in Tokens : handed[t] \in Outputs
    OBVIOUS
  <2> QED
    BY <2>1, <2>2, ExecutorAssumption
<1> DEFINE new == [t \in Tokens |->
               balance[Self][t] + handed[t] - (IF t = HopIn THEN spent + extra ELSE 0)]
<1>5. new \in [Tokens -> Nat]
  <2> SUFFICES ASSUME NEW t \in Tokens
               PROVE  balance[Self][t] + handed[t] - (IF t = HopIn THEN spent + extra ELSE 0) \in Nat
    OBVIOUS
  <2> QED
    BY <1>1, <1>3, <1>4
<1>6. balance' \in Balances /\ balance'[Self] = new
  <2> HIDE DEF new
  <2> QED
    BY <1>1, <1>3, <1>5 DEF Balances, Accounts, new
<1>7. \A c \in Callers : balance'[c] = balance[c]
  BY <1>1, <1>3, ExecutorAssumption DEF Balances, Accounts
<1>8. \A t \in Tokens : t # HopIn => balance'[Self][t] >= balance[Self][t]
  BY <1>3, <1>4, <1>6
<1> QED
  BY <1>1, <1>2, <1>6, <1>7, <1>8

LEMMA TypeRouterSwaps ==
    ASSUME TypeInv, RouterSwaps PROVE TypeInv'
<1>1. /\ balance' \in Balances
      /\ \A t \in Tokens : t # HopIn => balance'[Self][t] >= balance[Self][t]
      /\ call # None /\ call.pc = "router" /\ call' = [call EXCEPT !.pc = "cleanup"]
      /\ UNCHANGED served
  BY RouterFacts
<1>2. PICK spent \in 0..approved[HopIn][Route.venue] :
         approved' = [approved EXCEPT ![HopIn][Route.venue] = @ - spent]
  BY RouterFacts
<1>3. HopIn \in Tokens /\ Route.venue \in Venues /\ call \in Call
  BY <1>1, HopShape
<1>4. approved[HopIn] \in [Venues -> Nat] /\ approved[HopIn][Route.venue] - spent \in Nat
  BY <1>2, <1>3 DEF TypeInv, TypeOK
<1>5. approved' \in [Tokens -> [Venues -> Nat]]
  BY <1>2, <1>3, <1>4 DEF TypeInv, TypeOK
<1>6. /\ call' \in Call /\ call'.plan = call.plan /\ call'.route = call.route /\ call'.hop = call.hop
      /\ call'.touched = call.touched /\ call'.pc = "cleanup" /\ call'.before = call.before
  BY <1>1, <1>3 DEF Call
<1>7. Route' = Route /\ HopIn' = HopIn
  BY <1>6 DEF Route, HopIn
<1>8. StepInv'
  BY <1>1, <1>6, <1>7 DEF TypeInv, StepInv
<1> QED
  BY <1>1, <1>5, <1>6, <1>7, <1>8 DEF TypeInv, TypeOK

(* What swap produces is counted from its own start, and never negative.   *)
LEMMA Produced ==
    ASSUME TypeInv, Cleanup
    PROVE  /\ call # None /\ call.pc = "cleanup" /\ UNCHANGED <<balance, served>>
           /\ approved' = [approved EXCEPT ![HopIn][Route.venue] = 0]
           /\ balance[Self][HopIn] + call.amountIn = call.before[HopIn]
           /\ \E produced \in Nat : /\ produced = balance[Self][HopOut] - call.before[HopOut]
                                     /\ call' = AfterHop(produced)
<1>1. /\ call # None /\ call.pc = "cleanup" /\ UNCHANGED <<balance, served>>
      /\ approved' = [approved EXCEPT ![HopIn][Route.venue] = 0]
      /\ balance[Self][HopIn] + call.amountIn = call.before[HopIn]
      /\ call' = AfterHop(balance[Self][HopOut] - call.before[HopOut])
  BY DEF Cleanup, At
<1>2. HopOut \in Tokens /\ HopOut # HopIn /\ call \in Call
  BY <1>1, HopShape
<1>3. balance[Self][HopOut] >= call.before[HopOut]
  BY <1>1, <1>2 DEF TypeInv, StepInv
<1>4. balance[Self][HopOut] \in Nat /\ call.before[HopOut] \in Nat
  BY <1>2 DEF TypeInv, TypeOK, Balances, Accounts, Call
<1> QED
  BY <1>1, <1>3, <1>4

(* Where a hop leads, field by field.                                      *)
LEMMA NextHop ==
    ASSUME TypeInv, call # None, NEW produced \in Nat, call' = AfterHop(produced)
    PROVE  /\ call' \in Call
           /\ call'.plan = call.plan /\ call'.caller = call.caller
           /\ call'.entry = call.entry /\ call'.touched = call.touched
           /\ \/ /\ call.hop < Len(Route.hops) /\ call'.pc = "approve"
                 /\ call'.route = call.route /\ call'.hop = call.hop + 1
                 /\ call'.amountIn = produced /\ call'.amountOut = call.amountOut
              \/ /\ call.hop = Len(Route.hops) /\ call'.pc = "approve"
                 /\ call.route < Len(call.plan.allocations)
                 /\ call'.route = call.route + 1 /\ call'.hop = 1
                 /\ call'.amountIn = call.plan.allocations[call.route + 1].amountIn
                 /\ call'.amountOut = call.amountOut + produced
              \/ /\ call.hop = Len(Route.hops) /\ call'.pc = "pay"
                 /\ call.route = Len(call.plan.allocations)
                 /\ call'.route = call.route /\ call'.hop = call.hop
                 /\ call'.amountIn = call.amountIn
                 /\ call'.amountOut = call.amountOut + produced
<1>1. /\ call \in Call /\ call.amountIn \in Nat /\ call.amountOut \in Nat
      /\ call.hop \in Nat /\ call.route \in Nat
  BY HopShape DEF Call
<1>2. /\ call.hop \in 1..Len(Route.hops) /\ Len(Route.hops) \in Nat
      /\ call.route \in 1..Len(call.plan.allocations) /\ Len(call.plan.allocations) \in Nat
      /\ call.route < Len(call.plan.allocations) =>
            call.plan.allocations[call.route + 1].amountIn \in Nat
  BY HopShape
<1>n. /\ call.hop + 1 \in Nat /\ call.route + 1 \in Nat /\ call.amountOut + produced \in Nat
      /\ 1 \in Nat
  BY <1>1
<1>3. CASE call.hop < Len(Route.hops)
  <2>1. call' = [call EXCEPT !.pc = "approve", !.hop = @ + 1, !.amountIn = produced]
    BY <1>3 DEF AfterHop
  <2>2. call' \in Call
    BY <2>1, <1>1, <1>n DEF Call
  <2>3. /\ call'.plan = call.plan /\ call'.caller = call.caller
        /\ call'.entry = call.entry /\ call'.touched = call.touched
        /\ call'.pc = "approve" /\ call'.route = call.route /\ call'.hop = call.hop + 1
        /\ call'.amountIn = produced /\ call'.amountOut = call.amountOut
    BY <2>1, <1>1 DEF Call
  <2> QED
    BY <2>2, <2>3, <1>3
<1>4. CASE call.hop = Len(Route.hops) /\ call.route < Len(call.plan.allocations)
  <2>1. call' = [call EXCEPT !.pc = "approve", !.route = @ + 1, !.hop = 1,
                      !.amountIn = call.plan.allocations[call.route + 1].amountIn,
                      !.amountOut = @ + produced]
    BY <1>2, <1>4 DEF AfterHop
  <2>a. call.plan.allocations[call.route + 1].amountIn \in Nat
    BY <1>2, <1>4
  <2>2. call' \in Call
    BY <2>1, <2>a, <1>1, <1>n DEF Call
  <2>3. /\ call'.plan = call.plan /\ call'.caller = call.caller
        /\ call'.entry = call.entry /\ call'.touched = call.touched
        /\ call'.pc = "approve" /\ call'.route = call.route + 1 /\ call'.hop = 1
        /\ call'.amountIn = call.plan.allocations[call.route + 1].amountIn
        /\ call'.amountOut = call.amountOut + produced
    BY <2>1, <1>1 DEF Call
  <2> QED
    BY <2>2, <2>3, <1>4
<1>5. CASE call.hop = Len(Route.hops) /\ call.route = Len(call.plan.allocations)
  <2>1. call' = [call EXCEPT !.pc = "pay", !.amountOut = @ + produced]
    BY <1>2, <1>5 DEF AfterHop
  <2>2. call' \in Call
    BY <2>1, <1>1, <1>n DEF Call
  <2>3. /\ call'.plan = call.plan /\ call'.caller = call.caller
        /\ call'.entry = call.entry /\ call'.touched = call.touched
        /\ call'.pc = "pay" /\ call'.route = call.route /\ call'.hop = call.hop
        /\ call'.amountIn = call.amountIn /\ call'.amountOut = call.amountOut + produced
    BY <2>1, <1>1 DEF Call
  <2> QED
    BY <2>2, <2>3, <1>5
<1> QED
  BY <1>2, <1>3, <1>4, <1>5

LEMMA TypeCleanup ==
    ASSUME TypeInv, Cleanup PROVE TypeInv'
<1>1. /\ call # None /\ UNCHANGED <<balance, served>>
      /\ approved' = [approved EXCEPT ![HopIn][Route.venue] = 0]
  BY Produced
<1>2. PICK produced \in Nat : call' = AfterHop(produced)
  BY Produced
<1>3. /\ call' \in Call /\ call'.plan = call.plan /\ call'.touched = call.touched
      /\ call'.pc \in {"approve", "pay"}
  BY <1>1, <1>2, NextHop
<1>4. call'.route \in DOMAIN call'.plan.allocations
  <2>1. /\ call.route \in DOMAIN call.plan.allocations
        /\ DOMAIN call.plan.allocations = 1..Len(call.plan.allocations)
    BY <1>1, HopShape, AcceptedShape
  <2>2. call'.route = call.route \/ (call.route < Len(call.plan.allocations) /\ call'.route = call.route + 1)
    BY <1>1, <1>2, NextHop
  <2>3. call.route < Len(call.plan.allocations) => call.route + 1 = Len(call.plan.allocations)
    BY <1>1, HopShape
  <2>4. Len(call.plan.allocations) \in {1, 2}
    BY <1>1, HopShape
  <2>5. CASE call'.route = call.route
    BY <2>1, <2>5, <1>3
  <2>6. CASE call.route < Len(call.plan.allocations) /\ call'.route = call.route + 1
    <3>1. call'.route = Len(call.plan.allocations)
      BY <2>3, <2>6
    <3>2. Len(call.plan.allocations) \in 1..Len(call.plan.allocations)
      BY <2>4
    <3> QED
      BY <3>1, <3>2, <2>1, <1>3
  <2> QED
    BY <2>2, <2>5, <2>6
<1>5. call'.hop \in DOMAIN Route'.hops
  <2>1. CASE call'.route = call.route /\ call'.hop = call.hop
    <3>1. Route' = Route
      BY <2>1, <1>3 DEF Route
    <3> QED
      BY <3>1, <2>1, <1>1 DEF TypeInv, TypeOK
  <2>2. CASE call.hop < Len(Route.hops) /\ call'.route = call.route /\ call'.hop = call.hop + 1
    <3>1. Route' = Route
      BY <2>2, <1>3 DEF Route
    <3>2. call.hop + 1 \in DOMAIN Route.hops
      BY <2>2, <1>1, HopShape
    <3> QED
      BY <3>1, <3>2, <2>2
  <2>3. CASE call.route < Len(call.plan.allocations) /\ call'.route = call.route + 1 /\ call'.hop = 1
    <3>1. Route' = call.plan.allocations[call.route + 1]
      BY <2>3, <1>3 DEF Route
    <3> QED
      BY <3>1, <2>3, <1>1, HopShape
  <2> QED
    BY <1>1, <1>2, <2>1, <2>2, <2>3, NextHop
<1>6. approved' \in [Tokens -> [Venues -> Nat]]
  BY <1>1 DEF TypeInv, TypeOK
<1>7. StepInv'
  BY <1>1, <1>3 DEF TypeInv, StepInv
<1> QED
  BY <1>1, <1>3, <1>4, <1>5, <1>6, <1>7 DEF TypeInv, TypeOK

LEMMA TypePay ==
    ASSUME TypeInv, Pay PROVE TypeInv'
<1>1. /\ call # None /\ call' = None /\ UNCHANGED <<approved, served>>
      /\ Transfers(Self, call.caller, call.plan.tokenOut, call.amountOut)
  BY DEF Pay, At
<1>2. call.caller \in Callers /\ call.plan.tokenOut \in Tokens /\ call.amountOut \in Nat
  BY <1>1, HopShape, AcceptedShape DEF Call
<1>3. balance' \in Balances
  BY <1>1, <1>2, TransferFacts, ExecutorAssumption DEF TypeInv, TypeOK, Accounts
<1> QED
  BY <1>1, <1>3 DEF TypeInv, TypeOK, StepInv

LEMMA TypeStep == TypeInv /\ [Next]_vars => TypeInv'
<1> SUFFICES ASSUME TypeInv, [Next]_vars PROVE TypeInv'
  OBVIOUS
<1>1. CASE UNCHANGED vars
  BY <1>1 DEF vars, TypeInv, TypeOK, StepInv, Route, HopIn
<1> QED
  BY <1>1, TypeExecute, TypeRevert, TypePull, TypeApprove, TypeRouterSwaps, TypeCleanup, TypePay
     DEF Next

(* The executor's state is well formed: no balance, approval or amount is  *)
(* ever negative, and every hop it performs is one of an accepted plan.    *)
THEOREM ExecutorTypes == Spec => []TypeOK
<1>1. TypeInv => TypeOK
  BY DEF TypeInv
<1> QED
  BY <1>1, TypeInit, TypeStep, PTL DEF Spec

-----------------------------------------------------------------------------

(* At every step of every call a router may take no more than the amount   *)
(* of the hop it serves, and nothing once the hop is over.                 *)
LEMMA ApprovalStep == TypeInv /\ ApprovedForOneHop /\ [Next]_vars => ApprovedForOneHop'
<1> SUFFICES ASSUME TypeInv, ApprovedForOneHop, [Next]_vars,
                    NEW t \in Tokens, NEW v \in Venues, approved'[t][v] # 0
             PROVE  /\ call' # None /\ call'.pc \in {"router", "cleanup"}
                    /\ t = HopIn' /\ v = Route'.venue
                    /\ approved'[t][v] <= call'.amountIn
  BY DEF ApprovedForOneHop
<1>0. approved \in [Tokens -> [Venues -> Nat]]
  BY DEF TypeInv, TypeOK
<1>1. CASE Execute
  BY <1>1 DEF Execute, ApprovedForOneHop
<1>2. CASE Revert
  BY <1>2 DEF Revert, NoApprovals
<1>3. CASE Pull
  BY <1>3 DEF Pull, At, ApprovedForOneHop
<1>4. CASE Approve
  <2>1. /\ call # None /\ call.pc = "approve"
        /\ approved' = [approved EXCEPT ![HopIn][Route.venue] = call.amountIn]
        /\ call' = [call EXCEPT !.pc = "router", !.before = balance[Self]]
    BY <1>4 DEF Approve, At
  <2>2. call \in Call /\ call.amountIn \in Nat
    BY <2>1, HopShape DEF Call
  <2>3. call' # None /\ call'.pc = "router" /\ call'.amountIn = call.amountIn
        /\ call'.plan = call.plan /\ call'.route = call.route /\ call'.hop = call.hop
    <3>1. call'.pc = "router" /\ call'.amountIn = call.amountIn
          /\ call'.plan = call.plan /\ call'.route = call.route /\ call'.hop = call.hop
      BY <2>1, <2>2 DEF Call
    <3>2. balance[Self] \in [Tokens -> Nat]
      BY DEF TypeInv, TypeOK, Balances, Accounts
    <3>3. call' \in Call
      BY <2>1, <2>2, <3>2 DEF Call
    <3> QED
      BY <3>1, <3>3, NoneAssumption
  <2>4. Route' = Route /\ HopIn' = HopIn
    BY <2>3 DEF Route, HopIn
  <2>5. approved[t][v] = 0
    BY <2>1 DEF ApprovedForOneHop
  <2>6. t = HopIn /\ v = Route.venue /\ approved'[t][v] = call.amountIn
    BY <1>0, <2>1, <2>5
  <2> QED
    BY <2>2, <2>3, <2>4, <2>6
<1>5. CASE RouterSwaps
  <2>1. call # None /\ call.pc = "router" /\ call' = [call EXCEPT !.pc = "cleanup"]
    BY <1>5, RouterFacts
  <2>2. PICK spent \in 0..approved[HopIn][Route.venue] :
           approved' = [approved EXCEPT ![HopIn][Route.venue] = @ - spent]
    BY <1>5, RouterFacts
  <2>3. call \in Call /\ call.amountIn \in Nat /\ HopIn \in Tokens /\ Route.venue \in Venues
    BY <2>1, HopShape DEF Call
  <2>4. /\ call'.pc = "cleanup" /\ call'.amountIn = call.amountIn
        /\ call'.plan = call.plan /\ call'.route = call.route /\ call'.hop = call.hop
    BY <2>1, <2>3 DEF Call
  <2>5. Route' = Route /\ HopIn' = HopIn
    BY <2>4 DEF Route, HopIn
  <2>6. approved[HopIn][Route.venue] \in Nat /\ approved[t][v] \in Nat /\ spent \in Nat
    BY <1>0, <2>3
  <2>7. approved'[t][v] <= approved[t][v]
    BY <1>0, <2>2, <2>3, <2>6
  <2>8. approved[t][v] # 0
    BY <1>0, <2>2, <2>3, <2>6
  <2>9. t = HopIn /\ v = Route.venue /\ approved[t][v] <= call.amountIn
    BY <2>8 DEF ApprovedForOneHop
  <2>10. approved'[t][v] \in Int
    BY <1>0, <2>2, <2>3, <2>6
  <2>11. call' # None
    <3>1. call' \in Call
      BY <2>1, <2>3 DEF Call
    <3> QED
      BY <3>1, NoneAssumption
  <2> QED
    BY <2>3, <2>4, <2>5, <2>6, <2>7, <2>9, <2>10, <2>11
<1>6. CASE Cleanup
  <2>1. call # None /\ call.pc = "cleanup"
        /\ approved' = [approved EXCEPT ![HopIn][Route.venue] = 0]
    BY <1>6, Produced
  <2>2. HopIn \in Tokens /\ Route.venue \in Venues
    BY <2>1, HopShape
  <2>3. approved[t][v] # 0 /\ ~(t = HopIn /\ v = Route.venue)
    BY <1>0, <2>1, <2>2
  <2> QED
    BY <2>3 DEF ApprovedForOneHop
<1>7. CASE Pay
  BY <1>7 DEF Pay, At, ApprovedForOneHop
<1>8. CASE UNCHANGED vars
  BY <1>8 DEF vars, ApprovedForOneHop, Route, HopIn
<1> QED
  BY <1>1, <1>2, <1>3, <1>4, <1>5, <1>6, <1>7, <1>8 DEF Next

THEOREM ApprovalsAreForOneHop == Spec => []ApprovedForOneHop
<1>1. Init => ApprovedForOneHop
  BY DEF Init, ApprovedForOneHop, NoApprovals
<1> QED
  BY <1>1, TypeInit, TypeStep, ApprovalStep, PTL DEF Spec

-----------------------------------------------------------------------------

(* In the middle of a call: everyone holds what they held when it began,   *)
(* except that the caller has paid once the pull is over.                  *)
CallersInv ==
    call # None =>
        IF call.pc = "pull" THEN balance = call.entry
        ELSE /\ \A c \in Callers \ {call.caller} : balance[c] = call.entry[c]
             /\ \A t \in Tokens : balance[call.caller][t]
                   = call.entry[call.caller][t]
                       - (IF t = call.plan.tokenIn THEN call.plan.amountIn ELSE 0)

LEMMA CallersStep == TypeInv /\ CallersInv /\ [Next]_vars => CallersInv'
<1> SUFFICES ASSUME TypeInv, CallersInv, [Next]_vars, call' # None PROVE CallersInv'
  BY DEF CallersInv
<1>1. CASE Execute
  BY <1>1 DEF Execute, CallersInv
<1>2. CASE Pull
  <2>1. /\ call # None /\ call.pc = "pull" /\ call' = [call EXCEPT !.pc = "approve"]
        /\ Transfers(call.caller, Self, call.plan.tokenIn, call.plan.amountIn)
        /\ balance'[call.caller][call.plan.tokenIn] + call.plan.amountIn
              = balance[call.caller][call.plan.tokenIn]
    BY <1>2 DEF Pull, At
  <2>2. /\ call \in Call /\ call.caller \in Callers /\ call.plan.tokenIn \in Tokens
        /\ call.plan.amountIn \in Nat
    BY <2>1, HopShape, AcceptedShape DEF Call
  <2>3. /\ call.pc # "approve" /\ call'.pc = "approve" /\ call'.caller = call.caller
        /\ call'.plan = call.plan /\ call'.entry = call.entry
    BY <2>1, <2>2 DEF Call
  <2>4. balance = call.entry /\ balance \in Balances
    BY <2>1 DEF CallersInv, TypeInv, TypeOK
  <2>5. /\ balance' \in Balances
        /\ \A a \in Accounts \ {call.caller, Self} : balance'[a] = balance[a]
        /\ \A u \in Tokens \ {call.plan.tokenIn} : balance'[call.caller][u] = balance[call.caller][u]
    BY <2>1, <2>2, <2>4, TransferFacts, ExecutorAssumption DEF Accounts
  <2>6. \A c \in Callers \ {call.caller} : balance'[c] = call.entry[c]
    BY <2>4, <2>5, ExecutorAssumption DEF Accounts
  <2>7. \A t \in Tokens : balance[call.caller][t] \in Nat /\ balance'[call.caller][t] \in Nat
    BY <2>2, <2>4, <2>5 DEF Balances, Accounts
  <2>8. \A t \in Tokens : balance'[call.caller][t]
            = call.entry[call.caller][t] - (IF t = call.plan.tokenIn THEN call.plan.amountIn ELSE 0)
    BY <2>1, <2>2, <2>4, <2>5, <2>7
  <2> QED
    BY <2>3, <2>6, <2>8 DEF CallersInv
<1>3. CASE Approve
  <2>1. /\ call # None /\ call.pc = "approve" /\ balance' = balance
        /\ call' = [call EXCEPT !.pc = "router", !.before = balance[Self]]
    BY <1>3 DEF Approve, At
  <2>2. call \in Call
    BY <2>1, HopShape
  <2>3. /\ call'.pc = "router" /\ call'.caller = call.caller
        /\ call'.plan = call.plan /\ call'.entry = call.entry
    BY <2>1, <2>2 DEF Call
  <2> QED
    BY <2>1, <2>3 DEF CallersInv
<1>4. CASE RouterSwaps
  <2>1. /\ call # None /\ call.pc = "router" /\ call' = [call EXCEPT !.pc = "cleanup"]
        /\ \A c \in Callers : balance'[c] = balance[c]
    BY <1>4, RouterFacts
  <2>2. call \in Call /\ call.caller \in Callers
    BY <2>1, HopShape DEF Call
  <2>3. /\ call'.pc = "cleanup" /\ call'.caller = call.caller
        /\ call'.plan = call.plan /\ call'.entry = call.entry
    BY <2>1, <2>2 DEF Call
  <2> QED
    BY <2>1, <2>2, <2>3 DEF CallersInv
<1>5. CASE Cleanup
  <2>1. call # None /\ call.pc = "cleanup" /\ balance' = balance
    BY <1>5, Produced
  <2>2. PICK produced \in Nat : call' = AfterHop(produced)
    BY <1>5, Produced
  <2>3. /\ call'.pc \in {"approve", "pay"} /\ call'.caller = call.caller
        /\ call'.plan = call.plan /\ call'.entry = call.entry
    BY <2>1, <2>2, NextHop
  <2> QED
    BY <2>1, <2>3 DEF CallersInv
<1>6. CASE Revert \/ Pay
  BY <1>6 DEF Revert, Pay
<1>7. CASE UNCHANGED vars
  BY <1>7 DEF vars, CallersInv
<1> QED
  BY <1>1, <1>2, <1>3, <1>4, <1>5, <1>6, <1>7 DEF Next

-----------------------------------------------------------------------------

(* What the executor had or owes when a hop begins; a router's turn is     *)
(* measured against the balance the hop began with.                        *)
SelfInv ==
    call # None =>
        /\ call.pc = "pull" =>
              /\ call.route = 1 /\ call.hop = 1 /\ call.amountOut = 0
              /\ call.amountIn = call.plan.allocations[1].amountIn
        /\ call.pc \in {"approve", "pay"} =>
              \A t \in Tokens : balance[Self][t] >= call.entry[Self][t] + Owed(t)
        /\ call.pc \in {"router", "cleanup"} =>
              \A t \in Tokens : call.before[t] >= call.entry[Self][t] + Owed(t)

Later(c) == IF c.route < Len(c.plan.allocations) THEN c.plan.allocations[c.route + 1].amountIn ELSE 0

LEMMA OwedIs ==
    ASSUME TypeInv, call # None, NEW t \in Tokens
    PROVE  /\ Later(call) \in Nat /\ Owed(t) \in Nat
           /\ Owed(t) = (IF t = call.plan.tokenOut THEN call.amountOut ELSE 0)
                          + (IF call.pc # "pay" /\ t = HopIn THEN call.amountIn ELSE 0)
                          + (IF call.pc # "pay" /\ t = call.plan.tokenIn THEN Later(call) ELSE 0)
<1>1. Later(call) \in Nat
  BY HopShape DEF Later
<1>2. call.amountIn \in Nat /\ call.amountOut \in Nat
  BY HopShape DEF Call
<1>3. Owed(t) = (IF t = call.plan.tokenOut THEN call.amountOut ELSE 0)
                 + (IF call.pc # "pay" /\ t = HopIn THEN call.amountIn ELSE 0)
                 + (IF call.pc # "pay" /\ t = call.plan.tokenIn THEN Later(call) ELSE 0)
  BY DEF Owed, Later
<1> QED
  BY <1>1, <1>2, <1>3

(* The pull covers both allocations.                                       *)
LEMMA SelfPull == TypeInv /\ CallersInv /\ SelfInv /\ Pull => SelfInv'
<1> SUFFICES ASSUME TypeInv, CallersInv, SelfInv, Pull PROVE SelfInv'
  OBVIOUS
<1>1. /\ call # None /\ call.pc = "pull" /\ call' = [call EXCEPT !.pc = "approve"]
      /\ Transfers(call.caller, Self, call.plan.tokenIn, call.plan.amountIn)
      /\ balance'[Self][call.plan.tokenIn] = call.entry[Self][call.plan.tokenIn] + call.plan.amountIn
  BY DEF Pull, At
<1>2. /\ call \in Call /\ call.caller \in Callers /\ call.plan.tokenIn \in Tokens
      /\ call.plan \in Plans /\ Accepted(call.plan) /\ call.plan.amountIn \in Nat
      /\ call.plan.tokenIn # call.plan.tokenOut /\ Len(call.plan.allocations) \in {1, 2}
  BY <1>1, HopShape, AcceptedShape DEF Call
<1>3. /\ call'.pc = "approve" /\ call'.entry = call.entry /\ call'.plan = call.plan
      /\ call'.route = call.route /\ call'.hop = call.hop
      /\ call'.amountIn = call.amountIn /\ call'.amountOut = call.amountOut
  BY <1>1, <1>2 DEF Call
<1>4. balance = call.entry /\ balance \in Balances
  BY <1>1 DEF CallersInv, TypeInv, TypeOK
<1>5. \A u \in Tokens \ {call.plan.tokenIn} : balance'[Self][u] = call.entry[Self][u]
  BY <1>1, <1>2, <1>4, TransferFacts, ExecutorAssumption DEF Accounts
<1>6. /\ call.route = 1 /\ call.hop = 1 /\ call.amountOut = 0
      /\ call.amountIn = call.plan.allocations[1].amountIn
  BY <1>1 DEF SelfInv
<1>7. call.amountIn + Later(call) = call.plan.amountIn
  <2>1. AmountsAccepted(call.plan)
    BY <1>2 DEF Accepted
  <2>2. \A i \in DOMAIN call.plan.allocations : call.plan.allocations[i].amountIn \in Nat
    BY <1>2, AcceptedShape
  <2>3. DOMAIN call.plan.allocations = 1..Len(call.plan.allocations)
    BY <1>2, AcceptedShape
  <2>4. CASE Len(call.plan.allocations) = 1
    BY <2>1, <2>2, <2>3, <2>4, <1>2, <1>6 DEF AmountsAccepted, Later
  <2>5. CASE Len(call.plan.allocations) = 2
    <3>1. 1 \in DOMAIN call.plan.allocations /\ 2 \in DOMAIN call.plan.allocations
      BY <2>3, <2>5
    <3>2. Later(call) = call.plan.allocations[2].amountIn
      BY <1>6, <2>5 DEF Later
    <3> QED
      BY <3>1, <3>2, <2>1, <2>2, <2>5, <1>2, <1>6 DEF AmountsAccepted
  <2> QED
    BY <1>2, <2>4, <2>5
<1>8. TypeInv' /\ call' # None
  <2>1. call' \in Call
    BY <1>1, <1>2 DEF Call
  <2> QED
    BY <2>1, TypePull, NoneAssumption
<1>9. HopIn' = call.plan.tokenIn
  BY <1>3, <1>6 DEF HopIn
<1>10. \A t \in Tokens : balance'[Self][t] >= call'.entry[Self][t] + Owed(t)'
  <2> SUFFICES ASSUME NEW t \in Tokens
               PROVE  balance'[Self][t] >= call'.entry[Self][t] + Owed(t)'
    OBVIOUS
  <2>1. Owed(t)' = (IF t = call.plan.tokenOut THEN 0 ELSE 0)
                    + (IF t = call.plan.tokenIn THEN call.amountIn ELSE 0)
                    + (IF t = call.plan.tokenIn THEN Later(call) ELSE 0)
    BY <1>3, <1>6, <1>9 DEF Owed, Later
  <2>2. call.amountIn \in Nat /\ Later(call) \in Nat /\ call.entry[Self][t] \in Nat
    BY <1>1, <1>2, <1>4, OwedIs DEF Call, Balances, Accounts
  <2>3. CASE t = call.plan.tokenIn
    BY <2>1, <2>2, <2>3, <1>1, <1>2, <1>3, <1>7
  <2>4. CASE t # call.plan.tokenIn
    BY <2>1, <2>2, <2>4, <1>3, <1>5
  <2> QED
    BY <2>3, <2>4
<1> QED
  BY <1>3, <1>10 DEF SelfInv

(* Between the end of one hop and the start of the next nothing is lost:   *)
(* what the hop used up was owed to it, what it produced is owed now.      *)
LEMMA SelfCleanup == TypeInv /\ SelfInv /\ Cleanup => SelfInv'
<1> SUFFICES ASSUME TypeInv, SelfInv, Cleanup PROVE SelfInv'
  OBVIOUS
<1>1. /\ call # None /\ call.pc = "cleanup" /\ balance' = balance
      /\ balance[Self][HopIn] + call.amountIn = call.before[HopIn]
  BY Produced
<1>2. PICK produced \in Nat : /\ produced = balance[Self][HopOut] - call.before[HopOut]
                              /\ call' = AfterHop(produced)
  BY Produced
<1>3. /\ call \in Call /\ HopIn \in Tokens /\ HopOut \in Tokens /\ HopIn # HopOut
      /\ call.plan.tokenIn # call.plan.tokenOut
      /\ call.amountIn \in Nat /\ call.amountOut \in Nat
  BY <1>1, HopShape, AcceptedShape DEF Call
<1>4. /\ call'.entry = call.entry /\ call'.plan = call.plan /\ call'.pc \in {"approve", "pay"}
  BY <1>1, <1>2, NextHop
<1> SUFFICES ASSUME NEW t \in Tokens
             PROVE  balance[Self][t] >= call.entry[Self][t] + Owed(t)'
  BY <1>1, <1>4 DEF SelfInv
<1>5. /\ balance[Self][t] \in Nat /\ call.before[t] \in Nat /\ call.entry[Self][t] \in Nat
      /\ balance[Self][HopIn] \in Nat /\ balance[Self][HopOut] \in Nat /\ call.before[HopOut] \in Nat
  BY <1>3 DEF TypeInv, TypeOK, Call, Balances, Accounts
<1>6. call.before[t] >= call.entry[Self][t] + Owed(t)
  BY <1>1 DEF SelfInv
<1>7. /\ Later(call) \in Nat
      /\ Owed(t) = (IF t = call.plan.tokenOut THEN call.amountOut ELSE 0)
                     + (IF t = HopIn THEN call.amountIn ELSE 0)
                     + (IF t = call.plan.tokenIn THEN Later(call) ELSE 0)
  BY <1>1, OwedIs
(* What is left when the hop's input is paid for and its output counted.   *)
<1>8. balance[Self][t] >= call.entry[Self][t]
         + (IF t = call.plan.tokenOut THEN call.amountOut ELSE 0)
         + (IF t = HopOut THEN produced ELSE 0)
         + (IF t = call.plan.tokenIn THEN Later(call) ELSE 0)
  <2>1. CASE t = HopIn
    BY <2>1, <1>1, <1>3, <1>5, <1>6, <1>7
  <2>2. CASE t = HopOut
    BY <2>2, <1>2, <1>3, <1>5, <1>6, <1>7
  <2>3. CASE t # HopIn /\ t # HopOut
    <3>1. balance[Self][t] >= call.before[t]
      BY <2>3, <1>1 DEF TypeInv, StepInv
    <3> QED
      BY <3>1, <2>3, <1>3, <1>5, <1>6, <1>7
  <2> QED
    BY <2>1, <2>2, <2>3
<1>9. CASE /\ call.hop < Len(Route.hops) /\ call'.pc = "approve"
           /\ call'.route = call.route /\ call'.hop = call.hop + 1
           /\ call'.amountIn = produced /\ call'.amountOut = call.amountOut
  <2>1. Route' = Route /\ Later(call)' = Later(call)
    BY <1>4, <1>9 DEF Route, Later
  <2>2. HopIn' = HopOut
    <3>1. call.hop + 1 # 1 /\ (call.hop + 1) - 1 = call.hop
      BY <1>1, HopShape
    <3> QED
      BY <3>1, <2>1, <1>4, <1>9 DEF HopIn, HopOut
  <2>3. Owed(t)' = (IF t = call.plan.tokenOut THEN call.amountOut ELSE 0)
                    + (IF t = HopOut THEN produced ELSE 0)
                    + (IF t = call.plan.tokenIn THEN Later(call) ELSE 0)
    BY <2>1, <2>2, <1>4, <1>9 DEF Owed, Later
  <2> QED
    BY <2>3, <1>3, <1>5, <1>7, <1>8
<1>10. CASE /\ call.hop = Len(Route.hops) /\ call'.pc = "approve"
            /\ call.route < Len(call.plan.allocations)
            /\ call'.route = call.route + 1 /\ call'.hop = 1
            /\ call'.amountIn = call.plan.allocations[call.route + 1].amountIn
            /\ call'.amountOut = call.amountOut + produced
  <2>1. HopOut = call.plan.tokenOut /\ call.route + 1 = Len(call.plan.allocations)
    BY <1>1, <1>10, HopShape
  <2>2. HopIn' = call.plan.tokenIn
    BY <1>4, <1>10 DEF HopIn
  <2>3. call'.amountIn = Later(call)
    BY <1>10 DEF Later
  <2>4. ~(call'.route < Len(call'.plan.allocations))
    BY <2>1, <1>4, <1>10
  <2>5. Owed(t)' = (IF t = call.plan.tokenOut THEN call.amountOut + produced ELSE 0)
                    + (IF t = call.plan.tokenIn THEN Later(call) ELSE 0)
                    + (IF t = call.plan.tokenIn THEN 0 ELSE 0)
    BY <2>2, <2>3, <2>4, <1>4, <1>10 DEF Owed
  <2>6. CASE t = call.plan.tokenOut
    <3>1. t # call.plan.tokenIn /\ t = HopOut
      BY <2>1, <2>6, <1>3
    <3>2. Owed(t)' = call.amountOut + produced
      BY <2>5, <2>6, <3>1, <1>3
    <3> QED
      BY <3>1, <3>2, <2>6, <1>3, <1>5, <1>8
  <2>7. CASE t = call.plan.tokenIn
    BY <2>1, <2>5, <2>7, <1>3, <1>5, <1>7, <1>8
  <2>8. CASE t # call.plan.tokenOut /\ t # call.plan.tokenIn
    BY <2>1, <2>5, <2>8, <1>3, <1>5, <1>7, <1>8
  <2> QED
    BY <2>6, <2>7, <2>8
<1>11. CASE /\ call.hop = Len(Route.hops) /\ call'.pc = "pay"
            /\ call.route = Len(call.plan.allocations)
            /\ call'.route = call.route /\ call'.hop = call.hop
            /\ call'.amountIn = call.amountIn
            /\ call'.amountOut = call.amountOut + produced
  <2>1. HopOut = call.plan.tokenOut
    BY <1>1, <1>11, HopShape
  <2>2. Owed(t)' = (IF t = call.plan.tokenOut THEN call.amountOut + produced ELSE 0) + 0 + 0
    BY <1>4, <1>11 DEF Owed
  <2> QED
    BY <2>1, <2>2, <1>3, <1>5, <1>7, <1>8
<1> QED
  BY <1>1, <1>2, <1>9, <1>10, <1>11, NextHop

LEMMA SelfStep == TypeInv /\ CallersInv /\ SelfInv /\ [Next]_vars => SelfInv'
<1> SUFFICES ASSUME TypeInv, CallersInv, SelfInv, [Next]_vars, call' # None PROVE SelfInv'
  BY DEF SelfInv
<1>1. CASE Execute
  <2>1. PICK c \in Callers, p \in Plans :
           call' = [pc |-> "pull", caller |-> c, plan |-> p, touched |-> Touched(p),
                     entry |-> balance, route |-> 1, hop |-> 1,
                     amountIn |-> p.allocations[1].amountIn, before |-> balance[Self],
                     amountOut |-> 0]
    BY <1>1 DEF Execute
  <2> QED
    BY <2>1 DEF SelfInv
<1>2. CASE Pull
  BY <1>2, SelfPull
<1>3. CASE Approve
  <2>1. /\ call # None /\ call.pc = "approve" /\ balance' = balance
        /\ call' = [call EXCEPT !.pc = "router", !.before = balance[Self]]
    BY <1>3 DEF Approve, At
  <2>2. call \in Call
    BY <2>1, HopShape
  <2>3. /\ call'.pc = "router" /\ call'.entry = call.entry /\ call'.before = balance[Self]
        /\ call'.plan = call.plan /\ call'.route = call.route /\ call'.hop = call.hop
        /\ call'.amountIn = call.amountIn /\ call'.amountOut = call.amountOut
    BY <2>1, <2>2 DEF Call
  <2>4. \A t \in Tokens : Owed(t)' = Owed(t)
    BY <2>1, <2>3 DEF Owed, HopIn, Route
  <2> QED
    BY <2>1, <2>3, <2>4 DEF SelfInv
<1>4. CASE RouterSwaps
  <2>1. call # None /\ call.pc = "router" /\ call' = [call EXCEPT !.pc = "cleanup"]
    BY <1>4, RouterFacts
  <2>2. call \in Call
    BY <2>1, HopShape
  <2>3. /\ call'.pc = "cleanup" /\ call'.entry = call.entry /\ call'.before = call.before
        /\ call'.plan = call.plan /\ call'.route = call.route /\ call'.hop = call.hop
        /\ call'.amountIn = call.amountIn /\ call'.amountOut = call.amountOut
    BY <2>1, <2>2 DEF Call
  <2>4. \A t \in Tokens : Owed(t)' = Owed(t)
    BY <2>1, <2>3 DEF Owed, HopIn, Route
  <2> QED
    BY <2>1, <2>3, <2>4 DEF SelfInv
<1>5. CASE Cleanup
  BY <1>5, SelfCleanup
<1>6. CASE Revert \/ Pay
  BY <1>6 DEF Revert, Pay
<1>7. CASE UNCHANGED vars
  BY <1>7 DEF vars, SelfInv, Owed, HopIn, Route
<1> QED
  BY <1>1, <1>2, <1>3, <1>4, <1>5, <1>6, <1>7 DEF Next

(* The executor never spends what was its own before the call, nor what    *)
(* one route left for the other, whatever routers and tokens do.           *)
THEOREM DustIsSafe == Spec => []DustNeverSpent
<1>1. Init => CallersInv /\ SelfInv
  BY DEF Init, CallersInv, SelfInv
<1>2. SelfInv => DustNeverSpent
  BY DEF SelfInv, DustNeverSpent
<1> QED
  BY <1>1, <1>2, TypeInit, TypeStep, CallersStep, SelfStep, PTL DEF Spec

-----------------------------------------------------------------------------

(* A call that ends without a revert did exactly what its plan says: the   *)
(* caller paid amountIn and got at least the minimum, nobody else's        *)
(* balance moved, and every touched balance of the executor is restored.   *)
LEMMA PaySettles == TypeInv /\ CallersInv /\ SelfInv /\ Pay => Settled
<1> SUFFICES ASSUME TypeInv, CallersInv, SelfInv, Pay PROVE Settled
  OBVIOUS
<1> DEFINE p == call.plan
           c == call.caller
<1>1. /\ call # None /\ call.pc = "pay" /\ call.amountOut >= p.minAmountOut
      /\ Transfers(Self, c, p.tokenOut, call.amountOut)
      /\ balance'[c][p.tokenOut] = balance[c][p.tokenOut] + call.amountOut
      /\ \A i \in DOMAIN call.touched :
            balance'[Self][call.touched[i]] = call.entry[Self][call.touched[i]]
  BY DEF Pay, At
<1>2. /\ c \in Callers /\ p \in Plans /\ Accepted(p) /\ call.amountOut \in Nat
      /\ p.tokenIn \in Tokens /\ p.tokenOut \in Tokens /\ p.tokenIn # p.tokenOut
      /\ p.minAmountOut \in Nat /\ p.amountIn \in Nat
      /\ call.entry \in Balances /\ balance \in Balances
  BY <1>1, HopShape, AcceptedShape DEF Call, TypeInv, TypeOK
<1>3. /\ \A a \in Accounts \ {Self, c} : balance'[a] = balance[a]
      /\ \A u \in Tokens \ {p.tokenOut} : balance'[Self][u] = balance[Self][u] /\ balance'[c][u] = balance[c][u]
  BY <1>1, <1>2, TransferFacts, ExecutorAssumption DEF Accounts
<1>4. /\ \A a \in Callers \ {c} : balance[a] = call.entry[a]
      /\ \A t \in Tokens : balance[c][t] = call.entry[c][t] - (IF t = p.tokenIn THEN p.amountIn ELSE 0)
  BY <1>1 DEF CallersInv
<1>5. \A t \in Tokens : call.entry[c][t] \in Nat /\ balance[c][t] \in Nat /\ call.entry[Self][t] \in Nat
                         /\ balance[Self][t] \in Nat
  BY <1>2 DEF Balances, Accounts
<1>6. balance'[c][p.tokenIn] = call.entry[c][p.tokenIn] - p.amountIn
  BY <1>2, <1>3, <1>4
<1>7. balance'[c][p.tokenOut] >= call.entry[c][p.tokenOut] + p.minAmountOut
  <2>1. balance[c][p.tokenOut] = call.entry[c][p.tokenOut]
    BY <1>2, <1>4, <1>5
  <2> QED
    BY <2>1, <1>1, <1>2, <1>5
<1>8. \A t \in Tokens \ {p.tokenIn, p.tokenOut} : balance'[c][t] = call.entry[c][t]
  BY <1>3, <1>4, <1>5
<1>9. \A a \in Callers \ {c} : balance'[a] = call.entry[a]
  BY <1>3, <1>4, ExecutorAssumption DEF Accounts
<1>10. \A t \in TokensOf(p) : balance'[Self][t] = call.entry[Self][t]
  <2> SUFFICES ASSUME NEW t \in TokensOf(p) PROVE balance'[Self][t] = call.entry[Self][t]
    OBVIOUS
  <2>1. call.touched = Touched(p)
    BY <1>1 DEF TypeInv, StepInv
  <2>2. PICK i \in DOMAIN Touched(p) : Touched(p)[i] = t
    BY <1>2, TouchedCovers
  <2> QED
    BY <1>1, <2>1, <2>2
<1>11. \A t \in Tokens : balance'[Self][t] >= call.entry[Self][t]
  <2> SUFFICES ASSUME NEW t \in Tokens PROVE balance'[Self][t] >= call.entry[Self][t]
    OBVIOUS
  <2>1. CASE t = p.tokenOut
    <3>1. call.route \in DOMAIN p.allocations
      BY <1>1 DEF TypeInv, TypeOK
    <3>2. /\ Route.hops[Len(Route.hops)] = p.tokenOut
          /\ Len(Route.hops) \in DOMAIN Route.hops
      <4>1. /\ Len(Route.hops) \in {1, 2} /\ DOMAIN Route.hops = 1..Len(Route.hops)
            /\ Route.hops[Len(Route.hops)] = p.tokenOut
        BY <1>2, <3>1, AcceptedShape DEF Route
      <4>2. Len(Route.hops) \in 1..Len(Route.hops)
        <5>1. \A n \in {1, 2} : n \in 1..n
          OBVIOUS
        <5> QED
          BY <4>1, <5>1
      <4> QED
        BY <4>1, <4>2
    <3>3. t \in TokensOf(p)
      BY <3>1, <3>2, <2>1 DEF TokensOf, Route
    <3> QED
      BY <3>3, <1>5, <1>10
  <2>2. CASE t # p.tokenOut
    <3>1. balance[Self][t] >= call.entry[Self][t] + Owed(t)
      BY <1>1 DEF SelfInv
    <3>2. Owed(t) \in Nat
      BY <1>1, OwedIs
    <3> QED
      BY <3>1, <3>2, <2>2, <1>3, <1>5
  <2> QED
    BY <2>1, <2>2
<1> QED
  BY <1>6, <1>7, <1>8, <1>9, <1>10, <1>11 DEF Settled

THEOREM CallsAreAllOrExactly == Spec => AllOrExactly
<1>1. Init => CallersInv /\ SelfInv
  BY DEF Init, CallersInv, SelfInv
<1>2. TypeInv /\ CallersInv /\ SelfInv /\ [Next]_vars
         => [(call # None /\ call' = None) => balance' = call.entry \/ Settled]_vars
  <2> SUFFICES ASSUME TypeInv, CallersInv, SelfInv, Next, call # None, call' = None
               PROVE  balance' = call.entry \/ Settled
    BY DEF vars
  <2>1. CASE Revert
    BY <2>1 DEF Revert
  <2>2. CASE Pay
    BY <2>2, PaySettles
  <2>3. CASE Execute
    BY <2>3 DEF Execute
  <2>4. CASE Pull \/ Approve \/ RouterSwaps \/ Cleanup
    <3>1. call' \in Call
      <4>1. CASE Pull
        BY <4>1, HopShape DEF Pull, Call
      <4>2. CASE Approve
        <5>1. balance[Self] \in [Tokens -> Nat]
          BY DEF TypeInv, TypeOK, Balances, Accounts
        <5> QED
          BY <5>1, <4>2, HopShape DEF Approve, Call
      <4>3. CASE RouterSwaps
        BY <4>3, HopShape, RouterFacts DEF Call
      <4>4. CASE Cleanup
        BY <4>4, Produced, NextHop
      <4> QED
        BY <2>4, <4>1, <4>2, <4>3, <4>4
    <3> QED
      BY <3>1, NoneAssumption
  <2> QED
    BY <2>1, <2>2, <2>3, <2>4 DEF Next
<1> QED
  BY <1>1, <1>2, TypeInit, TypeStep, CallersStep, SelfStep, PTL DEF Spec, AllOrExactly

=============================================================================
