------------------------------ MODULE Executor ------------------------------
(***************************************************************************)
(* Executor.sol: one call swaps an exact input over one or two routes of   *)
(* at most two hops, through routers and tokens that are contracts of      *)
(* their own.  Each action is what the executor does between two calls     *)
(* whose effect it does not control; RouterSwaps is the router's turn.  A  *)
(* call that reverts puts every balance and approval back.                 *)
(*                                                                         *)
(* nonReentrant: a nested call reverts, so at most one call is in flight.  *)
(* Tokens report balances truthfully, but a transfer may cost more or      *)
(* deliver less than its amount, and a router may take less than it was    *)
(* approved and hand over anything, of any token.  Balances stay far below *)
(* 2^256, so the sums of balances do not overflow; the plan's amounts are  *)
(* the caller's and may.                                                   *)
(***************************************************************************)
EXTENDS ExecutorPlan

CONSTANTS
    Callers,         \* accounts that call execute
    Plans,           \* what they call it with, well formed or not
    Times,           \* block timestamps
    Taxes,           \* what a transfer takes on top of its amount, or out of it
    Outputs,         \* what a router may hand over of a token
    Holdings,        \* balances at first, dust of the executor included
    MaxCalls         \* bound on the calls served

Self == "executor"
Accounts == Callers \cup {Self}

ASSUME ExecutorAssumption ==
    /\ Self \notin Callers /\ None \notin Tokens
    /\ MaxUint \in Nat /\ MaxCalls \in Nat
    /\ Plans \subseteq Plan
    /\ Times \subseteq Nat /\ Taxes \subseteq Nat
    /\ Outputs \subseteq Nat /\ Holdings \subseteq Nat

VARIABLES
    balance,         \* per account and token
    approved,        \* per token and router: the executor's approvals
    call,            \* the call in flight, or None
    served           \* calls made

vars == <<balance, approved, call, served>>

NoApprovals == [t \in Tokens |-> [v \in Venues |-> 0]]

-----------------------------------------------------------------------------

At(label) == call # None /\ call.pc = label

Route == call.plan.allocations[call.route]
HopIn == IF call.hop = 1 THEN call.plan.tokenIn ELSE Route.hops[call.hop - 1]
HopOut == Route.hops[call.hop]

(* from pays leaves of t, and to receives arrives.                         *)
Moved(from, to, t, leaves, arrives) ==
    [balance EXCEPT ![from][t] = @ - leaves, ![to][t] = @ + arrives]

(* A transfer succeeds when from has the amount and what it costs on top;  *)
(* to receives what the token leaves of it.                                *)
Transfers(from, to, t, amount) ==
    \E extra, tax \in Taxes :
        /\ tax <= amount /\ amount + extra <= balance[from][t]
        /\ balance' = Moved(from, to, t, amount + extra, amount - tax)

(* execute is entered.  A plan that is late or malformed reverts before    *)
(* anything happened.                                                      *)
Execute ==
    /\ call = None /\ served < MaxCalls
    /\ \E c \in Callers, p \in Plans, now \in Times :
          /\ now <= p.deadline
          /\ Accepted(p)
          /\ call' = [pc |-> "pull", caller |-> c, plan |-> p, touched |-> Touched(p),
                      entry |-> balance, route |-> 1, hop |-> 1,
                      amountIn |-> p.allocations[1].amountIn, before |-> balance[Self],
                      amountOut |-> 0]
    /\ served' = served + 1
    /\ UNCHANGED <<balance, approved>>

(* Any revert, of the executor or of a contract it called.                 *)
Revert ==
    /\ call # None
    /\ balance' = call.entry
    /\ approved' = NoApprovals
    /\ call' = None
    /\ UNCHANGED served

Pull ==
    LET t == call.plan.tokenIn
        amount == call.plan.amountIn
    IN  /\ At("pull")
        /\ Transfers(call.caller, Self, t, amount)
        /\ balance'[Self][t] = call.entry[Self][t] + amount
        /\ balance'[call.caller][t] + amount = balance[call.caller][t]
        /\ call' = [call EXCEPT !.pc = "approve"]
        /\ UNCHANGED <<approved, served>>

(* swap, up to the router's call.                                          *)
Approve ==
    /\ At("approve")
    /\ call.amountIn # 0
    /\ approved' = [approved EXCEPT ![HopIn][Route.venue] = call.amountIn]
    /\ call' = [call EXCEPT !.pc = "router", !.before = balance[Self]]
    /\ UNCHANGED <<balance, served>>

(* The router takes up to its approval and hands over what it likes.       *)
RouterSwaps ==
    /\ At("router")
    /\ \E spent \in 0..approved[HopIn][Route.venue], extra \in Taxes,
          handed \in [Tokens -> Outputs] :
          /\ spent + extra <= balance[Self][HopIn]
          /\ approved' = [approved EXCEPT ![HopIn][Route.venue] = @ - spent]
          /\ balance' = [balance EXCEPT ![Self] = [t \in Tokens |->
                balance[Self][t] + handed[t] - (IF t = HopIn THEN spent + extra ELSE 0)]]
    /\ call' = [call EXCEPT !.pc = "cleanup"]
    /\ UNCHANGED served

(* Where a finished hop leads, with what it produced.                      *)
AfterHop(produced) ==
    IF call.hop < Len(Route.hops)
    THEN [call EXCEPT !.pc = "approve", !.hop = @ + 1, !.amountIn = produced]
    ELSE IF call.route < Len(call.plan.allocations)
    THEN [call EXCEPT !.pc = "approve", !.route = @ + 1, !.hop = 1,
                      !.amountIn = call.plan.allocations[call.route + 1].amountIn,
                      !.amountOut = @ + produced]
    ELSE [call EXCEPT !.pc = "pay", !.amountOut = @ + produced]

(* Mutant: an approval the router did not use up is left behind.           *)
CleanupKeeps ==
    /\ At("cleanup")
    /\ balance[Self][HopIn] + call.amountIn = call.before[HopIn]
    /\ call' = AfterHop(balance[Self][HopOut] - call.before[HopOut])
    /\ UNCHANGED <<balance, approved, served>>

(* Mutant: the next hop spends the whole balance, dust included.           *)
CleanupSweeps ==
    /\ At("cleanup")
    /\ approved' = [approved EXCEPT ![HopIn][Route.venue] = 0]
    /\ balance[Self][HopIn] + call.amountIn = call.before[HopIn]
    /\ call' = AfterHop(balance[Self][HopOut])
    /\ UNCHANGED <<balance, served>>

(* swap, from the router's return on.                                      *)
Cleanup ==
    /\ At("cleanup")
    /\ approved' = [approved EXCEPT ![HopIn][Route.venue] = 0]
    /\ balance[Self][HopIn] + call.amountIn = call.before[HopIn]
    /\ call' = AfterHop(balance[Self][HopOut] - call.before[HopOut])
    /\ UNCHANGED <<balance, served>>

(* The caller is paid, and every touched balance must be what it was.      *)
Pay ==
    LET t == call.plan.tokenOut
    IN  /\ At("pay")
        /\ call.amountOut >= call.plan.minAmountOut
        /\ Transfers(Self, call.caller, t, call.amountOut)
        /\ balance'[call.caller][t] = balance[call.caller][t] + call.amountOut
        /\ \A i \in DOMAIN call.touched :
              balance'[Self][call.touched[i]] = call.entry[Self][call.touched[i]]
        /\ call' = None
        /\ UNCHANGED <<approved, served>>

-----------------------------------------------------------------------------

Init ==
    /\ balance \in [Accounts -> [Tokens -> Holdings]]
    /\ approved = NoApprovals
    /\ call = None /\ served = 0

Next == Execute \/ Revert \/ Pull \/ Approve \/ RouterSwaps \/ Cleanup \/ Pay

Spec == Init /\ [][Next]_vars

-----------------------------------------------------------------------------

Balances == [Accounts -> [Tokens -> Nat]]

Call == [pc : {"pull", "approve", "router", "cleanup", "pay"},
         caller : Callers, plan : Plans, touched : Seq(Tokens), entry : Balances,
         route : Nat, hop : Nat, amountIn : Nat, before : [Tokens -> Nat], amountOut : Nat]

ASSUME NoneAssumption == None \notin Call

(* Every variable holds what the code can hold there; no balance, amount   *)
(* or approval is ever negative, and a call is always at a hop of its plan.*)
TypeOK ==
    /\ balance \in Balances
    /\ approved \in [Tokens -> [Venues -> Nat]]
    /\ served \in 0..MaxCalls
    /\ call # None =>
          /\ call \in Call
          /\ call.route \in DOMAIN call.plan.allocations
          /\ call.hop \in DOMAIN Route.hops

(* A router may only take tokens in its own turn, of the hop's input, and  *)
(* no more than the hop's amount: no approval survives a hop or a call.    *)
ApprovedForOneHop ==
    \A t \in Tokens, v \in Venues :
        approved[t][v] # 0 =>
            /\ call # None /\ call.pc \in {"router", "cleanup"}
            /\ t = HopIn /\ v = Route.venue
            /\ approved[t][v] <= call.amountIn

(* What the executor owes the call at a step: the output so far, the input *)
(* of the hop to come, and the allocation whose turn has not come.         *)
Owed(t) ==
    LET later == IF call.route < Len(call.plan.allocations)
                 THEN call.plan.allocations[call.route + 1].amountIn ELSE 0
    IN  (IF t = call.plan.tokenOut THEN call.amountOut ELSE 0)
        + (IF call.pc # "pay" /\ t = HopIn THEN call.amountIn ELSE 0)
        + (IF call.pc # "pay" /\ t = call.plan.tokenIn THEN later ELSE 0)

(* What was in the executor before the call, and what one route leaves for *)
(* the other, is never spent: a hop uses what the hop before it really     *)
(* received, no quote, no returned figure and no balance.                  *)
DustNeverSpent ==
    (call # None /\ call.pc \in {"approve", "pay"}) =>
        \A t \in Tokens : balance[Self][t] >= call.entry[Self][t] + Owed(t)

(* A call either did not happen, or the caller paid exactly amountIn, got  *)
(* at least the minimum, nobody else's balance moved, and the executor     *)
(* holds what it held of every token the plan touches.                     *)
Settled ==
    LET p == call.plan
        c == call.caller
    IN  /\ balance'[c][p.tokenIn] = call.entry[c][p.tokenIn] - p.amountIn
        /\ balance'[c][p.tokenOut] >= call.entry[c][p.tokenOut] + p.minAmountOut
        /\ \A t \in Tokens \ {p.tokenIn, p.tokenOut} : balance'[c][t] = call.entry[c][t]
        /\ \A a \in Callers \ {c} : balance'[a] = call.entry[a]
        /\ \A t \in TokensOf(p) : balance'[Self][t] = call.entry[Self][t]
        /\ \A t \in Tokens : balance'[Self][t] >= call.entry[Self][t]

AllOrExactly ==
    [][ (call # None /\ call' = None) => balance' = call.entry \/ Settled ]_vars

=============================================================================
