------------------------- MODULE PreparationContract -------------------------
(***************************************************************************)
(* What PrepareExecution promises to whoever keeps a preparation id: there *)
(* is at most one decision about it, made once.  A decision says whether   *)
(* the preparation is an approval or an executable swap and on which terms *)
(* (account, spender, expiry, deadline).  Any number of concurrent calls   *)
(* and rechecks may be refused; those that are not repeat the decision.    *)
(***************************************************************************)

CONSTANT Preparations

VARIABLE decisions   \* per preparation: the distinct answers given about it

Init == decisions = [p \in Preparations |-> {}]

Decide(p) ==
    /\ decisions[p] = {}
    /\ \E d \in decisions'[p] : decisions' = [decisions EXCEPT ![p] = {d}]

Next == \E p \in Preparations : Decide(p)

Spec == Init /\ [][Next]_decisions
==============================================================================
