--------------------------- MODULE RouteCandidates ---------------------------
(***************************************************************************)
(* candidateIterator of v3.go, and its copy in slipstream.go: the paths    *)
(* tried between two tokens, handed out one by one: per deployment every   *)
(* fee (or tick spacing) directly, then every pair of them over every      *)
(* other configured token.                                                 *)
(*                                                                         *)
(* In the engine each deployment has an iterator of its own and GetQuote   *)
(* drains them in the order of their ids, as one iterator over them all    *)
(* would.  next holds the iterator's mutex, so a call is one step.         *)
(***************************************************************************)
EXTENDS RouteTerms

CONSTANTS
    Ids,             \* the deployments with paths, in order
    Order            \* the configured tokens in the order of their addresses

ASSUME CandidatesAssumption ==
    /\ Ids \in Seq(DOMAIN Configured) /\ IsInjective(Ids)
    /\ \A d \in DOMAIN Ids :
          /\ Configured[Ids[d]].kind \in PathKinds
          /\ Configured[Ids[d]].selectors \in Seq(Int)
    /\ Order \in Seq(Tokens) /\ IsInjective(Order) /\ ToSet(Order) = Tokens

VARIABLES
    at,              \* the iterator's deployment, direct, middle, first and second
    taken            \* what next has returned so far

(* The members of a set of numbers, the least first.                       *)
Ascending(S) ==
    [k \in 1..Cardinality(S) |-> CHOOSE x \in S : Cardinality({y \in S : y < x}) = k - 1]

(* The tokens but for the two ends, in their order.                        *)
Intermediates ==
    LET kept == Ascending({i \in DOMAIN Order : Order[i] \notin {TokenIn, TokenOut}})
    IN  [k \in DOMAIN kept |-> Order[kept[k]]]

Fees(p) == Ascending(ToSet(Configured[Ids[p.deployment]].selectors))

-----------------------------------------------------------------------------

(* The code counts from zero, sequences start at one: so do the positions. *)
Start(d) == [deployment |-> d, direct |-> 1, middle |-> 1, first |-> 1, second |-> 1]

UsedUp(p) == p.direct > Len(Fees(p)) /\ p.middle > Len(Intermediates)

(* Past a deployment that has no more.                                     *)
Settled(p) ==
    IF p.deployment \in DOMAIN Ids /\ UsedUp(p) THEN Start(p.deployment + 1) ELSE p

Exhausted == Settled(at).deployment > Len(Ids)

Candidate(p) ==
    IF p.direct <= Len(Fees(p))
    THEN [id |-> Ids[p.deployment], tokens |-> <<TokenIn, TokenOut>>,
          fees |-> <<Fees(p)[p.direct]>>]
    ELSE [id |-> Ids[p.deployment],
          tokens |-> <<TokenIn, Intermediates[p.middle], TokenOut>>,
          fees |-> <<Fees(p)[p.first], Fees(p)[p.second]>>]

(* Mutant: the first fee starts where it ended with the token before.      *)
AfterStuck(p) ==
    IF p.direct <= Len(Fees(p)) THEN [p EXCEPT !.direct = @ + 1]
    ELSE IF p.second < Len(Fees(p)) THEN [p EXCEPT !.second = @ + 1]
    ELSE IF p.first < Len(Fees(p)) THEN [p EXCEPT !.second = 1, !.first = @ + 1]
    ELSE [p EXCEPT !.second = 1, !.middle = @ + 1]

After(p) ==
    IF p.direct <= Len(Fees(p)) THEN [p EXCEPT !.direct = @ + 1]
    ELSE IF p.second < Len(Fees(p)) THEN [p EXCEPT !.second = @ + 1]
    ELSE IF p.first < Len(Fees(p)) THEN [p EXCEPT !.second = 1, !.first = @ + 1]
    ELSE [p EXCEPT !.second = 1, !.first = 1, !.middle = @ + 1]

Begin == at = Start(1) /\ taken = <<>>

Take ==
    /\ ~Exhausted
    /\ taken' = Append(taken, Candidate(Settled(at)))
    /\ at' = After(Settled(at))

-----------------------------------------------------------------------------

(* What there is to try, said without an order.                            *)
AllPaths ==
    UNION { LET fees == ToSet(Configured[id].selectors)
            IN  {[id |-> id, tokens |-> <<TokenIn, TokenOut>>, fees |-> <<f>>] : f \in fees}
                \cup {[id |-> id, tokens |-> <<TokenIn, m, TokenOut>>, fees |-> <<f, g>>] :
                    m \in Tokens \ {TokenIn, TokenOut}, f \in fees, g \in fees} :
            id \in ToSet(Ids) }

(* Whatever is handed out is a path, none comes twice, a direct path comes *)
(* before the longer ones of its deployment, and at the end none is        *)
(* missing (candidateIterator.next).                                       *)
EveryPathOnce ==
    /\ ToSet(taken) \subseteq AllPaths
    /\ IsInjective(taken)
    /\ \A i, j \in DOMAIN taken :
          (i < j /\ taken[i].id = taken[j].id) => Len(taken[i].fees) <= Len(taken[j].fees)
    /\ Exhausted => ToSet(taken) = AllPaths

===============================================================================
