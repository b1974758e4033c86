------------------------- MODULE PreparedTradeProofs -------------------------
(***************************************************************************)
(* What the engine builds and what the terminal signs, for every           *)
(* configuration the two accept.                                           *)
(*                                                                         *)
(* Of PreparedTrade: OfferInv says what a request and an answer come from, *)
(* TradeInv that what is signed was admitted.  Four things are left to say *)
(* of the values: the operators of one and two legs or parts, what the     *)
(* contract reads in a call (CallAccepted), what the terminal displays of  *)
(* a call it admitted (SwapDisplayed), and that it admits, encoded the     *)
(* same way, all the engine builds (EngineAccepted).                       *)
(*                                                                         *)
(* Of ExecutorPreparation, from the iterator on: its places are ordered,   *)
(* and what was handed out are the paths of the places behind it           *)
(* (CandidateInv); a call is of parts that were admitted (SplitInv).       *)
(***************************************************************************)
EXTENDS PreparedTrade, ExecutorPreparation, SequenceTheorems, FiniteSetTheorems, TLAPS

-----------------------------------------------------------------------------
(* What the engine offers.                                                 *)

Requested == {"asked", "answered"}

(* The deployments of a request were good when the engine started: it was  *)
(* quoted from them, and failed and badPools are written once.             *)
PickedInv ==
    step \in Requested =>
        IF request.route = None
        THEN \A i \in DOMAIN request.allocations :
                request.allocations[i].route.deployment \notin failed
        ELSE /\ request.route.deployment \notin failed
             /\ request.route.deployment \in BalancerIds =>
                   request.route.legs[1].value \notin badPools

(* An answer as the engine built it is about the request, and its          *)
(* contracts were in order at that block.                                  *)
AnswerInv ==
    (step = "answered" /\ ~altered) =>
        /\ answer.route = request.route /\ answer.allocations = request.allocations
        /\ VerifiesNow

OfferInv == PickedInv /\ AnswerInv

LEMMA BoundedIsSeq ==
    ASSUME NEW S, NEW n \in Nat, NEW s \in BoundedSeq(S, n)
    PROVE  s \in Seq(S) /\ Len(s) \in 0..n
<1>1. s \in UNION {[1..k -> S] : k \in 0..n}
  BY DEF BoundedSeq, SeqOf
<1>2. PICK k \in 0..n : s \in [1..k -> S]
  BY <1>1
<1>. QED
  BY <1>2

(* A request is for one of the routes found, or for an admitted split over *)
(* them.                                                                   *)
LEMMA SplitParts ==
    ASSUME NEW found, NEW split \in SplitsOver(found)
    PROVE  /\ \E S : split \in Seq(S)
           /\ Len(split) \in {1, 2} /\ DOMAIN split = 1..Len(split)
           /\ Admitted(split)
           /\ \A i \in DOMAIN split :
                 /\ {"route", "amountIn"} \subseteq DOMAIN split[i]
                 /\ split[i].route \in found /\ split[i].amountIn \in Allotments
<1>. DEFINE Part == [route : {r \in found : Venue(r) # None}, amountIn : Allotments]
<1>1. split \in BoundedSeq(Part, 2) /\ Admitted(split)
  BY DEF SplitsOver
<1>2. \A x \in Part : /\ {"route", "amountIn"} \subseteq DOMAIN x
                      /\ x.route \in found /\ x.amountIn \in Allotments
  OBVIOUS
<1>. HIDE DEF Part
<1>3. split \in Seq(Part)
  BY <1>1, BoundedIsSeq
<1>4. Len(split) \in {1, 2}
  BY <1>1 DEF Admitted
<1>. QED
  BY <1>1, <1>2, <1>3, <1>4

LEMMA RequestCases ==
    ASSUME NEW found, NEW r \in RequestsOver(found)
    PROVE  /\ r.bps \in SlippageBps
           /\ \/ r.route \in found /\ r.allocations = <<>> /\ r.output = r.route.out
              \/ /\ r.route = None /\ r.allocations \in SplitsOver(found)
                 /\ r.output = Aggregate(r.allocations)
<1>1. \/ \E bps \in SlippageBps, route \in found : r = OneRoute(bps, route)
      \/ \E bps \in SlippageBps, split \in SplitsOver(found) : r = OneSplit(bps, split)
  BY DEF RequestsOver
<1>. QED
  BY <1>1 DEF OneRoute, OneSplit

LEMMA QuotedIsGood ==
    ASSUME NEW route \in QuotedRoutes
    PROVE  /\ route \in AllRoutes
           /\ route.deployment \notin failed
           /\ route.deployment \in BalancerIds => route.legs[1].value \notin badPools
BY DEF QuotedRoutes, Quotable

LEMMA AskedIsGood ==
    ASSUME Ask
    PROVE  PickedInv'
<1>1. request' \in RequestsOver(QuotedRoutes) /\ UNCHANGED <<failed, badPools>>
  BY DEF Ask
<1>2. PICK r : r = request'
  OBVIOUS
<1>3. CASE r.route \in QuotedRoutes /\ r.allocations = <<>>
  <2>1. /\ r.route.deployment \notin failed
        /\ r.route.deployment \in BalancerIds => r.route.legs[1].value \notin badPools
    BY <1>3, QuotedIsGood
  <2>2. DOMAIN r.allocations = {}
    BY <1>3
  <2>. QED
    BY <1>1, <1>2, <2>1, <2>2 DEF PickedInv, BalancerIds, Kind
<1>4. CASE r.route = None /\ r.allocations \in SplitsOver(QuotedRoutes)
  <2>1. \A i \in DOMAIN r.allocations : r.allocations[i].route \in QuotedRoutes
    BY <1>4, SplitParts
  <2>2. \A i \in DOMAIN r.allocations : r.allocations[i].route.deployment \notin failed
    BY <2>1, QuotedIsGood
  <2>. QED
    BY <1>1, <1>2, <1>4, <2>2 DEF PickedInv
<1>. QED
  BY <1>1, <1>2, <1>3, <1>4, RequestCases

LEMMA OfferStep == OfferInv /\ [Next]_vars => OfferInv'
<1>. SUFFICES ASSUME OfferInv, [Next]_vars PROVE OfferInv'
  OBVIOUS
<1>1. CASE VerifyDeployments
  BY <1>1 DEF VerifyDeployments, OfferInv, PickedInv, AnswerInv, Requested
<1>2. CASE Ask
  BY <1>2, AskedIsGood DEF OfferInv, AnswerInv, Ask
<1>3. CASE Drift
  BY <1>3 DEF Drift, OfferInv, PickedInv, AnswerInv, Requested
<1>4. CASE Prepare
  <2>1. UNCHANGED <<faults, failed, badPools, request, altered>> /\ step = "asked"
    BY <1>4 DEF Prepare
  <2>2. ASSUME step' = "answered"
        PROVE  /\ VerifiesNow
               /\ (answer.route)' = request.route /\ (answer.allocations)' = request.allocations
    <3>. DEFINE p == Frozen
    <3>1. VerifiesNow
      BY <1>4, <2>2 DEF Prepare
    <3>2. answer' \in {AskForApproval(p), AskForPermission(p), Offer(p)}
      BY <1>4, <2>2 DEF Prepare
    <3>3. p.route = request.route /\ p.allocations = request.allocations
      BY DEF Frozen, FrozenFor
    <3>4. /\ AskForApproval(p).route = p.route /\ AskForApproval(p).allocations = p.allocations
          /\ AskForPermission(p).route = p.route
          /\ AskForPermission(p).allocations = p.allocations
          /\ Offer(p).route = p.route /\ Offer(p).allocations = p.allocations
      BY DEF Frozen, FrozenFor, AskForApproval, AskForPermission, Offer
    <3>. HIDE DEF p
    <3>. QED
      BY <3>1, <3>2, <3>3, <3>4
  <2>3. VerifiesNow' <=> VerifiesNow
    BY <2>1 DEF VerifiesNow, ExecutorInOrder, PoolInOrder, SignerInOrder
  <2>4. AnswerInv'
    BY <2>1, <2>2, <2>3 DEF AnswerInv
  <2>. QED
    BY <2>1, <2>4 DEF OfferInv, PickedInv, Requested
<1>5. CASE Alter
  BY <1>5 DEF Alter, OfferInv, PickedInv, AnswerInv, Requested
<1>6. CASE Review
  BY <1>6 DEF Review, OfferInv, PickedInv, AnswerInv, Requested
<1>7. CASE UNCHANGED vars
  BY <1>7 DEF vars, OfferInv, PickedInv, AnswerInv, VerifiesNow, ExecutorInOrder, PoolInOrder,
              SignerInOrder
<1>. QED
  BY <1>1, <1>2, <1>3, <1>4, <1>5, <1>6, <1>7 DEF Next

(* A swap is offered only through contracts that are in order, those       *)
(* verified at startup and those that may have changed since.              *)
THEOREM OfferedVerified == Spec => []OfferedIsVerified
<1>1. Init => OfferInv
  BY DEF Init, OfferInv, PickedInv, AnswerInv, Requested
<1>2. OfferInv => OfferedIsVerified
  <2>. SUFFICES ASSUME OfferInv, step = "answered", ~altered PROVE OfferedIsVerified
    BY DEF OfferedIsVerified
  <2>1. PickedInv /\ answer.route = request.route /\ answer.allocations = request.allocations
        /\ VerifiesNow
    BY DEF OfferInv, AnswerInv
  <2>2. CASE request.route = None
    BY <2>1, <2>2 DEF PickedInv, Requested, OfferedIsVerified, VerifiesNow, ExecutorInOrder
  <2>3. CASE request.route # None
    BY <2>1, <2>3
       DEF PickedInv, Requested, OfferedIsVerified, VerifiesNow, PoolInOrder, SignerInOrder
  <2>. QED
    BY <2>2, <2>3
<1>. QED
  BY <1>1, <1>2, OfferStep, PTL DEF Spec

-----------------------------------------------------------------------------
(* What reaches the terminal has lists where lists belong, whatever was    *)
(* edited on the way: that much the decoding of a message ensures.         *)

IsSeq(s) == \E S : s \in Seq(S)
RouteShaped(r) == "legs" \in DOMAIN r /\ IsSeq(r.legs)
PartShaped(a) == "route" \in DOMAIN a /\ RouteShaped(a.route)

Shaped(p) ==
    /\ {"route", "allocations"} \subseteq DOMAIN p
    /\ p.route # None => RouteShaped(p.route)
    /\ IsSeq(p.allocations)
    /\ \A i \in DOMAIN p.allocations : PartShaped(p.allocations[i])

LEMMA ExceptIsSeq ==
    ASSUME NEW s, IsSeq(s), NEW x, NEW i
    PROVE  /\ IsSeq([s EXCEPT ![i] = x]) /\ DOMAIN [s EXCEPT ![i] = x] = DOMAIN s
           /\ \A j \in DOMAIN s : [s EXCEPT ![i] = x][j] = IF j = i THEN x ELSE s[j]
<1>1. PICK S : s \in Seq(S)
  BY DEF IsSeq
<1>. DEFINE t == [s EXCEPT ![i] = x]
<1>2. /\ DOMAIN t = 1..Len(s) /\ Len(s) \in Nat
      /\ \A j \in 1..Len(s) : t[j] = IF j = i THEN x ELSE s[j]
  BY <1>1
<1>3. t = [j \in 1..Len(s) |-> IF j = i THEN x ELSE s[j]]
  BY <1>1
<1>4. \A j \in 1..Len(s) : (IF j = i THEN x ELSE s[j]) \in S \cup {x}
  BY <1>1
<1>. HIDE DEF t
<1>5. t \in [1..Len(s) -> S \cup {x}]
  BY <1>3, <1>4
<1>6. t \in Seq(S \cup {x})
  BY <1>2, <1>5
<1>. QED
  BY <1>1, <1>2, <1>6 DEF IsSeq, t

LEMMA SameShaped ==
    ASSUME NEW p, Shaped(p), NEW q, {"route", "allocations"} \subseteq DOMAIN q,
           q.route = p.route, q.allocations = p.allocations
    PROVE  Shaped(q)
BY DEF Shaped

LEMMA PartEditShaped ==
    ASSUME NEW p, Shaped(p), NEW a, PartShaped(a)
    PROVE  Shaped([p EXCEPT !.allocations[1] = a])
<1>. DEFINE q == [p EXCEPT !.allocations[1] = a]
<1>1. q = [p EXCEPT !.allocations = [p.allocations EXCEPT ![1] = a]]
  OBVIOUS
<1>2. /\ {"route", "allocations"} \subseteq DOMAIN q /\ q.route = p.route
      /\ q.allocations = [p.allocations EXCEPT ![1] = a]
  BY <1>1 DEF Shaped
<1>3. /\ IsSeq(q.allocations) /\ DOMAIN q.allocations = DOMAIN p.allocations
      /\ \A j \in DOMAIN p.allocations :
            q.allocations[j] = IF j = 1 THEN a ELSE p.allocations[j]
  BY <1>2, ExceptIsSeq DEF Shaped
<1>. HIDE DEF q
<1>4. Shaped(q)
  BY <1>2, <1>3 DEF Shaped
<1>. QED
  BY <1>4 DEF q

LEMMA RouteEditShaped ==
    ASSUME NEW p, Shaped(p), NEW r, RouteShaped(r)
    PROVE  Shaped([p EXCEPT !.route = r])
BY DEF Shaped

(* A leg edited in place.                                                  *)
LEMMA LegEditShaped ==
    ASSUME NEW r, RouteShaped(r), NEW legs, legs = r.legs, NEW leg
    PROVE  RouteShaped([r EXCEPT !.legs[1] = leg])
<1>1. [r EXCEPT !.legs[1] = leg] = [r EXCEPT !.legs = [legs EXCEPT ![1] = leg]]
  OBVIOUS
<1>2. IsSeq([legs EXCEPT ![1] = leg])
  BY ExceptIsSeq DEF RouteShaped
<1>. QED
  BY <1>1, <1>2 DEF RouteShaped

(* An answer of the engine.                                                *)
EngineShaped(p) == Shaped(p) /\ (p.route = None => p.allocations # <<>>)

LEMMA FirstPart ==
    ASSUME NEW p, EngineShaped(p), p.route = None
    PROVE  PartShaped(p.allocations[1])
<1>1. PICK S : p.allocations \in Seq(S)
  BY DEF EngineShaped, Shaped, IsSeq
<1>2. 1 \in DOMAIN p.allocations
  BY <1>1, EmptySeq DEF EngineShaped
<1>. QED
  BY <1>2 DEF EngineShaped, Shaped

LEMMA EditsShaped ==
    ASSUME NEW p, EngineShaped(p), NEW q \in Edits(p)
    PROVE  Shaped(q)
<1>0. Shaped(p) /\ {"route", "allocations"} \subseteq DOMAIN p
  BY DEF EngineShaped, Shaped
<1>1. CASE \/ q \in {[p EXCEPT !.recipient = "other"], [p EXCEPT !.tokenIn = p.tokenOut],
                      [p EXCEPT !.amountIn = @ + 1], [p EXCEPT !.minimum = @ - 1],
                      [p EXCEPT !.deadline = @ + 1], [p EXCEPT !.approvalSpender = "other"],
                      [p EXCEPT !.status = "READY"]}
           \/ \E t : \/ q = [p EXCEPT !.tokenOut = t]
                     \/ q = [p EXCEPT !.transaction = t]
                     \/ q = [p EXCEPT !.approval = t]
  <2>1. /\ {"route", "allocations"} \subseteq DOMAIN q
        /\ q.route = p.route /\ q.allocations = p.allocations
    BY <1>0, <1>1
  <2>. QED
    BY <1>0, <2>1, SameShaped
<1>2. CASE p.route = None /\ q \in {[p EXCEPT !.allocations[1].amountIn = @ + 1],
                [p EXCEPT !.allocations[1].route.out = @ + 1],
                [p EXCEPT !.allocations[1].route.block = "later"],
                [p EXCEPT !.allocations[1].route.legs[1].value = 0],
                [p EXCEPT !.allocations = <<@[1], @[1]>>]}
  <2>. DEFINE a == p.allocations[1]
              r == a.route
              first == r.legs[1]
  <2>0. PartShaped(a) /\ RouteShaped(r)
    BY <1>2, FirstPart DEF PartShaped
  <2>1. \A x : PartShaped([a EXCEPT !.amountIn = x])
    BY <2>0 DEF PartShaped, RouteShaped
  <2>2. \A x : RouteShaped(x) => PartShaped([a EXCEPT !.route = x])
    BY <2>0 DEF PartShaped
  <2>3. \A x : RouteShaped([r EXCEPT !.out = x]) /\ RouteShaped([r EXCEPT !.block = x])
    BY <2>0 DEF RouteShaped
  <2>4. \A x : RouteShaped([r EXCEPT !.legs[1] = x])
    BY <2>0, LegEditShaped
  <2>5. CASE q = [p EXCEPT !.allocations[1].amountIn = @ + 1]
    <3>1. q = [p EXCEPT !.allocations[1] = [a EXCEPT !.amountIn = a.amountIn + 1]]
      BY <2>5
    <3>. QED
      BY <1>0, <2>1, <3>1, PartEditShaped
  <2>6. CASE q = [p EXCEPT !.allocations[1].route.out = @ + 1]
    <3>1. q = [p EXCEPT !.allocations[1] = [a EXCEPT !.route = [r EXCEPT !.out = r.out + 1]]]
      BY <2>6
    <3>. QED
      BY <1>0, <2>2, <2>3, <3>1, PartEditShaped
  <2>7. CASE q = [p EXCEPT !.allocations[1].route.block = "later"]
    <3>1. q = [p EXCEPT !.allocations[1] = [a EXCEPT !.route = [r EXCEPT !.block = "later"]]]
      BY <2>7
    <3>. QED
      BY <1>0, <2>2, <2>3, <3>1, PartEditShaped
  <2>8. CASE q = [p EXCEPT !.allocations[1].route.legs[1].value = 0]
    <3>1. q = [p EXCEPT !.allocations[1] = [a EXCEPT !.route =
                  [r EXCEPT !.legs[1] = [first EXCEPT !.value = 0]]]]
      BY <2>8
    <3>. QED
      BY <1>0, <2>2, <2>4, <3>1, PartEditShaped
  <2>9. CASE q = [p EXCEPT !.allocations = <<@[1], @[1]>>]
    <3>1. /\ {"route", "allocations"} \subseteq DOMAIN q /\ q.route = p.route
          /\ q.allocations = <<a, a>>
      BY <1>0, <2>9
    <3>. HIDE DEF a
    <3>2. <<a, a>> \in Seq({a}) /\ DOMAIN <<a, a>> = 1..2
          /\ \A i \in 1..2 : <<a, a>>[i] = a
      OBVIOUS
    <3>. QED
      BY <1>2, <2>0, <3>1, <3>2 DEF Shaped, IsSeq
  <2>. QED
    BY <1>2, <2>5, <2>6, <2>7, <2>8, <2>9
<1>3. CASE p.route # None /\ q \in {[p EXCEPT !.route.out = @ + 1],
                [p EXCEPT !.route.legs[1].value = 0],
                [p EXCEPT !.route.legs[1].tokenOut = p.tokenIn]}
  <2>. DEFINE r == p.route
              first == r.legs[1]
  <2>0. RouteShaped(r)
    BY <1>0, <1>3 DEF Shaped
  <2>1. \A x : RouteShaped([r EXCEPT !.out = x])
    BY <2>0 DEF RouteShaped
  <2>2. \A x : RouteShaped([r EXCEPT !.legs[1] = x])
    BY <2>0, LegEditShaped
  <2>3. \/ q = [p EXCEPT !.route = [r EXCEPT !.out = r.out + 1]]
        \/ q = [p EXCEPT !.route = [r EXCEPT !.legs[1] = [first EXCEPT !.value = 0]]]
        \/ q = [p EXCEPT !.route = [r EXCEPT !.legs[1] = [first EXCEPT !.tokenOut = p.tokenIn]]]
    BY <1>3
  <2>. HIDE DEF r
  <2>. QED
    BY <1>0, <2>1, <2>2, <2>3, RouteEditShaped
<1>4. CASE /\ p.route # None
           /\ \E id \in DOMAIN Configured :
                q = [p EXCEPT !.route = [@ EXCEPT !.deployment = id, !.provider = Kind(id)]]
  <2>. DEFINE r == p.route
  <2>0. RouteShaped(r)
    BY <1>0, <1>4 DEF Shaped
  <2>1. \A x, y : RouteShaped([r EXCEPT !.deployment = x, !.provider = y])
    BY <2>0 DEF RouteShaped
  <2>2. PICK x, y : q = [p EXCEPT !.route = [r EXCEPT !.deployment = x, !.provider = y]]
    BY <1>4
  <2>. QED
    BY <1>0, <2>1, <2>2, RouteEditShaped
<1>. QED
  BY <1>1, <1>2, <1>3, <1>4 DEF Edits

LEMMA AlterationsShaped ==
    ASSUME NEW p, EngineShaped(p), NEW q \in Alterations(p)
    PROVE  Shaped(q)
<1>1. \A e \in Edits(p) \cup {p} : Shaped(e) /\ {"route", "allocations"} \subseteq DOMAIN e
  BY EditsShaped DEF EngineShaped, Shaped
<1>2. \A e : {"route", "allocations"} \subseteq DOMAIN e =>
         /\ {"route", "allocations"} \subseteq DOMAIN Offer(e)
         /\ Offer(e).route = e.route /\ Offer(e).allocations = e.allocations
         /\ {"route", "allocations"} \subseteq DOMAIN AskForApproval(e)
         /\ AskForApproval(e).route = e.route /\ AskForApproval(e).allocations = e.allocations
         /\ {"route", "allocations"} \subseteq DOMAIN AskForPermission(e)
         /\ AskForPermission(e).route = e.route
         /\ AskForPermission(e).allocations = e.allocations
  BY DEF Offer, AskForApproval, AskForPermission
<1>3. CASE \/ \E t : \/ q = [p EXCEPT !.transaction = t] \/ q = [p EXCEPT !.approval = t]
                     \/ q = [p EXCEPT !.permission.transaction = t]
           \/ q \in {[p EXCEPT !.permission.expiration = @ + 1],
                    [p EXCEPT !.permission.amount = @ + 1]}
  <2>1. /\ {"route", "allocations"} \subseteq DOMAIN q
        /\ q.route = p.route /\ q.allocations = p.allocations
    BY <1>1, <1>3
  <2>. QED
    BY <1>1, <2>1, SameShaped
<1>4. CASE \E e \in Edits(p) : q \in {Offer(e), AskForApproval(e), AskForPermission(e)}
  <2>1. PICK e \in Edits(p) : q \in {Offer(e), AskForApproval(e), AskForPermission(e)}
    BY <1>4
  <2>2. Shaped(e) /\ {"route", "allocations"} \subseteq DOMAIN e
    BY <1>1
  <2>. QED
    BY <1>2, <2>1, <2>2, SameShaped
<1>5. CASE q \in Edits(p)
  BY <1>5, EditsShaped
<1>. QED
  BY <1>3, <1>4, <1>5 DEF Alterations

-----------------------------------------------------------------------------
(* What the operators of one and two make.                                 *)

LEMMA SumOfOne ==
    ASSUME NEW s, Len(s) = 1, s[1] \in Int
    PROVE  SumOf(s) = s[1]
<1>. DEFINE given == [i \in 0..1 |-> IF i = 0 THEN 0 ELSE s[1]]
            sum == CHOOSE f : f = [i \in 0..1 |-> IF i = 0 THEN 0 ELSE f[i - 1] + s[i]]
<1>1. given = [i \in 0..1 |-> IF i = 0 THEN 0 ELSE given[i - 1] + s[i]]
  <2>1. \A i \in 0..1 : (IF i = 0 THEN 0 ELSE given[i - 1] + s[i])
                       = IF i = 0 THEN 0 ELSE s[1]
    <3>1. \A i \in 0..1 : i = 0 \/ i = 1
      OBVIOUS
    <3>2. given[0] = 0
      OBVIOUS
    <3>. QED
      BY <3>1, <3>2
  <2>. QED
    BY <2>1
<1>2. sum = [i \in 0..1 |-> IF i = 0 THEN 0 ELSE sum[i - 1] + s[i]]
  BY <1>1
<1>3. SumOf(s) = sum[1]
  BY DEF SumOf
<1>. HIDE DEF sum
<1>. QED
  BY <1>2, <1>3

LEMMA SumOfTwo ==
    ASSUME NEW s, Len(s) = 2, s[1] \in Int, s[2] \in Int
    PROVE  SumOf(s) = s[1] + s[2]
<1>. DEFINE given == [i \in 0..2 |-> IF i = 0 THEN 0 ELSE IF i = 1 THEN s[1] ELSE s[1] + s[2]]
            sum == CHOOSE f : f = [i \in 0..2 |-> IF i = 0 THEN 0 ELSE f[i - 1] + s[i]]
<1>1. given = [i \in 0..2 |-> IF i = 0 THEN 0 ELSE given[i - 1] + s[i]]
  <2>1. \A i \in 0..2 : (IF i = 0 THEN 0 ELSE given[i - 1] + s[i])
                       = IF i = 0 THEN 0 ELSE IF i = 1 THEN s[1] ELSE s[1] + s[2]
    <3>1. \A i \in 0..2 : i = 0 \/ i = 1 \/ i = 2
      OBVIOUS
    <3>2. given[0] = 0 /\ given[1] = s[1]
      OBVIOUS
    <3>. HIDE DEF given
    <3>. QED
      BY <3>1, <3>2
  <2>. QED
    BY <2>1
<1>2. sum = [i \in 0..2 |-> IF i = 0 THEN 0 ELSE sum[i - 1] + s[i]]
  BY <1>1
<1>3. SumOf(s) = sum[2]
  BY DEF SumOf
<1>. HIDE DEF sum
<1>4. sum[0] = 0
  BY <1>2
<1>5. sum[1] = s[1]
  BY <1>2, <1>4
<1>. QED
  BY <1>2, <1>3, <1>5

LEMMA JoinOne == ASSUME NEW x, NEW y PROVE <<x>> \o <<y>> = <<x, y>>
<1>. DEFINE a == <<x>>
            b == <<y>>
            c == <<x, y>>
            S == {x, y}
<1>1. /\ a \in Seq(S) /\ Len(a) = 1 /\ a[1] = x
      /\ b \in Seq(S) /\ Len(b) = 1 /\ b[1] = y
      /\ c \in Seq(S) /\ Len(c) = 2 /\ c[1] = x /\ c[2] = y
  OBVIOUS
<1>. HIDE DEF a, b, c, S
<1>2. a \o b \in Seq(S) /\ Len(a \o b) = 2 /\ (a \o b)[1] = x /\ (a \o b)[2] = y
  <2>1. /\ a \o b \in Seq(S) /\ Len(a \o b) = Len(a) + Len(b)
        /\ \A i \in 1..(Len(a) + Len(b)) :
              (a \o b)[i] = IF i <= Len(a) THEN a[i] ELSE b[i - Len(a)]
    BY <1>1, ConcatProperties, Zenon
  <2>. QED
    BY <1>1, <2>1
<1>3. \A i \in 1..2 : (a \o b)[i] = c[i]
  BY <1>1, <1>2
<1>4. a \o b = c
  BY <1>1, <1>2, <1>3, SeqEqual
<1>. QED
  BY <1>4 DEF a, b, c

LEMMA JoinTwo == ASSUME NEW x, NEW y, NEW z PROVE <<x>> \o <<y, z>> = <<x, y, z>>
<1>. DEFINE a == <<x>>
            b == <<y, z>>
            c == <<x, y, z>>
            S == {x, y, z}
<1>1. /\ a \in Seq(S) /\ Len(a) = 1 /\ a[1] = x
      /\ b \in Seq(S) /\ Len(b) = 2 /\ b[1] = y /\ b[2] = z
      /\ c \in Seq(S) /\ Len(c) = 3 /\ c[1] = x /\ c[2] = y /\ c[3] = z
  OBVIOUS
<1>. HIDE DEF a, b, c, S
<1>2. /\ a \o b \in Seq(S) /\ Len(a \o b) = 3
      /\ (a \o b)[1] = x /\ (a \o b)[2] = y /\ (a \o b)[3] = z
  <2>1. /\ a \o b \in Seq(S) /\ Len(a \o b) = Len(a) + Len(b)
        /\ \A i \in 1..(Len(a) + Len(b)) :
              (a \o b)[i] = IF i <= Len(a) THEN a[i] ELSE b[i - Len(a)]
    BY <1>1, ConcatProperties, Zenon
  <2>. QED
    BY <1>1, <2>1
<1>3. \A i \in 1..3 : (a \o b)[i] = c[i]
  BY <1>1, <1>2
<1>4. a \o b = c
  BY <1>1, <1>2, <1>3, SeqEqual
<1>. QED
  BY <1>4 DEF a, b, c

LEMMA AlongOne ==
    ASSUME NEW legs, IsSeq(legs), Len(legs) = 1
    PROVE  TokensAlong(legs) = <<legs[1].tokenIn, legs[1].tokenOut>>
<1>1. PICK S : legs \in Seq(S)
  BY DEF IsSeq
<1>2. [i \in DOMAIN legs |-> legs[i].tokenOut] = <<legs[1].tokenOut>>
  BY <1>1
<1>. QED
  BY <1>2, JoinOne, JoinTwo DEF TokensAlong, StartOf

LEMMA AlongTwo ==
    ASSUME NEW legs, IsSeq(legs), Len(legs) = 2
    PROVE  TokensAlong(legs) = <<legs[1].tokenIn, legs[1].tokenOut, legs[2].tokenOut>>
<1>1. PICK S : legs \in Seq(S)
  BY DEF IsSeq
<1>2. [i \in DOMAIN legs |-> legs[i].tokenOut] = <<legs[1].tokenOut, legs[2].tokenOut>>
  BY <1>1
<1>. QED
  BY <1>2, JoinOne, JoinTwo DEF TokensAlong, StartOf

-----------------------------------------------------------------------------
(* A split as the contract reads it from the call.                         *)

(* The call both programs build, whatever they take for the venues.        *)
HopsOf(legs) == [j \in DOMAIN legs |-> legs[j].tokenOut]

CallOf(data, parts, venue) ==
    data.allocations = [i \in DOMAIN parts |->
        [venue |-> venue[i], amountIn |-> parts[i].amountIn,
         hops |-> [j \in DOMAIN parts[i].route.legs |->
            [tokenOut |-> parts[i].route.legs[j].tokenOut,
             fee |-> parts[i].route.legs[j].value]]]]

LEMMA ReadCall ==
    ASSUME NEW data, NEW parts, NEW venue, CallOf(data, parts, venue), IsSeq(parts)
    PROVE  /\ Len(PlanOfCall(data).allocations) = Len(parts)
           /\ DOMAIN PlanOfCall(data).allocations = DOMAIN parts
           /\ IsSeq(PlanOfCall(data).allocations)
           /\ \A i \in DOMAIN parts :
                 /\ PlanOfCall(data).allocations[i].venue = venue[i]
                 /\ PlanOfCall(data).allocations[i].amountIn = parts[i].amountIn
                 /\ PlanOfCall(data).allocations[i].hops = HopsOf(parts[i].route.legs)
<1>1. PICK S : parts \in Seq(S)
  BY DEF IsSeq
<1>2. DOMAIN parts = 1..Len(parts) /\ Len(parts) \in Nat
  BY <1>1
<1>. DEFINE read(a) == [venue |-> a.venue, amountIn |-> a.amountIn,
                        hops |-> [j \in DOMAIN a.hops |-> a.hops[j].tokenOut]]
            made(i) == [venue |-> venue[i], amountIn |-> parts[i].amountIn,
                        hops |-> [j \in DOMAIN parts[i].route.legs |->
                           [tokenOut |-> parts[i].route.legs[j].tokenOut,
                            fee |-> parts[i].route.legs[j].value]]]
            all == PlanOfCall(data).allocations
<1>3. /\ all = [i \in DOMAIN data.allocations |-> read(data.allocations[i])]
      /\ data.allocations = [i \in DOMAIN parts |-> made(i)]
  BY DEF PlanOfCall, CallOf
<1>4. \A i : /\ read(made(i)).venue = venue[i] /\ read(made(i)).amountIn = parts[i].amountIn
             /\ read(made(i)).hops = HopsOf(parts[i].route.legs)
  BY DEF HopsOf
<1>. HIDE DEF read, made, all
<1>5. all = [i \in 1..Len(parts) |-> read(made(i))]
  BY <1>2, <1>3
<1>6. \A i \in 1..Len(parts) : read(made(i)) \in {read(made(j)) : j \in 1..Len(parts)}
  OBVIOUS
<1>7. all \in Seq({read(made(j)) : j \in 1..Len(parts)})
  <2>. DEFINE R == {read(made(j)) : j \in 1..Len(parts)}
  <2>1. all \in [1..Len(parts) -> R]
    BY <1>5, <1>6
  <2>. HIDE DEF R
  <2>. QED
    BY <1>2, <2>1 DEF R
<1>8. /\ DOMAIN all = 1..Len(parts) /\ Len(all) = Len(parts)
      /\ \A i \in 1..Len(parts) : all[i] = read(made(i))
  BY <1>2, <1>5
<1>. QED
  BY <1>2, <1>4, <1>7, <1>8 DEF all, IsSeq

LEMMA HopsGood ==
    ASSUME NEW p, p.tokenIn # p.tokenOut, {p.tokenIn, p.tokenOut} \subseteq Tokens,
           NEW legs, IsSeq(legs), Len(legs) \in {1, 2}, legs[Len(legs)].tokenOut = p.tokenOut,
           Len(legs) = 2 => legs[1].tokenOut \in Tokens \ {p.tokenIn, p.tokenOut}
    PROVE  HopsAccepted(p, HopsOf(legs))
<1>1. PICK S : legs \in Seq(S)
  BY DEF IsSeq
<1>2. /\ DOMAIN HopsOf(legs) = 1..Len(legs) /\ Len(HopsOf(legs)) = Len(legs)
      /\ \A j \in 1..Len(legs) : HopsOf(legs)[j] = legs[j].tokenOut
  BY <1>1 DEF HopsOf
<1>. DEFINE hops == HopsOf(legs)
<1>3. CASE Len(legs) = 1
  <2>1. Len(hops) = 1 /\ DOMAIN hops = 1..1 /\ hops[1] = p.tokenOut
    BY <1>2, <1>3
  <2>. HIDE DEF hops
  <2>2. HopsAccepted(p, hops)
    BY <2>1 DEF HopsAccepted
  <2>. QED
    BY <2>2 DEF hops
<1>4. CASE Len(legs) = 2
  <2>1. /\ Len(hops) = 2 /\ DOMAIN hops = 1..2 /\ hops[2] = p.tokenOut
        /\ hops[1] \in Tokens \ {p.tokenIn, p.tokenOut}
    BY <1>2, <1>4
  <2>. HIDE DEF hops
  <2>2. \A j \in 1..2 : j = 1 \/ j = 2
    OBVIOUS
  <2>3. HopsAccepted(p, hops)
    BY <2>1, <2>2 DEF HopsAccepted
  <2>. QED
    BY <2>3 DEF hops
<1>. QED
  BY <1>3, <1>4

LEMMA AmountsGood ==
    ASSUME NEW p, IsSeq(p.allocations), Len(p.allocations) \in {1, 2},
           \A i \in DOMAIN p.allocations : p.allocations[i].amountIn \in 1..MaxUint,
           SumOf([i \in DOMAIN p.allocations |-> p.allocations[i].amountIn]) = p.amountIn
    PROVE  AmountsAccepted(p)
<1>1. PICK S : p.allocations \in Seq(S)
  BY DEF IsSeq
<1>. DEFINE amounts == [i \in DOMAIN p.allocations |-> p.allocations[i].amountIn]
<1>2. /\ DOMAIN p.allocations = 1..Len(p.allocations)
      /\ Len(amounts) = Len(p.allocations)
      /\ \A i \in 1..Len(p.allocations) : amounts[i] = p.allocations[i].amountIn
  BY <1>1
<1>3. CASE Len(p.allocations) = 1
  <2>1. amounts[1] = p.allocations[1].amountIn /\ amounts[1] \in Int /\ amounts[1] >= 1
    BY <1>2, <1>3
  <2>. HIDE DEF amounts
  <2>2. SumOf(amounts) = amounts[1]
    BY <1>2, <1>3, <2>1, SumOfOne
  <2>3. p.amountIn = p.allocations[1].amountIn
    BY <2>1, <2>2 DEF amounts
  <2>. QED
    BY <1>3, <2>1, <2>3 DEF AmountsAccepted
<1>4. CASE Len(p.allocations) = 2
  <2>1. /\ amounts[1] = p.allocations[1].amountIn /\ amounts[1] \in Int /\ amounts[1] >= 1
        /\ amounts[2] = p.allocations[2].amountIn /\ amounts[2] \in Int /\ amounts[2] >= 1
    BY <1>2, <1>4
  <2>. HIDE DEF amounts
  <2>2. SumOf(amounts) = amounts[1] + amounts[2]
    BY <1>2, <1>4, <2>1, SumOfTwo
  <2>3. p.amountIn = p.allocations[1].amountIn + p.allocations[2].amountIn
    BY <2>1, <2>2 DEF amounts
  <2>. QED
    BY <1>4, <2>1, <2>3 DEF AmountsAccepted
<1>. QED
  BY <1>3, <1>4

(* validate passes what the callers' checks say of the parts.              *)
LEMMA CallAccepted ==
    ASSUME NEW data, NEW parts, NEW venue, CallOf(data, parts, venue), IsSeq(parts),
           data.tokenIn # data.tokenOut, {data.tokenIn, data.tokenOut} \subseteq Tokens,
           Len(parts) \in {1, 2},
           \A i, j \in DOMAIN parts : venue[i] = venue[j] => i = j,
           \A i \in DOMAIN parts :
              /\ venue[i] \in Venues /\ parts[i].amountIn \in 1..MaxUint
              /\ IsSeq(parts[i].route.legs) /\ Len(parts[i].route.legs) \in {1, 2}
              /\ EndOf(parts[i].route.legs) = data.tokenOut
              /\ Len(parts[i].route.legs) = 2 =>
                    parts[i].route.legs[1].tokenOut \in Tokens \ {data.tokenIn, data.tokenOut},
           SumOf([i \in DOMAIN parts |-> parts[i].amountIn]) = data.amountIn
    PROVE  Accepted(PlanOfCall(data))
<1>. DEFINE p == PlanOfCall(data)
            all == p.allocations
<1>1. /\ p.tokenIn = data.tokenIn /\ p.tokenOut = data.tokenOut /\ p.amountIn = data.amountIn
  BY DEF PlanOfCall
<1>2. /\ Len(all) = Len(parts) /\ DOMAIN all = DOMAIN parts /\ IsSeq(all)
      /\ \A i \in DOMAIN parts :
            /\ all[i].venue = venue[i] /\ all[i].amountIn = parts[i].amountIn
            /\ all[i].hops = HopsOf(parts[i].route.legs)
  BY ReadCall
<1>. HIDE DEF p
<1>3. \A i \in DOMAIN parts : HopsAccepted(p, HopsOf(parts[i].route.legs))
  BY <1>1, HopsGood DEF EndOf
<1>4. [i \in DOMAIN all |-> all[i].amountIn] = [i \in DOMAIN parts |-> parts[i].amountIn]
  BY <1>2
<1>5. AmountsAccepted(p)
  BY <1>1, <1>2, <1>4, AmountsGood
<1>6. 1 \in DOMAIN parts /\ (Len(parts) = 2 => 2 \in DOMAIN parts)
  <2>1. PICK S : parts \in Seq(S)
    BY DEF IsSeq
  <2>. QED
    BY <2>1
<1>7. Accepted(p)
  BY <1>1, <1>2, <1>3, <1>5, <1>6 DEF Accepted
<1>. QED
  BY <1>7 DEF p

-----------------------------------------------------------------------------
(* What the terminal accepts is what it displays.                          *)

LEMMA AdmittedPathLegs ==
    ASSUME NEW route, RouteShaped(route), NEW p, NEW id, AdmittedPath(route, p, id)
    PROVE  /\ Len(route.legs) \in {1, 2} /\ DOMAIN route.legs = 1..Len(route.legs)
           /\ route.legs[1].tokenIn = p.tokenIn
           /\ route.legs[Len(route.legs)].tokenOut = p.tokenOut
           /\ \A i \in 1..Len(route.legs) :
                 /\ route.legs[i].value \in Selectors(id)
                 /\ {route.legs[i].tokenIn, route.legs[i].tokenOut} \subseteq Tokens
           /\ Len(route.legs) = 2 => route.legs[1].tokenOut = route.legs[2].tokenIn
<1>1. PICK S : route.legs \in Seq(S)
  BY DEF RouteShaped, IsSeq
<1>2. Len(route.legs) \in {1, 2} /\ DOMAIN route.legs = 1..Len(route.legs)
  BY <1>1 DEF AdmittedPath
<1>. QED
  BY <1>2 DEF AdmittedPath, AllowedLeg, StartOf, EndOf, Chained, Selectors

(* Legs that chain from the displayed input to the displayed output, over  *)
(* tokens and pools of the configuration, and a path along them.           *)
LEMMA LegsDisplayed ==
    ASSUME NEW route, RouteShaped(route), Len(route.legs) \in {1, 2},
           route.legs[1].tokenIn = answer.tokenIn,
           route.legs[Len(route.legs)].tokenOut = answer.tokenOut,
           Len(route.legs) = 2 => route.legs[1].tokenOut = route.legs[2].tokenIn,
           \A i \in 1..Len(route.legs) :
              /\ {route.legs[i].tokenIn, route.legs[i].tokenOut} \subseteq Tokens
              /\ route.legs[i].value \in Selectors(route.deployment),
           NEW path, path.tokens = TokensAlong(route.legs),
           path.selectors = [i \in DOMAIN route.legs |-> route.legs[i].value]
    PROVE  PassesAlong(path, route)
<1>. DEFINE legs == route.legs
<1>1. IsSeq(legs)
  BY DEF RouteShaped
<1>2. PICK S : legs \in Seq(S)
  BY <1>1 DEF IsSeq
<1>3. DOMAIN legs = 1..Len(legs)
  BY <1>2
<1>4. /\ path.selectors = [i \in 1..Len(legs) |-> legs[i].value]
      /\ DOMAIN path.selectors = 1..Len(legs) /\ Len(path.selectors) = Len(legs)
      /\ \A i \in 1..Len(legs) : path.selectors[i] = legs[i].value
  BY <1>3
<1>5. ToSet(path.selectors) \subseteq Selectors(route.deployment)
  BY <1>4 DEF ToSet
<1>6. CASE Len(legs) = 1
  <2>1. path.tokens = <<legs[1].tokenIn, legs[1].tokenOut>>
    BY <1>1, <1>6, AlongOne
  <2>2. /\ Len(path.tokens) = 2 /\ path.tokens[1] = legs[1].tokenIn
        /\ path.tokens[2] = legs[1].tokenOut
        /\ ToSet(path.tokens) = {legs[1].tokenIn, legs[1].tokenOut}
    BY <2>1 DEF ToSet
  <2>. QED
    BY <1>3, <1>4, <1>5, <1>6, <2>2 DEF PassesAlong
<1>7. CASE Len(legs) = 2
  <2>1. path.tokens = <<legs[1].tokenIn, legs[1].tokenOut, legs[2].tokenOut>>
    BY <1>1, <1>7, AlongTwo
  <2>2. /\ Len(path.tokens) = 3 /\ path.tokens[1] = legs[1].tokenIn
        /\ path.tokens[2] = legs[1].tokenOut /\ path.tokens[3] = legs[2].tokenOut
        /\ ToSet(path.tokens) = {legs[1].tokenIn, legs[1].tokenOut, legs[2].tokenOut}
    BY <2>1 DEF ToSet
  <2>. QED
    BY <1>3, <1>4, <1>5, <1>7, <2>2 DEF PassesAlong
<1>. QED
  BY <1>6, <1>7

LEMMA PathDisplayed ==
    ASSUME NEW route, RouteShaped(route), AdmittedPath(route, answer, route.deployment),
           NEW path, path.tokens = TokensAlong(route.legs),
           path.selectors = [i \in DOMAIN route.legs |-> route.legs[i].value]
    PROVE  PassesAlong(path, route)
<1>1. PICK id : id = route.deployment
  OBVIOUS
<1>2. /\ Len(route.legs) \in {1, 2}
      /\ route.legs[1].tokenIn = answer.tokenIn
      /\ route.legs[Len(route.legs)].tokenOut = answer.tokenOut
      /\ Len(route.legs) = 2 => route.legs[1].tokenOut = route.legs[2].tokenIn
      /\ \A i \in 1..Len(route.legs) :
            /\ {route.legs[i].tokenIn, route.legs[i].tokenOut} \subseteq Tokens
            /\ route.legs[i].value \in Selectors(route.deployment)
  BY <1>1, AdmittedPathLegs
<1>. QED
  BY <1>2, LegsDisplayed

LEMMA ThreeApart ==
    ASSUME NEW x, NEW y, NEW z, IsInjective(<<x, y, z>>)
    PROVE  x # y /\ y # z /\ x # z
<1>. DEFINE t == <<x, y, z>>
<1>1. DOMAIN t = 1..3 /\ t[1] = x /\ t[2] = y /\ t[3] = z
  OBVIOUS
<1>2. \A a, b \in DOMAIN t : t[a] = t[b] => a = b
  BY DEF IsInjective
<1>. HIDE DEF t
<1>. QED
  BY <1>1, <1>2

(* A part of the call leads along the legs of the part that is displayed.  *)
LEMMA PartDisplayed ==
    ASSUME NEW data, data.tokenIn = answer.tokenIn,
           NEW parts, NEW venue, CallOf(data, parts, venue), NEW i \in DOMAIN parts,
           RouteShaped(parts[i].route),
           AdmittedPath(parts[i].route, answer, parts[i].route.deployment)
    PROVE  /\ data.allocations[i].amountIn = parts[i].amountIn
           /\ data.allocations[i].venue = venue[i]
           /\ PassesAlong(PathOfPart(data, data.allocations[i]), parts[i].route)
<1>1. PICK route, legs, part :
         route = parts[i].route /\ legs = route.legs /\ part = data.allocations[i]
  OBVIOUS
<1>2. /\ part.venue = venue[i] /\ part.amountIn = parts[i].amountIn
      /\ part.hops = [j \in DOMAIN legs |->
                          [tokenOut |-> legs[j].tokenOut, fee |-> legs[j].value]]
  <2>. DEFINE made(k) == [venue |-> venue[k], amountIn |-> parts[k].amountIn,
                          hops |-> [j \in DOMAIN parts[k].route.legs |->
                             [tokenOut |-> parts[k].route.legs[j].tokenOut,
                              fee |-> parts[k].route.legs[j].value]]]
  <2>1. data.allocations = [k \in DOMAIN parts |-> made(k)]
    BY DEF CallOf
  <2>2. /\ made(i).venue = venue[i] /\ made(i).amountIn = parts[i].amountIn
        /\ made(i).hops = [j \in DOMAIN parts[i].route.legs |->
                             [tokenOut |-> parts[i].route.legs[j].tokenOut,
                              fee |-> parts[i].route.legs[j].value]]
    OBVIOUS
  <2>. HIDE DEF made
  <2>3. data.allocations[i] = made(i)
    BY <2>1
  <2>. QED
    BY <1>1, <2>2, <2>3
<1>3. /\ DOMAIN part.hops = DOMAIN legs
      /\ [j \in DOMAIN part.hops |-> part.hops[j].tokenOut] = [j \in DOMAIN legs |-> legs[j].tokenOut]
      /\ [j \in DOMAIN part.hops |-> part.hops[j].fee] = [j \in DOMAIN legs |-> legs[j].value]
  BY <1>2
<1>4. StartOf(legs) = answer.tokenIn
  BY <1>1 DEF AdmittedPath
<1>5. PICK path : path = PathOfPart(data, part)
  OBVIOUS
<1>6. /\ path.tokens = <<data.tokenIn>> \o [j \in DOMAIN legs |-> legs[j].tokenOut]
      /\ path.selectors = [j \in DOMAIN legs |-> legs[j].value]
  BY <1>3, <1>5 DEF PathOfPart
<1>7. path.tokens = TokensAlong(legs)
  BY <1>4, <1>6 DEF TokensAlong
<1>8. PassesAlong(path, route)
  BY <1>1, <1>6, <1>7, PathDisplayed
<1>. QED
  BY <1>1, <1>2, <1>5, <1>8

LEMMA SplitDisplayed ==
    ASSUME Shaped(answer), AdmittedSplit(answer),
           answer.tokenIn # answer.tokenOut, {answer.tokenIn, answer.tokenOut} \subseteq Tokens,
           NEW tx, tx.to = Executor.address, tx.data = ExpectedExecutorData(answer)
    PROVE  SplitAsDisplayed(tx)
<1>. DEFINE data == ExpectedExecutorData(answer)
            parts == answer.allocations
            venue == [i \in DOMAIN parts |-> IF parts[i].route.provider = "uniswap-v3" THEN 0 ELSE 1]
<1>1. /\ data.tokenIn = answer.tokenIn /\ data.tokenOut = answer.tokenOut
      /\ data.amountIn = answer.amountIn /\ data.call = "executor"
      /\ data.allocations = [i \in DOMAIN parts |->
            [venue |-> IF parts[i].route.provider = "uniswap-v3" THEN 0 ELSE 1,
             amountIn |-> parts[i].amountIn,
             hops |-> [j \in DOMAIN parts[i].route.legs |->
                [tokenOut |-> parts[i].route.legs[j].tokenOut,
                 fee |-> parts[i].route.legs[j].value]]]]
  BY DEF ExpectedExecutorData, ExecutorExecute
<1>2. CallOf(data, parts, venue)
  BY <1>1 DEF CallOf
<1>3. IsSeq(parts) /\ Len(parts) \in {1, 2}
  BY DEF Shaped, AdmittedSplit
<1>4. ASSUME NEW i \in DOMAIN parts
      PROVE  /\ RouteShaped(parts[i].route)
             /\ AdmittedPath(parts[i].route, answer, parts[i].route.deployment)
             /\ parts[i].route.deployment \in Venues3
             /\ parts[i].route.provider = Configured[parts[i].route.deployment].kind
             /\ IsInjective(TokensAlong(parts[i].route.legs))
             /\ parts[i].amountIn \in 1..MaxUint
  BY DEF Shaped, PartShaped, AdmittedSplit, AdmittedPath
<1>5. ASSUME NEW i \in DOMAIN parts
      PROVE  /\ IsSeq(parts[i].route.legs) /\ Len(parts[i].route.legs) \in {1, 2}
             /\ EndOf(parts[i].route.legs) = answer.tokenOut
             /\ Len(parts[i].route.legs) = 2 =>
                   parts[i].route.legs[1].tokenOut \in Tokens \ {answer.tokenIn, answer.tokenOut}
  <2>. DEFINE legs == parts[i].route.legs
  <2>1. IsSeq(legs)
    BY <1>4 DEF RouteShaped
  <2>2. /\ Len(legs) \in {1, 2} /\ legs[1].tokenIn = answer.tokenIn
        /\ legs[Len(legs)].tokenOut = answer.tokenOut
        /\ \A j \in 1..Len(legs) : legs[j].tokenOut \in Tokens
    BY <1>4, AdmittedPathLegs
  <2>3. ASSUME Len(legs) = 2
        PROVE  legs[1].tokenOut \in Tokens \ {answer.tokenIn, answer.tokenOut}
    <3>1. TokensAlong(legs) = <<legs[1].tokenIn, legs[1].tokenOut, legs[2].tokenOut>>
      BY <2>1, <2>3, AlongTwo
    <3>2. IsInjective(TokensAlong(legs))
      BY <1>4
    <3>3. legs[1].tokenOut # legs[1].tokenIn /\ legs[1].tokenOut # legs[2].tokenOut
      BY <3>1, <3>2, ThreeApart
    <3>. QED
      BY <2>2, <2>3, <3>3
  <2>. QED
    BY <2>1, <2>2, <2>3 DEF EndOf
<1>6. ASSUME NEW i \in DOMAIN parts, NEW j \in DOMAIN parts, venue[i] = venue[j]
      PROVE  i = j
  <2>1. parts[i].route.deployment = parts[j].route.deployment
    BY <1>4, <1>6, ConfigurationAssumption DEF ValidConfiguration, Venues3
  <2>. QED
    BY <2>1 DEF AdmittedSplit
<1>7. \A i \in DOMAIN parts : venue[i] \in Venues
  BY DEF Venues
<1>8. SumOf([i \in DOMAIN parts |-> parts[i].amountIn]) = data.amountIn
  BY <1>1 DEF AdmittedSplit
<1>9. ASSUME NEW i \in DOMAIN parts
      PROVE  /\ data.allocations[i].amountIn = parts[i].amountIn
             /\ data.allocations[i].venue = venue[i]
             /\ PassesAlong(PathOfPart(data, data.allocations[i]), parts[i].route)
  BY <1>1, <1>2, <1>4, <1>9, PartDisplayed
<1>10. Len(data.allocations) = Len(parts)
  <2>1. PICK S : parts \in Seq(S)
    BY <1>3 DEF IsSeq
  <2>2. DOMAIN parts = 1..Len(parts) /\ Len(parts) \in Nat
    BY <2>1
  <2>. QED
    BY <1>1, <2>2
<1>11. \A i \in DOMAIN parts : Router(venue[i]) = Configured[parts[i].route.deployment].target
  BY <1>4, ConfigurationAssumption DEF ValidConfiguration, Venues3, Router
<1>. HIDE DEF data, parts, venue
<1>12. /\ data.tokenIn # data.tokenOut /\ {data.tokenIn, data.tokenOut} \subseteq Tokens
      /\ \A i \in DOMAIN parts :
            /\ venue[i] \in Venues /\ parts[i].amountIn \in 1..MaxUint
            /\ IsSeq(parts[i].route.legs) /\ Len(parts[i].route.legs) \in {1, 2}
            /\ EndOf(parts[i].route.legs) = data.tokenOut
            /\ Len(parts[i].route.legs) = 2 =>
                  parts[i].route.legs[1].tokenOut \in Tokens \ {data.tokenIn, data.tokenOut}
  BY <1>1, <1>4, <1>5, <1>7
<1>13. Accepted(PlanOfCall(data))
  BY <1>2, <1>3, <1>6, <1>8, <1>12, CallAccepted
<1>14. tx.data = data /\ parts = answer.allocations
  BY DEF data, parts
<1>15. ASSUME NEW i \in DOMAIN answer.allocations
       PROVE  /\ data.allocations[i].amountIn = answer.allocations[i].amountIn
              /\ Router(data.allocations[i].venue)
                    = Configured[answer.allocations[i].route.deployment].target
              /\ PassesAlong(PathOfPart(data, data.allocations[i]), answer.allocations[i].route)
  BY <1>9, <1>11, <1>14
<1>16. Len(data.allocations) = Len(answer.allocations)
  BY <1>10, <1>14
<1>. QED
  BY <1>1, <1>13, <1>14, <1>15, <1>16 DEF SplitAsDisplayed

(* The swap of a single route, by the kind of its deployment.              *)
SwapOfRoute(tx, id) ==
    /\ Payment(tx) = [payee |-> Sender, amountIn |-> answer.amountIn,
                      minimum |-> answer.minimum, deadline |-> answer.deadline]
    /\ Consistent(tx.data)
    /\ tx.data.call # "executor"
    /\ tx.to = Configured[id].target
    /\ PassesAlong(Through(tx.data), answer.route)

LEMMA PathSwap ==
    ASSUME answer.route # None, RouteShaped(answer.route), NEW id, id = answer.route.deployment,
           Configured[id].kind \in PathKinds, AdmittedPath(answer.route, answer, id),
           answer.recipient = Sender,
           NEW tx, tx.to = Configured[id].target, tx.data = RouteData(answer)
    PROVE  SwapOfRoute(tx, id)
<1>1. PassesAlong(PackedPath(answer.route.legs), answer.route)
  BY PathDisplayed DEF PackedPath
<1>2. CASE Configured[id].kind = "uniswap-v3"
  <2>1. tx.data = Multicall(answer.deadline, ExactInput(PackedPath(answer.route.legs),
                      answer.recipient, answer.amountIn, answer.minimum))
    BY <1>2 DEF RouteData, UniswapData
  <2>2. /\ tx.data.call = "multicall" /\ Through(tx.data) = PackedPath(answer.route.legs)
        /\ Payment(tx) = [payee |-> Sender, amountIn |-> answer.amountIn,
                          minimum |-> answer.minimum, deadline |-> answer.deadline]
    BY <2>1 DEF Multicall, ExactInput, Through, Payment
  <2>. QED
    BY <1>1, <2>2 DEF SwapOfRoute, Consistent
<1>3. CASE Configured[id].kind \in {"pancake-v3", "aerodrome-slipstream"}
  <2>1. tx.data = ExactInputUntil(PackedPath(answer.route.legs), answer.recipient,
                      answer.deadline, answer.amountIn, answer.minimum)
    BY <1>3 DEF RouteData, ExactInputData
  <2>2. /\ tx.data.call = "exactInputUntil" /\ tx.data.path = PackedPath(answer.route.legs)
        /\ tx.data.recipient = Sender /\ tx.data.amountIn = answer.amountIn
        /\ tx.data.minimum = answer.minimum /\ tx.data.deadline = answer.deadline
    BY <2>1 DEF ExactInputUntil
  <2>3. Through(tx.data) = PackedPath(answer.route.legs)
    BY <2>2 DEF Through
  <2>4. Payment(tx) = [payee |-> Sender, amountIn |-> answer.amountIn,
                       minimum |-> answer.minimum, deadline |-> answer.deadline]
    BY <2>2 DEF Payment
  <2>. QED
    BY <1>1, <2>2, <2>3, <2>4 DEF SwapOfRoute, Consistent
<1>. QED
  BY <1>2, <1>3 DEF PathKinds, FeeKinds

(* A route of one leg, and a path of two tokens and its pool.              *)
LEMMA OneLegDisplayed ==
    ASSUME NEW route, RouteShaped(route), Len(route.legs) = 1,
           NEW leg, leg = route.legs[1],
           leg.tokenIn = answer.tokenIn, leg.tokenOut = answer.tokenOut,
           {leg.tokenIn, leg.tokenOut} \subseteq Tokens, leg.value \in Selectors(route.deployment),
           NEW path, path.tokens = <<leg.tokenIn, leg.tokenOut>>, path.selectors = <<leg.value>>
    PROVE  PassesAlong(path, route)
<1>1. IsSeq(route.legs)
  BY DEF RouteShaped
<1>2. PICK S : route.legs \in Seq(S)
  BY <1>1 DEF IsSeq
<1>3. path.tokens = TokensAlong(route.legs)
  BY <1>1, AlongOne
<1>4. path.selectors = [i \in DOMAIN route.legs |-> route.legs[i].value]
  BY <1>2
<1>. QED
  BY <1>3, <1>4, LegsDisplayed

LEMMA PoolSwap ==
    ASSUME answer.route # None, RouteShaped(answer.route), NEW id, id = answer.route.deployment,
           Configured[id].kind = "balancer-v2", AdmittedPool(answer, id),
           answer.recipient = Sender,
           NEW tx, tx.to = Configured[id].target, tx.data = RouteData(answer)
    PROVE  SwapOfRoute(tx, id)
<1>. DEFINE leg == answer.route.legs[1]
<1>1. /\ leg.tokenIn = answer.tokenIn /\ leg.tokenOut = answer.tokenOut
      /\ {leg.tokenIn, leg.tokenOut} \subseteq Tokens /\ leg.value \in Selectors(id)
  BY DEF AdmittedPool, AllowedLeg, Selectors
<1>2. tx.data = VaultSwap(leg.value, leg.tokenIn, leg.tokenOut, answer.amountIn,
                  answer.recipient, answer.recipient, answer.minimum, answer.deadline)
  BY DEF RouteData, VaultData, PathKinds
<1>. HIDE DEF leg
<1>3. /\ tx.data.call = "swap"
      /\ Through(tx.data) = [tokens |-> <<leg.tokenIn, leg.tokenOut>>, selectors |-> <<leg.value>>]
      /\ Payment(tx) = [payee |-> Sender, amountIn |-> answer.amountIn,
                        minimum |-> answer.minimum, deadline |-> answer.deadline]
  BY <1>2 DEF VaultSwap, Through, Payment
<1>4. /\ Through(tx.data).tokens = <<leg.tokenIn, leg.tokenOut>>
      /\ Through(tx.data).selectors = <<leg.value>>
  BY <1>3
<1>5. Len(answer.route.legs) = 1 /\ leg = answer.route.legs[1]
  BY DEF AdmittedPool, leg
<1>6. PassesAlong(Through(tx.data), answer.route)
  BY <1>1, <1>4, <1>5, OneLegDisplayed
<1>. QED
  BY <1>3, <1>6 DEF SwapOfRoute, Consistent

LEMMA KeySwap ==
    ASSUME answer.route # None, RouteShaped(answer.route),
           NEW id \in DOMAIN Configured, id = answer.route.deployment,
           Configured[id].kind = "uniswap-v4", AdmittedKey(answer, id),
           answer.tokenIn # answer.tokenOut,
           NEW tx, tx.from = Sender, tx.to = Configured[id].target, tx.data = RouteData(answer)
    PROVE  SwapOfRoute(tx, id)
<1>. DEFINE leg == answer.route.legs[1]
            pool == leg.value
            first == answer.tokenIn = Currency0(pool)
            out == IF first THEN Currency1(pool) ELSE Currency0(pool)
<1>1. /\ pool \in Selectors(id) /\ {answer.tokenIn, answer.tokenOut} = Currencies(pool)
  BY DEF AdmittedKey, Selectors
<1>2. Currencies(pool) \subseteq Tokens
  BY <1>1, ConfigurationAssumption DEF ValidConfiguration, Selectors
<1>3. tx.data = RouterExecute(pool, first, answer.amountIn, answer.minimum, answer.tokenIn,
                  answer.amountIn, out, answer.minimum, answer.deadline)
  BY DEF RouteData, UniswapV4Data, PathKinds
<1>4. out = answer.tokenOut /\ (~first => answer.tokenIn = Currency1(pool))
  BY <1>1 DEF Currencies
<1>5. /\ tx.data.call = "execute" /\ tx.data.key = pool /\ tx.data.zeroForOne = first
      /\ tx.data.settled = answer.tokenIn /\ tx.data.settledMost = answer.amountIn
      /\ tx.data.amountIn = answer.amountIn /\ tx.data.minimum = answer.minimum
      /\ tx.data.taken = out /\ tx.data.takenLeast = answer.minimum
      /\ tx.data.deadline = answer.deadline
  BY <1>3 DEF RouterExecute
<1>6. Through(tx.data) = [tokens |-> IF tx.data.zeroForOne THEN <<Currency0(pool), Currency1(pool)>>
                                     ELSE <<Currency1(pool), Currency0(pool)>>,
                          selectors |-> <<pool>>]
  BY <1>5 DEF Through
<1>7. /\ Through(tx.data).tokens = <<answer.tokenIn, answer.tokenOut>>
      /\ Through(tx.data).selectors = <<pool>>
  <2>1. /\ Through(tx.data).tokens =
              IF tx.data.zeroForOne THEN <<Currency0(pool), Currency1(pool)>>
              ELSE <<Currency1(pool), Currency0(pool)>>
        /\ Through(tx.data).selectors = <<pool>>
    BY <1>6
  <2>2. CASE first
    <3>1. tx.data.zeroForOne /\ answer.tokenIn = Currency0(pool) /\ answer.tokenOut = Currency1(pool)
      BY <1>4, <1>5, <2>2
    <3>. QED
      BY <2>1, <3>1
  <2>3. CASE ~first
    <3>1. ~tx.data.zeroForOne /\ answer.tokenIn = Currency1(pool)
          /\ answer.tokenOut = Currency0(pool)
      BY <1>4, <1>5, <2>3
    <3>. QED
      BY <2>1, <3>1
  <2>. QED
    BY <2>2, <2>3
<1>8. Payment(tx) = [payee |-> Sender, amountIn |-> answer.amountIn,
                     minimum |-> answer.minimum, deadline |-> answer.deadline]
  BY <1>5 DEF Payment
<1>9. /\ Len(answer.route.legs) = 1 /\ leg = answer.route.legs[1] /\ leg.value = pool
      /\ leg.tokenIn = answer.tokenIn /\ leg.tokenOut = answer.tokenOut
  BY DEF AdmittedKey
<1>. HIDE DEF leg, pool, out, first
<1>10. PassesAlong(Through(tx.data), answer.route)
  BY <1>1, <1>2, <1>7, <1>9, OneLegDisplayed
<1>11. Consistent(tx.data)
  BY <1>4, <1>5, <1>7 DEF Consistent
<1>. QED
  BY <1>5, <1>8, <1>10, <1>11 DEF SwapOfRoute

LEMMA SwapDisplayed ==
    ASSUME Shaped(answer), NEW slippage, Accepts(answer, slippage), answer.status = "READY"
    PROVE  SwapAsDisplayed(answer.transaction)
<1>. DEFINE tx == answer.transaction
<1>1. /\ tx.from = Sender /\ answer.recipient = Sender
      /\ answer.tokenIn # answer.tokenOut /\ {answer.tokenIn, answer.tokenOut} \subseteq Tokens
  BY DEF Accepts, WellFormed, TransactionOf, Signer
<1>2. tx.to = Terms(answer).target /\ tx.data = Terms(answer).data
  BY DEF Accepts, SwapExact
<1>3. Admits(answer)
  BY DEF Accepts
<1>. HIDE DEF tx
<1>4. CASE answer.route = None
  <2>1. tx.to = Executor.address /\ tx.data = ExpectedExecutorData(answer)
    BY <1>2, <1>4 DEF Terms
  <2>2. SplitAsDisplayed(tx)
    BY <1>1, <1>3, <1>4, <2>1, SplitDisplayed DEF Admits
  <2>3. /\ tx.data.call = "executor" /\ tx.data.amountIn = answer.amountIn
        /\ tx.data.minimum = answer.minimum /\ tx.data.deadline = answer.deadline
    BY <2>1 DEF ExpectedExecutorData, ExecutorExecute
  <2>4. Payment(tx) = [payee |-> Sender, amountIn |-> answer.amountIn,
                       minimum |-> answer.minimum, deadline |-> answer.deadline]
    BY <1>1, <2>3 DEF Payment
  <2>. QED
    BY <1>4, <2>2, <2>3, <2>4 DEF SwapAsDisplayed, Consistent, tx
<1>5. CASE answer.route # None
  <2>. DEFINE id == answer.route.deployment
  <2>1. AdmittedRoute(answer) /\ id \in DOMAIN Configured
    BY <1>3, <1>5 DEF Admits, AdmittedRoute
  <2>. RouteShaped(answer.route)
    BY <1>5 DEF Shaped
  <2>2. tx.to = Configured[id].target /\ tx.data = RouteData(answer)
    BY <1>2, <1>5 DEF Terms
  <2>3. SwapOfRoute(tx, id)
    <3>1. CASE Configured[id].kind \in PathKinds
      <4>1. AdmittedPath(answer.route, answer, id) /\ RouteShaped(answer.route)
        BY <1>5, <2>1, <3>1 DEF AdmittedRoute, PathKinds, FeeKinds, Shaped
      <4>. QED
        BY <1>1, <1>5, <2>2, <3>1, <4>1, PathSwap
    <3>2. CASE Configured[id].kind = "balancer-v2"
      <4>1. AdmittedPool(answer, id)
        BY <2>1, <3>2 DEF AdmittedRoute, PathKinds, FeeKinds
      <4>. QED
        BY <1>1, <1>5, <2>2, <3>2, <4>1, PoolSwap
    <3>3. CASE Configured[id].kind = "uniswap-v4"
      <4>1. AdmittedKey(answer, id)
        BY <2>1, <3>3 DEF AdmittedRoute, PathKinds, FeeKinds
      <4>. QED
        BY <1>1, <1>5, <2>1, <2>2, <3>3, <4>1, KeySwap
    <3>. QED
      BY <2>1, <3>1, <3>2, <3>3, ConfigurationAssumption DEF ValidConfiguration
  <2>4. SwapAsDisplayed(tx)
    BY <1>5, <2>1, <2>3 DEF SwapOfRoute, SwapAsDisplayed, RouteAsDisplayed
  <2>. QED
    BY <2>4 DEF tx
<1>. QED
  BY <1>4, <1>5

LEMMA ApprovalDisplayed ==
    ASSUME NEW slippage, Accepts(answer, slippage), answer.status # "READY"
    PROVE  ApprovalAsDisplayed(TransactionOf(answer))
<1>. DEFINE tx == TransactionOf(answer)
            id == answer.route.deployment
<1>1. answer.route # None => id \in DOMAIN Configured
  BY DEF Accepts, Admits, AdmittedRoute
<1>2. CASE answer.permission # None
  <2>1. PermissionExact(answer) /\ tx = answer.permission.transaction
    BY <1>2 DEF Accepts, TransactionOf
  <2>2. /\ answer.route # None
        /\ Terms(answer).permission =
              [target |-> Configured[id].spender, spender |-> Configured[id].target]
        /\ Terms(answer).target = Configured[id].target
    BY <2>1 DEF PermissionExact, Terms
  <2>3. /\ tx.to = Configured[id].spender
        /\ tx.data = PermitApprove(answer.tokenIn, Configured[id].target, answer.amountIn,
                                   answer.deadline + 1800)
    BY <2>1, <2>2 DEF PermissionExact
  <2>. HIDE DEF tx
  <2>4. /\ tx.data.call = "permit2Approve" /\ tx.data.token = answer.tokenIn
        /\ tx.data.spender = Configured[id].target /\ tx.data.amount = answer.amountIn
        /\ tx.data.expiration = answer.deadline + 1800
    BY <2>3 DEF PermitApprove
  <2>5. answer.deadline + 1800 <= MaxUint48
    BY <2>1 DEF PermissionExact
  <2>6. ApprovalAsDisplayed(tx)
    BY <1>1, <2>2, <2>3, <2>4, <2>5 DEF ApprovalAsDisplayed, Spender, Target
  <2>. QED
    BY <2>6 DEF tx
<1>3. CASE answer.permission = None
  <2>1. ApprovalExact(answer) /\ tx = answer.approval
    BY <1>3 DEF Accepts, TransactionOf
  <2>2. Terms(answer).spender = Spender(answer)
    BY DEF Terms, Spender
  <2>3. tx.to = answer.tokenIn /\ tx.data = Approve(Terms(answer).spender, answer.amountIn)
    BY <2>1 DEF ApprovalExact
  <2>. HIDE DEF tx
  <2>4. /\ tx.data.call = "approve" /\ tx.data.spender = Terms(answer).spender
        /\ tx.data.amount = answer.amountIn
    BY <2>3 DEF Approve
  <2>5. ApprovalAsDisplayed(tx)
    BY <1>1, <2>2, <2>3, <2>4 DEF ApprovalAsDisplayed
  <2>. QED
    BY <2>5 DEF tx
<1>. QED
  BY <1>2, <1>3

-----------------------------------------------------------------------------
(* The routes a provider returns.                                          *)

LEMMA RouteForm ==
    ASSUME NEW route \in AllRoutes
    PROVE  /\ route # None
           /\ {"provider", "deployment", "legs", "out", "block"} \subseteq DOMAIN route
           /\ route.deployment \in DOMAIN Configured
           /\ route.provider = Kind(route.deployment)
           /\ route.legs \in Candidates(route.deployment)
           /\ route.out \in 1..MaxUint /\ route.block = "quoted"
<1>1. PICK id \in DOMAIN Configured :
        route \in {Route(id, legs, out) : legs \in Candidates(id), out \in Outputs \ {0}}
  BY DEF AllRoutes
<1>2. PICK legs \in Candidates(id), out \in Outputs \ {0} : route = Route(id, legs, out)
  BY <1>1
<1>3. out \in 1..MaxUint
  BY QuotesAssumption DEF Uint
<1>. QED
  BY <1>2, <1>3, NoneAssumption DEF Route

(* Whoever searched, the legs lead from the input to the output token over *)
(* configured pools, and only a path passes through a third token.         *)
LEMMA LegsForm ==
    ASSUME NEW id \in DOMAIN Configured, NEW legs \in Candidates(id)
    PROVE  /\ IsSeq(legs) /\ Len(legs) \in {1, 2} /\ DOMAIN legs = 1..Len(legs)
           /\ legs[1].tokenIn = TokenIn /\ legs[Len(legs)].tokenOut = TokenOut
           /\ \A i \in 1..Len(legs) :
                 /\ legs[i].case = SelectorCase(Kind(id)) /\ legs[i].value \in Selectors(id)
                 /\ {legs[i].tokenIn, legs[i].tokenOut} \subseteq Tokens
           /\ Len(legs) = 2 =>
                 /\ Kind(id) \in PathKinds
                 /\ legs[1].tokenOut = legs[2].tokenIn
                 /\ legs[1].tokenOut \in Tokens \ {TokenIn, TokenOut}
           /\ Kind(id) = "uniswap-v4" => {TokenIn, TokenOut} = Currencies(legs[1].value)
<1>0. TokenIn # TokenOut /\ {TokenIn, TokenOut} \subseteq Tokens
  BY ConfigurationAssumption
<1>. DEFINE case == SelectorCase(Kind(id))
<1>1. \/ \E s \in Selectors(id) :
            /\ legs = <<Leg(TokenIn, TokenOut, case, s)>>
            /\ Kind(id) = "uniswap-v4" => {TokenIn, TokenOut} = Currencies(s)
      \/ /\ Kind(id) \in PathKinds
         /\ \E m \in Tokens \ {TokenIn, TokenOut}, s \in Selectors(id), t \in Selectors(id) :
               legs = <<Leg(TokenIn, m, case, s), Leg(m, TokenOut, case, t)>>
  <2>1. CASE Kind(id) \in PathKinds
    BY <2>1 DEF Candidates, Paths, PathKinds, FeeKinds
  <2>2. CASE Kind(id) = "balancer-v2"
    BY <2>2 DEF Candidates, BalancerPools, PathKinds, FeeKinds, SelectorCase
  <2>3. CASE Kind(id) = "uniswap-v4"
    BY <2>3 DEF Candidates, V4Pools, PathKinds, FeeKinds, SelectorCase
  <2>. QED
    BY <2>1, <2>2, <2>3, ConfigurationAssumption DEF ValidConfiguration, Kind
<1>. HIDE DEF case
<1>2. ASSUME NEW s \in Selectors(id), legs = <<Leg(TokenIn, TokenOut, case, s)>>,
             Kind(id) = "uniswap-v4" => {TokenIn, TokenOut} = Currencies(s)
      PROVE  /\ IsSeq(legs) /\ Len(legs) = 1 /\ DOMAIN legs = 1..1
             /\ legs[1].tokenIn = TokenIn /\ legs[1].tokenOut = TokenOut
             /\ legs[1].case = case /\ legs[1].value = s
  <2>1. legs \in Seq({Leg(TokenIn, TokenOut, case, s)})
    BY <1>2
  <2>2. IsSeq(legs)
    BY <2>1 DEF IsSeq
  <2>. QED
    BY <1>2, <2>2 DEF Leg
<1>3. ASSUME NEW m, NEW s \in Selectors(id), NEW t \in Selectors(id),
             legs = <<Leg(TokenIn, m, case, s), Leg(m, TokenOut, case, t)>>
      PROVE  /\ IsSeq(legs) /\ Len(legs) = 2 /\ DOMAIN legs = 1..2
             /\ legs[1].tokenIn = TokenIn /\ legs[1].tokenOut = m
             /\ legs[2].tokenIn = m /\ legs[2].tokenOut = TokenOut
             /\ legs[1].case = case /\ legs[2].case = case
             /\ legs[1].value = s /\ legs[2].value = t
  <2>1. legs \in Seq({Leg(TokenIn, m, case, s), Leg(m, TokenOut, case, t)})
    BY <1>3
  <2>2. IsSeq(legs)
    BY <2>1 DEF IsSeq
  <2>. QED
    BY <1>3, <2>2 DEF Leg
<1>4. CASE \E s \in Selectors(id) :
             /\ legs = <<Leg(TokenIn, TokenOut, case, s)>>
             /\ Kind(id) = "uniswap-v4" => {TokenIn, TokenOut} = Currencies(s)
  BY <1>0, <1>2, <1>4 DEF case
<1>5. CASE /\ Kind(id) \in PathKinds
           /\ \E m \in Tokens \ {TokenIn, TokenOut}, s \in Selectors(id), t \in Selectors(id) :
                 legs = <<Leg(TokenIn, m, case, s), Leg(m, TokenOut, case, t)>>
  <2>1. PICK m \in Tokens \ {TokenIn, TokenOut}, s \in Selectors(id), t \in Selectors(id) :
          legs = <<Leg(TokenIn, m, case, s), Leg(m, TokenOut, case, t)>>
    BY <1>5
  <2>2. /\ IsSeq(legs) /\ Len(legs) = 2 /\ DOMAIN legs = 1..2
        /\ legs[1].tokenIn = TokenIn /\ legs[1].tokenOut = m
        /\ legs[2].tokenIn = m /\ legs[2].tokenOut = TokenOut
        /\ legs[1].case = case /\ legs[2].case = case
        /\ legs[1].value = s /\ legs[2].value = t
    BY <1>3, <2>1
  <2>3. \A i \in 1..2 : i = 1 \/ i = 2
    OBVIOUS
  <2>4. Kind(id) # "uniswap-v4"
    BY <1>5 DEF PathKinds, FeeKinds
  <2>. QED
    BY <1>0, <1>5, <2>2, <2>3, <2>4 DEF case
<1>. QED
  BY <1>1, <1>4, <1>5

LEMMA AllRoutesShaped == ASSUME NEW route \in AllRoutes PROVE RouteShaped(route)
BY RouteForm, LegsForm DEF RouteShaped

-----------------------------------------------------------------------------
(* A trade from the request to the review.  Until somebody alters it the   *)
(* answer is one the engine built from the request, simulated when it is a *)
(* swap; whatever it is then, it is reviewed as it stands.                 *)

EngineAnswered ==
    LET p == Frozen IN
    /\ Selected /\ Buildable(p)
    /\ \/ answer = AskForApproval(p)
       \/ NeedsPermission(p) /\ answer = AskForPermission(p)
       \/ answer = Offer(p) /\ effect \in Effects(p) /\ Simulates(p, effect)

Answering == {"answered", "reviewed"}

TradeInv ==
    /\ step \in {"asked"} \cup Answering => request \in RequestsOver(AllRoutes)
    /\ step \in Answering => Shaped(answer)
    /\ (step \in Answering /\ ~altered) => EngineAnswered
    /\ step = "reviewed" =>
          review = IF Accepts(answer, request.bps) THEN PlanFor(answer) ELSE None

LEMMA MoreRoutes ==
    ASSUME NEW found, NEW more, found \subseteq more
    PROVE  RequestsOver(found) \subseteq RequestsOver(more)
<1>. DEFINE Part(from) == [route : {r \in from : Venue(r) # None}, amountIn : Allotments]
<1>1. Part(found) \subseteq Part(more)
  OBVIOUS
<1>2. SplitsOver(found) \subseteq SplitsOver(more)
  <2>1. ASSUME NEW x \in BoundedSeq(Part(found), 2) PROVE x \in BoundedSeq(Part(more), 2)
    <3>. HIDE DEF Part
    <3>1. x \in UNION {[1..k -> Part(found)] : k \in 0..2}
      BY DEF BoundedSeq, SeqOf
    <3>2. PICK k \in 0..2 : x \in [1..k -> Part(found)]
      BY <3>1
    <3>3. x \in [1..k -> Part(more)]
      BY <1>1, <3>2
    <3>. QED
      BY <3>3 DEF BoundedSeq, SeqOf
  <2>. QED
    BY <2>1 DEF SplitsOver
<1>. QED
  BY <1>2 DEF RequestsOver

LEMMA FrozenShaped ==
    ASSUME NEW r \in RequestsOver(AllRoutes)
    PROVE  EngineShaped(FrozenFor(r))
<1>. DEFINE p == FrozenFor(r)
<1>1. /\ {"route", "allocations"} \subseteq DOMAIN p
      /\ p.route = r.route /\ p.allocations = r.allocations
  BY DEF FrozenFor
<1>. HIDE DEF p
<1>2. CASE r.route \in AllRoutes /\ r.allocations = <<>>
  <2>1. r.route # None /\ RouteShaped(r.route)
    BY <1>2, RouteForm, AllRoutesShaped
  <2>2. IsSeq(r.allocations) /\ DOMAIN r.allocations = {}
    <3>1. <<>> \in Seq({}) /\ DOMAIN <<>> = {}
      BY EmptySeq
    <3>. QED
      BY <1>2, <3>1 DEF IsSeq
  <2>3. EngineShaped(p)
    BY <1>1, <2>1, <2>2 DEF EngineShaped, Shaped
  <2>. QED
    BY <2>3 DEF p
<1>3. CASE r.route = None /\ r.allocations \in SplitsOver(AllRoutes)
  <2>1. /\ IsSeq(r.allocations) /\ Len(r.allocations) \in {1, 2}
        /\ \A i \in DOMAIN r.allocations :
              "route" \in DOMAIN r.allocations[i] /\ r.allocations[i].route \in AllRoutes
    BY <1>3, SplitParts DEF IsSeq
  <2>2. r.allocations # <<>>
    BY <2>1, EmptySeq
  <2>3. EngineShaped(p)
    BY <1>1, <1>3, <2>1, <2>2, AllRoutesShaped DEF EngineShaped, Shaped, PartShaped
  <2>. QED
    BY <2>3 DEF p
<1>. QED
  BY <1>2, <1>3, RequestCases

LEMMA EngineValuesShaped ==
    ASSUME NEW p, EngineShaped(p), {"route", "allocations"} \subseteq DOMAIN p,
           NEW a \in {AskForApproval(p), AskForPermission(p), Offer(p)}
    PROVE  EngineShaped(a)
<1>1. /\ {"route", "allocations"} \subseteq DOMAIN Offer(p)
      /\ Offer(p).route = p.route /\ Offer(p).allocations = p.allocations
      /\ {"route", "allocations"} \subseteq DOMAIN AskForApproval(p)
      /\ AskForApproval(p).route = p.route /\ AskForApproval(p).allocations = p.allocations
      /\ {"route", "allocations"} \subseteq DOMAIN AskForPermission(p)
      /\ AskForPermission(p).route = p.route
      /\ AskForPermission(p).allocations = p.allocations
  BY DEF Offer, AskForApproval, AskForPermission
<1>2. /\ {"route", "allocations"} \subseteq DOMAIN a
      /\ a.route = p.route /\ a.allocations = p.allocations
  BY <1>1
<1>3. Shaped(a)
  BY <1>2, SameShaped DEF EngineShaped
<1>. QED
  BY <1>2, <1>3 DEF EngineShaped

LEMMA TradeStep == TradeInv /\ [Next]_vars => TradeInv'
<1>. SUFFICES ASSUME TradeInv, [Next]_vars PROVE TradeInv'
  OBVIOUS
<1>1. CASE VerifyDeployments
  BY <1>1 DEF VerifyDeployments, TradeInv, Answering
<1>2. CASE Ask
  <2>1. request' \in RequestsOver(QuotedRoutes) /\ step' = "asked"
    BY <1>2 DEF Ask
  <2>2. QuotedRoutes \subseteq AllRoutes
    BY DEF QuotedRoutes
  <2>3. request' \in RequestsOver(AllRoutes)
    BY <2>1, <2>2, MoreRoutes
  <2>. QED
    BY <2>1, <2>3 DEF TradeInv, Answering
<1>3. CASE Drift
  BY <1>3 DEF Drift, TradeInv, Answering
<1>4. CASE Prepare
  <2>0. step = "asked" /\ UNCHANGED <<request, simulator, altered>>
    BY <1>4 DEF Prepare
  <2>1. request \in RequestsOver(AllRoutes) /\ Frozen' = Frozen
    BY <2>0 DEF TradeInv, Frozen
  <2>2. step' \in {"rejected", "answered"}
    BY <1>4 DEF Prepare
  <2>3. ASSUME step' = "answered" PROVE EngineAnswered' /\ Shaped(answer)'
    <3>. DEFINE p == Frozen
    <3>1. Selected /\ Buildable(p)
      BY <1>4, <2>3 DEF Prepare
    <3>2. \/ answer' = AskForApproval(p)
          \/ NeedsPermission(p) /\ answer' = AskForPermission(p)
          \/ answer' = Offer(p) /\ effect' \in Effects(p) /\ Simulates(p, effect')
      BY <1>4, <2>3 DEF Prepare
    <3>. HIDE DEF p
    <3>3. Selected' <=> Selected
      BY <2>0 DEF Selected
    <3>4. \A e : Simulates(p, e)' <=> Simulates(p, e)
      BY <2>0, <2>1 DEF Simulates, p
    <3>5. EngineAnswered'
      <4>1. p' = p
        BY <2>1 DEF p
      <4>2. Simulates(Frozen, effect)' <=> Simulates(p, effect')
        BY <2>0, <2>1 DEF Simulates, p
      <4>. QED
        BY <2>1, <3>1, <3>2, <3>3, <4>2 DEF EngineAnswered, p
    <3>6. answer' \in {AskForApproval(p), AskForPermission(p), Offer(p)}
      BY <3>2
    <3>7. \A a \in {AskForApproval(p), AskForPermission(p), Offer(p)} : EngineShaped(a)
      <4>1. EngineShaped(p) /\ {"route", "allocations"} \subseteq DOMAIN p
        BY <2>1, FrozenShaped DEF p, Frozen, EngineShaped, Shaped
      <4>. QED
        BY <4>1, EngineValuesShaped
    <3>. QED
      BY <3>5, <3>6, <3>7 DEF EngineShaped
  <2>. QED
    BY <2>0, <2>1, <2>2, <2>3 DEF TradeInv, Answering
<1>5. CASE Alter
  <2>1. /\ step = "answered" /\ ~altered /\ altered' = TRUE /\ UNCHANGED <<step, request>>
        /\ answer' \in Alterations(answer)
    BY <1>5 DEF Alter
  <2>2. EngineAnswered /\ request \in RequestsOver(AllRoutes)
    BY <2>1 DEF TradeInv, Answering
  <2>3. EngineShaped(answer)
    <3>1. EngineShaped(Frozen) /\ {"route", "allocations"} \subseteq DOMAIN Frozen
      BY <2>2, FrozenShaped DEF Frozen, EngineShaped, Shaped
    <3>. QED
      BY <2>2, <3>1, EngineValuesShaped DEF EngineAnswered
  <2>4. Shaped(answer')
    BY <2>1, <2>3, AlterationsShaped
  <2>. QED
    BY <2>1, <2>2, <2>4 DEF TradeInv, Answering
<1>6. CASE Review
  <2>1. /\ step = "answered" /\ step' = "reviewed"
        /\ UNCHANGED <<simulator, request, effect, answer, altered>>
        /\ review' = IF Accepts(answer, request.bps) THEN PlanFor(answer) ELSE None
    BY <1>6 DEF Review
  <2>2. EngineAnswered' <=> EngineAnswered
    BY <2>1 DEF EngineAnswered, Frozen, Selected, Simulates
  <2>. QED
    BY <2>1, <2>2 DEF TradeInv, Answering
<1>7. CASE UNCHANGED vars
  BY <1>7 DEF vars, TradeInv, EngineAnswered, Frozen, Selected, Simulates
<1>. QED
  BY <1>1, <1>2, <1>3, <1>4, <1>5, <1>6, <1>7 DEF Next

LEMMA TradeInvariant == Spec => []TradeInv
<1>1. Init => TradeInv
  BY DEF Init, TradeInv, Answering
<1>. QED
  BY <1>1, TradeStep, PTL DEF Spec

(* Whatever arrived as the engine's answer, the transaction the wallet     *)
(* signs says what was displayed: execution-policy.ts builds every call it *)
(* admits anew from the displayed terms.                                   *)
THEOREM SignedAsDisplayed == Spec => []SignedIsAsDisplayed
<1>1. TradeInv => SignedIsAsDisplayed
  <2>. SUFFICES ASSUME TradeInv, step = "reviewed", review # None
                PROVE  LET tx == review.transaction IN
                       /\ tx.from = Sender /\ tx.chain = Chain /\ tx.value = 0
                       /\ IF review.action = "swap" THEN SwapAsDisplayed(tx)
                          ELSE ApprovalAsDisplayed(tx)
    BY DEF SignedIsAsDisplayed
  <2>1. /\ Accepts(answer, request.bps) /\ review = PlanFor(answer) /\ Shaped(answer)
    BY DEF TradeInv, Answering
  <2>2. /\ review.transaction = TransactionOf(answer)
        /\ review.action = IF answer.status = "READY" THEN "swap" ELSE "approval"
    BY <2>1 DEF PlanFor
  <2>3. /\ TransactionOf(answer).from = Sender /\ TransactionOf(answer).chain = Chain
        /\ TransactionOf(answer).value = 0
    BY <2>1 DEF Accepts, WellFormed, Signer
  <2>4. CASE answer.status = "READY"
    BY <2>1, <2>2, <2>3, <2>4, SwapDisplayed DEF TransactionOf
  <2>5. CASE answer.status # "READY"
    BY <2>1, <2>2, <2>3, <2>5, ApprovalDisplayed
  <2>. QED
    BY <2>4, <2>5
<1>. QED
  BY <1>1, TradeInvariant, PTL

-----------------------------------------------------------------------------
(* The terminal accepts what the engine answers.                           *)

LEMMA MinimumBound ==
    ASSUME NEW output \in Nat, NEW bps \in SlippageBps
    PROVE  Minimum(output, bps) \in 0..output
<1>. DEFINE kept == 10000 - bps
            product == output * kept
<1>1. kept \in Nat /\ 10000 - kept \in Nat
  BY QuotesAssumption
<1>2. product \in Nat /\ product <= output * 10000
  <2>1. output * (10000 - kept) \in Nat
    BY <1>1
  <2>2. output * (10000 - kept) = output * 10000 - output * kept
    BY <1>1
  <2>3. output * kept \in Nat
    BY <1>1
  <2>. HIDE DEF kept
  <2>. QED
    BY <2>1, <2>2, <2>3
<1>. HIDE DEF product
<1>3. product \div 10000 \in 0..output
  BY <1>2
<1>. QED
  BY <1>3 DEF Minimum, product

(* The terms of an answer are those of the request, whatever else the      *)
(* engine puts into it.                                                    *)
TermsOf(a, r) ==
    /\ {"route", "allocations"} \subseteq DOMAIN a
    /\ a.route = r.route /\ a.allocations = r.allocations
    /\ a.tokenIn = TokenIn /\ a.tokenOut = TokenOut /\ a.amountIn = AmountIn
    /\ a.minimum = Minimum(r.output, r.bps) /\ a.deadline = Deadline /\ a.recipient = Sender

LEMMA FrozenTerms ==
    ASSUME NEW r
    PROVE  /\ TermsOf(FrozenFor(r), r)
           /\ FrozenFor(r).transaction = None /\ FrozenFor(r).approvalSpender = None
           /\ FrozenFor(r).approval = None /\ FrozenFor(r).permission = None
BY DEF FrozenFor, TermsOf

LEMMA OfferTerms ==
    ASSUME NEW r
    PROVE  LET a == Offer(FrozenFor(r)) IN
           /\ TermsOf(a, r) /\ a.status = "READY"
           /\ a.transaction = SwapTransaction(FrozenFor(r))
           /\ a.approvalSpender = None /\ a.approval = None /\ a.permission = None
BY DEF FrozenFor, TermsOf, Offer

LEMMA ApprovalTerms ==
    ASSUME NEW r
    PROVE  LET a == AskForApproval(FrozenFor(r)) IN
           /\ TermsOf(a, r) /\ a.status = "APPROVAL_REQUIRED"
           /\ a.approvalSpender = Spender(FrozenFor(r))
           /\ a.approval = Transaction(Sender, TokenIn, Approve(Spender(FrozenFor(r)), AmountIn))
           /\ a.transaction = None /\ a.permission = None
BY DEF FrozenFor, TermsOf, AskForApproval

LEMMA PermissionTerms ==
    ASSUME NEW r
    PROVE  LET a == AskForPermission(FrozenFor(r))
               p == FrozenFor(r)
           IN
           /\ TermsOf(a, r) /\ a.status = "APPROVAL_REQUIRED"
           /\ a.permission.target = Spender(p) /\ a.permission.token = TokenIn
           /\ a.permission.spender = Target(p) /\ a.permission.amount = AmountIn
           /\ a.permission.expiration = Deadline + 1800
           /\ a.permission.transaction =
                 Transaction(Sender, Spender(p),
                             PermitApprove(TokenIn, Target(p), AmountIn, Deadline + 1800))
           /\ a.transaction = None /\ a.approvalSpender = None /\ a.approval = None
<1>. DEFINE p == FrozenFor(r)
            a == AskForPermission(p)
            made == [target |-> Spender(p), token |-> TokenIn, spender |-> Target(p),
                     amount |-> AmountIn, expiration |-> Deadline + 1800,
                     transaction |-> Transaction(Sender, Spender(p),
                         PermitApprove(TokenIn, Target(p), AmountIn, Deadline + 1800))]
<1>1. /\ p.recipient = Sender /\ p.tokenIn = TokenIn /\ p.amountIn = AmountIn
      /\ p.deadline = Deadline
  BY DEF FrozenFor
<1>2. Permission(p) = [target |-> Spender(p), token |-> TokenIn, spender |-> Target(p),
                       amount |-> AmountIn, expiration |-> Deadline + 1800]
  BY <1>1 DEF Permission
<1>3. a = [p EXCEPT !.status = "APPROVAL_REQUIRED", !.permission = made]
  BY <1>1, <1>2 DEF AskForPermission
<1>4. /\ made.target = Spender(p) /\ made.token = TokenIn /\ made.spender = Target(p)
      /\ made.amount = AmountIn /\ made.expiration = Deadline + 1800
      /\ made.transaction = Transaction(Sender, Spender(p),
                                PermitApprove(TokenIn, Target(p), AmountIn, Deadline + 1800))
  OBVIOUS
<1>5. /\ TermsOf(p, r) /\ p.transaction = None /\ p.approvalSpender = None
      /\ p.approval = None /\ {"status", "permission"} \subseteq DOMAIN p
  BY DEF FrozenFor, TermsOf
<1>. HIDE DEF made, p
<1>6. a.status = "APPROVAL_REQUIRED" /\ a.permission = made
  BY <1>3, <1>5
<1>7. TermsOf(a, r) /\ a.transaction = None /\ a.approvalSpender = None /\ a.approval = None
  BY <1>3, <1>5 DEF TermsOf
<1>. QED
  BY <1>4, <1>6, <1>7 DEF p, made

(* admit of a single route.                                                *)
LEMMA RouteAdmitted ==
    ASSUME NEW r, r.route \in AllRoutes, NEW p, TermsOf(p, r), Supported(r.route), Buildable(p)
    PROVE  AdmittedRoute(p)
<1>. DEFINE route == r.route
            id == route.deployment
            legs == route.legs
<1>1. /\ id \in DOMAIN Configured /\ route.provider = Configured[id].kind
      /\ legs \in Candidates(id) /\ route.out > 0 /\ route # None
  BY RouteForm DEF Kind
<1>2. /\ Len(legs) \in {1, 2} /\ DOMAIN legs = 1..Len(legs)
      /\ legs[1].tokenIn = TokenIn /\ legs[Len(legs)].tokenOut = TokenOut
      /\ \A i \in 1..Len(legs) :
            /\ legs[i].case = SelectorCase(Configured[id].kind)
            /\ legs[i].value \in ToSet(Configured[id].selectors)
            /\ {legs[i].tokenIn, legs[i].tokenOut} \subseteq Tokens
      /\ Len(legs) = 2 =>
            legs[1].tokenOut = legs[2].tokenIn /\ Configured[id].kind \in PathKinds
      /\ Configured[id].kind = "uniswap-v4" => {TokenIn, TokenOut} = Currencies(legs[1].value)
  BY <1>1, LegsForm DEF Kind, Selectors
<1>3. /\ p.route = route /\ p.tokenIn = TokenIn /\ p.tokenOut = TokenOut
  BY DEF TermsOf
<1>. HIDE DEF route, legs, id
<1>4. CASE Configured[id].kind \in PathKinds
  <2>1. Chained(legs)
    BY <1>2 DEF Chained
  <2>2. \A i \in DOMAIN legs : AllowedLeg(legs[i], id, SelectorCase(Configured[id].kind))
    BY <1>2 DEF AllowedLeg
  <2>3. AdmittedPath(route, p, id)
    BY <1>1, <1>2, <1>3, <2>1, <2>2 DEF AdmittedPath, StartOf, EndOf, legs
  <2>. QED
    BY <1>1, <1>3, <1>4, <2>3 DEF AdmittedRoute, PathKinds, FeeKinds, id
<1>5. CASE Configured[id].kind = "balancer-v2"
  <2>1. /\ Len(legs) = 1 /\ legs[1].case = "poolId"
        /\ PoolAddress[legs[1].value] \notin {legs[1].tokenIn, legs[1].tokenOut}
    BY <1>1, <1>5 DEF Supported, ValidBalancerRoute, route, legs, PathKinds, FeeKinds
  <2>2. AllowedLeg(legs[1], id, "poolId") /\ legs[1].tokenOut = TokenOut
    BY <1>2, <2>1 DEF AllowedLeg
  <2>3. AdmittedPool(p, id)
    BY <1>1, <1>2, <1>3, <1>5, <2>1, <2>2 DEF AdmittedPool, legs
  <2>. QED
    BY <1>1, <1>3, <1>5, <2>3 DEF AdmittedRoute, PathKinds, FeeKinds, id
<1>6. CASE Configured[id].kind = "uniswap-v4"
  <2>1. Len(legs) = 1 /\ legs[1].case = "poolKey"
    BY <1>1, <1>6 DEF Supported, AdmittedV4, route, legs, PathKinds, FeeKinds
  <2>2. p.amountIn <= MaxUint128 /\ p.minimum <= MaxUint128
    BY <1>1, <1>3, <1>6 DEF Buildable
  <2>3. /\ legs[1].tokenOut = TokenOut /\ legs[1].value \in ToSet(Configured[id].selectors)
        /\ {legs[1].tokenIn, legs[1].tokenOut} = Currencies(legs[1].value)
    BY <1>2, <1>6, <2>1
  <2>4. AdmittedKey(p, id)
    BY <1>1, <1>2, <1>3, <1>6, <2>1, <2>2, <2>3 DEF AdmittedKey, legs
  <2>. QED
    BY <1>1, <1>3, <1>6, <2>4 DEF AdmittedRoute, PathKinds, FeeKinds, id
<1>. QED
  BY <1>1, <1>4, <1>5, <1>6, ConfigurationAssumption DEF ValidConfiguration

(* Both encode the same call for it.                                       *)
LEMMA RouteDataAgrees ==
    ASSUME NEW r, r.route \in AllRoutes, NEW p, TermsOf(p, r), NEW a, TermsOf(a, r)
    PROVE  RouteData(a) = Data(p)
<1>. DEFINE route == r.route
            kind == Configured[route.deployment].kind
            leg == route.legs[1]
<1>1. /\ route.deployment \in DOMAIN Configured /\ route.provider = kind
      /\ route.legs \in Candidates(route.deployment)
  BY RouteForm DEF Kind
<1>2. /\ p.route = route /\ a.route = route /\ p.tokenIn = TokenIn /\ a.tokenIn = TokenIn
      /\ p.recipient = a.recipient /\ p.amountIn = a.amountIn /\ p.minimum = a.minimum
      /\ p.deadline = a.deadline /\ leg.tokenIn = TokenIn
  BY <1>1, LegsForm DEF TermsOf
<1>. HIDE DEF route, kind, leg
<1>3. CASE kind = "uniswap-v3"
  BY <1>1, <1>2, <1>3 DEF RouteData, Data, UniswapData, UniswapRouter02Data, kind
<1>4. CASE kind \in {"pancake-v3", "aerodrome-slipstream"}
  BY <1>1, <1>2, <1>4 DEF RouteData, Data, ExactInputData, RouterData, kind
<1>5. CASE kind = "balancer-v2"
  BY <1>1, <1>2, <1>5 DEF RouteData, Data, VaultData, BalancerData, kind
<1>6. CASE kind = "uniswap-v4"
  <2>1. RouteData(a) = UniswapV4Data(a) /\ Data(p) = V4Data(p)
    BY <1>1, <1>2, <1>6 DEF RouteData, Data, kind
  <2>2. p.route.legs[1] = leg /\ a.route.legs[1] = leg
    BY <1>2 DEF leg
  <2>. QED
    BY <1>2, <2>1, <2>2 DEF UniswapV4Data, V4Data
<1>. QED
  BY <1>1, <1>3, <1>4, <1>5, <1>6, ConfigurationAssumption
     DEF ValidConfiguration, PathKinds, FeeKinds, kind

LEMMA PathInjective ==
    ASSUME NEW legs, IsSeq(legs), Len(legs) \in {1, 2}, legs[1].tokenIn # legs[Len(legs)].tokenOut,
           Len(legs) = 2 => legs[1].tokenOut \notin {legs[1].tokenIn, legs[2].tokenOut}
    PROVE  IsInjective(TokensAlong(legs))
<1>1. CASE Len(legs) = 1
  <2>1. PICK x, y : TokensAlong(legs) = <<x, y>> /\ x # y
    BY <1>1, AlongOne
  <2>2. DOMAIN <<x, y>> = 1..2 /\ <<x, y>>[1] = x /\ <<x, y>>[2] = y
    OBVIOUS
  <2>3. IsInjective(<<x, y>>)
    BY <2>1, <2>2 DEF IsInjective
  <2>. QED
    BY <2>1, <2>3
<1>2. CASE Len(legs) = 2
  <2>1. PICK x, y, z : TokensAlong(legs) = <<x, y, z>> /\ x # y /\ x # z /\ y # z
    BY <1>2, AlongTwo
  <2>2. DOMAIN <<x, y, z>> = 1..3 /\ <<x, y, z>>[1] = x /\ <<x, y, z>>[2] = y
        /\ <<x, y, z>>[3] = z
    OBVIOUS
  <2>3. IsInjective(<<x, y, z>>)
    BY <2>1, <2>2 DEF IsInjective
  <2>. QED
    BY <2>1, <2>3
<1>. QED
  BY <1>1, <1>2

(* The parts of a split use each deployment of the executor once.          *)
LEMMA PartForm ==
    ASSUME NEW split \in SplitsOver(AllRoutes), NEW i \in DOMAIN split
    PROVE  /\ split[i].route \in AllRoutes /\ split[i].amountIn \in 1..MaxUint
           /\ split[i].route.deployment \in Venues3
           /\ split[i].route.deployment \in DOMAIN Configured
           /\ split[i].route.provider = Configured[split[i].route.deployment].kind
           /\ Configured[split[i].route.deployment].kind \in FeeKinds
           /\ Venue(split[i].route) = IF split[i].route.provider = "uniswap-v3" THEN 0 ELSE 1
<1>1. split[i].route \in AllRoutes /\ split[i].amountIn \in 1..MaxUint /\ Venue(split[i].route) # None
  BY SplitParts DEF Admitted
<1>. DEFINE route == split[i].route
<1>2. route.deployment \in DOMAIN Configured /\ route.provider = Configured[route.deployment].kind
  BY <1>1, RouteForm DEF Kind
<1>. HIDE DEF route
<1>3. route.deployment \in Venues3
  BY <1>1 DEF Venue, Venues3, route
<1>4. /\ Configured[Executor.uniswap].kind = "uniswap-v3"
      /\ Configured[Executor.pancake].kind = "pancake-v3"
  BY ConfigurationAssumption DEF ValidConfiguration
<1>5. /\ Configured[route.deployment].kind \in FeeKinds
      /\ Venue(route) = IF route.provider = "uniswap-v3" THEN 0 ELSE 1
  BY <1>2, <1>3, <1>4 DEF Venue, Venues3, FeeKinds
<1>. QED
  BY <1>1, <1>2, <1>3, <1>5 DEF route

(* admit of fixedExecutor.                                                 *)
LEMMA SplitAdmitted ==
    ASSUME NEW r, r.route = None, r.allocations \in SplitsOver(AllRoutes),
           NEW p, TermsOf(p, r)
    PROVE  AdmittedSplit(p)
<1>. DEFINE split == r.allocations
<1>1. /\ Len(split) \in {1, 2} /\ Admitted(split) /\ 1 \in DOMAIN split
  BY SplitParts
<1>2. /\ p.route = None /\ p.allocations = split /\ p.amountIn = AmountIn
      /\ p.tokenIn = TokenIn /\ p.tokenOut = TokenOut
  BY DEF TermsOf
<1>3. ASSUME NEW i \in DOMAIN split, NEW j \in DOMAIN split,
             split[i].route.deployment = split[j].route.deployment
      PROVE  i = j
  <2>1. Venue(split[i].route) = Venue(split[j].route)
    BY <1>3, PartForm
  <2>. QED
    BY <1>1, <2>1 DEF Admitted
<1>4. ASSUME NEW i \in DOMAIN split
      PROVE  /\ split[i].route.deployment \in Venues3
             /\ AdmittedPath(split[i].route, p, split[i].route.deployment)
             /\ IsInjective(TokensAlong(split[i].route.legs))
             /\ split[i].route.block = "quoted"
             /\ split[i].amountIn \in 1..MaxUint
             /\ split[i].route.out \in 1..MaxUint
  <2>. DEFINE route == split[i].route
              id == route.deployment
              legs == route.legs
  <2>1. /\ route \in AllRoutes /\ split[i].amountIn \in 1..MaxUint /\ id \in Venues3
        /\ id \in DOMAIN Configured /\ route.provider = Configured[id].kind
        /\ Configured[id].kind \in FeeKinds
    BY PartForm
  <2>2. legs \in Candidates(id) /\ route.out \in 1..MaxUint /\ route.block = "quoted"
    BY <2>1, RouteForm
  <2>3. /\ IsSeq(legs) /\ Len(legs) \in {1, 2} /\ DOMAIN legs = 1..Len(legs)
        /\ legs[1].tokenIn = TokenIn /\ legs[Len(legs)].tokenOut = TokenOut
        /\ \A j \in 1..Len(legs) :
              /\ legs[j].case = SelectorCase(Configured[id].kind)
              /\ legs[j].value \in ToSet(Configured[id].selectors)
              /\ {legs[j].tokenIn, legs[j].tokenOut} \subseteq Tokens
        /\ Len(legs) = 2 =>
              legs[1].tokenOut = legs[2].tokenIn /\ legs[1].tokenOut \notin {TokenIn, TokenOut}
    BY <2>1, <2>2, LegsForm DEF Kind, Selectors
  <2>. HIDE DEF legs, route, id
  <2>4. Chained(legs)
    BY <2>3 DEF Chained
  <2>5. \A j \in DOMAIN legs : AllowedLeg(legs[j], id, SelectorCase(Configured[id].kind))
    BY <2>3 DEF AllowedLeg
  <2>6. AdmittedPath(route, p, id)
    BY <1>2, <2>1, <2>3, <2>4, <2>5 DEF AdmittedPath, StartOf, EndOf, legs
  <2>7. IsInjective(TokensAlong(legs))
    BY <2>3, PathInjective, ConfigurationAssumption
  <2>. QED
    BY <2>1, <2>2, <2>6, <2>7 DEF legs, id, route
<1>5. SumOf([i \in DOMAIN split |-> split[i].amountIn]) = AmountIn
  BY <1>1 DEF Admitted, Total
<1>. HIDE DEF split
<1>. QED
  BY <1>1, <1>2, <1>3, <1>4, <1>5 DEF AdmittedSplit

LEMMA SplitDataAgrees ==
    ASSUME NEW r, r.route = None, r.allocations \in SplitsOver(AllRoutes),
           NEW p, TermsOf(p, r), NEW a, TermsOf(a, r)
    PROVE  ExpectedExecutorData(a) = ExecutorData(p)
<1>. DEFINE split == r.allocations
            hops(route) == [j \in DOMAIN route.legs |->
                              [tokenOut |-> route.legs[j].tokenOut, fee |-> route.legs[j].value]]
            theirs == [i \in DOMAIN split |->
                         [venue |-> IF split[i].route.provider = "uniswap-v3" THEN 0 ELSE 1,
                          amountIn |-> split[i].amountIn, hops |-> hops(split[i].route)]]
            ours == [i \in DOMAIN split |->
                       [venue |-> Venue(split[i].route),
                        amountIn |-> split[i].amountIn, hops |-> hops(split[i].route)]]
<1>1. /\ p.allocations = split /\ a.allocations = split
      /\ p.tokenIn = a.tokenIn /\ p.tokenOut = a.tokenOut /\ p.amountIn = a.amountIn
      /\ p.minimum = a.minimum /\ p.deadline = a.deadline
  BY DEF TermsOf
<1>2. \A i \in DOMAIN split :
        Venue(split[i].route) = IF split[i].route.provider = "uniswap-v3" THEN 0 ELSE 1
  BY PartForm
<1>3. ExpectedExecutorData(a) = ExecutorExecute(a.tokenIn, a.tokenOut, a.amountIn, a.minimum,
                                                a.deadline, theirs)
  BY <1>1 DEF ExpectedExecutorData
<1>4. ExecutorData(p) = ExecutorExecute(p.tokenIn, p.tokenOut, p.amountIn, p.minimum,
                                        p.deadline, ours)
  BY <1>1 DEF ExecutorData
<1>. HIDE DEF split, hops
<1>5. theirs = ours
  BY <1>2
<1>. QED
  BY <1>1, <1>3, <1>4, <1>5

LEMMA AggregateIsNat ==
    ASSUME NEW split \in SplitsOver(AllRoutes)
    PROVE  Aggregate(split) \in Nat
<1>. DEFINE quoted == [i \in DOMAIN split |-> split[i].route.out]
<1>1. Len(split) \in {1, 2} /\ DOMAIN split = 1..Len(split)
  BY SplitParts
<1>2. \A i \in DOMAIN split : split[i].route.out \in 1..MaxUint
  BY PartForm, RouteForm
<1>3. /\ Len(quoted) = Len(split) /\ \A i \in 1..Len(split) : quoted[i] \in 1..MaxUint
  BY <1>1, <1>2
<1>. HIDE DEF quoted
<1>4. CASE Len(split) = 1
  <2>1. quoted[1] \in Int /\ quoted[1] >= 0
    BY <1>3, <1>4
  <2>2. SumOf(quoted) = quoted[1]
    BY <1>3, <1>4, <2>1, SumOfOne
  <2>. QED
    BY <2>1, <2>2 DEF Aggregate, quoted
<1>5. CASE Len(split) = 2
  <2>1. quoted[1] \in Int /\ quoted[1] >= 0 /\ quoted[2] \in Int /\ quoted[2] >= 0
    BY <1>3, <1>5
  <2>2. SumOf(quoted) = quoted[1] + quoted[2]
    BY <1>3, <1>5, <2>1, SumOfTwo
  <2>3. SumOf(quoted) \in Nat
    BY <2>1, <2>2
  <2>. QED
    BY <2>3 DEF Aggregate, quoted
<1>. QED
  BY <1>1, <1>4, <1>5

(* The quoted output and the minimum fit what the terminal expects.        *)
LEMMA AmountsAgree ==
    ASSUME request \in RequestsOver(AllRoutes), Selected, NEW p, TermsOf(p, request), Buildable(p)
    PROVE  request.output \in 1..MaxUint /\ p.minimum \in 1..MaxUint
<1>. DEFINE quoted == request.output
            tolerance == request.bps
<1>1. tolerance \in SlippageBps /\ p.minimum = Minimum(quoted, tolerance) /\ p.minimum > 0
  BY RequestCases DEF TermsOf, Buildable
<1>2. request.output \in Nat /\ request.output <= MaxUint
  <2>1. CASE request.route \in AllRoutes /\ request.output = request.route.out
    <3>1. request.route.out \in 1..MaxUint
      BY <2>1, RouteForm
    <3>. QED
      BY <2>1, <3>1
  <2>2. CASE /\ request.route = None /\ request.allocations \in SplitsOver(AllRoutes)
             /\ request.output = Aggregate(request.allocations)
    BY <2>2, AggregateIsNat DEF Selected
  <2>. QED
    BY <2>1, <2>2, RequestCases
<1>. HIDE DEF quoted, tolerance
<1>3. PICK output, bps : output = quoted /\ bps = tolerance
  OBVIOUS
<1>4. /\ output \in Nat /\ output <= MaxUint
      /\ p.minimum > 0 /\ p.minimum \in 0..output
  BY <1>1, <1>2, <1>3, MinimumBound DEF quoted
<1>5. MaxUint \in Nat
  BY ConfigurationAssumption
<1>. QED
  BY <1>3, <1>4, <1>5 DEF quoted

(* What every answer has in common is what the terminal checks first.      *)
LEMMA EngineTermsAccepted ==
    ASSUME request \in RequestsOver(AllRoutes), Selected, Buildable(Frozen),
           NEW a, TermsOf(a, request)
    PROVE  /\ Admits(a) /\ MinimumMatches(a, request.bps)
           /\ a.recipient = Signer /\ a.tokenIn # a.tokenOut
           /\ {a.tokenIn, a.tokenOut} \subseteq Tokens
           /\ a.amountIn \in 1..MaxUint /\ a.minimum \in 1..MaxUint
           /\ (a.route # None) # (a.allocations # <<>>) /\ Len(a.allocations) <= 2
<1>0. TermsOf(Frozen, request)
  BY FrozenTerms DEF Frozen
<1>1. request.output \in 1..MaxUint /\ Frozen.minimum \in 1..MaxUint
  BY <1>0, AmountsAgree
<1>2. /\ a.minimum = Minimum(request.output, request.bps) /\ a.minimum = Frozen.minimum
      /\ a.amountIn = Frozen.amountIn /\ a.route = request.route /\ Frozen.route = request.route
      /\ a.allocations = request.allocations
      /\ a.recipient = Sender /\ a.tokenIn = TokenIn /\ a.tokenOut = TokenOut
      /\ a.amountIn = AmountIn
  BY <1>0 DEF TermsOf
<1>3. Buildable(a)
  BY <1>2 DEF Buildable
<1>4. CASE /\ request.route \in AllRoutes /\ request.allocations = <<>>
           /\ request.output = request.route.out
  <2>1. request.route # None
    BY <1>4, RouteForm
  <2>2. AdmittedRoute(a)
    BY <1>3, <1>4, <2>1, RouteAdmitted DEF Selected
  <2>3. Terms(a).quoted = request.output
    BY <1>2, <1>4, <2>1 DEF Terms
  <2>4. Len(a.allocations) = 0
    BY <1>2, <1>4, EmptySeq
  <2>5. Admits(a) /\ MinimumMatches(a, request.bps)
    BY <1>1, <1>2, <2>1, <2>2, <2>3 DEF Admits, MinimumMatches, Minimum
  <2>. QED
    BY <1>1, <1>2, <1>4, <2>1, <2>4, <2>5, ConfigurationAssumption DEF Signer
<1>5. CASE /\ request.route = None /\ request.allocations \in SplitsOver(AllRoutes)
           /\ request.output = Aggregate(request.allocations)
  <2>1. AdmittedSplit(a)
    BY <1>5, SplitAdmitted
  <2>2. Terms(a).quoted = request.output
    BY <1>2, <1>5 DEF Terms, SplitOutput, Aggregate
  <2>3. Len(a.allocations) <= 2 /\ a.allocations # <<>>
    <3>1. Len(request.allocations) \in {1, 2}
      BY <1>5, SplitParts
    <3>2. a.allocations = request.allocations /\ Len(<<>>) = 0
      BY DEF TermsOf
    <3>3. PICK parts : parts = request.allocations
      OBVIOUS
    <3>4. PICK S : parts \in Seq(S)
      BY <1>5, <3>3, SplitParts
    <3>5. Len(parts) \in {1, 2}
      BY <3>1, <3>3
    <3>6. Len(parts) <= 2
      <4>1. PICK n : n = Len(parts)
        OBVIOUS
      <4>. QED
        BY <3>5, <4>1
    <3>7. parts # <<>>
      BY <3>4, <3>5
    <3>. QED
      BY <3>2, <3>3, <3>6, <3>7
  <2>5. Admits(a) /\ MinimumMatches(a, request.bps)
    BY <1>1, <1>2, <1>5, <2>1, <2>2 DEF Admits, MinimumMatches, Minimum
  <2>. QED
    BY <1>0, <1>1, <1>5, <2>3, <2>5, ConfigurationAssumption DEF Signer, TermsOf
<1>. QED
  BY <1>4, <1>5, RequestCases

(* Target, spender and call are the same on both sides.                    *)
LEMMA TargetsAgree ==
    ASSUME request \in RequestsOver(AllRoutes), NEW a, TermsOf(a, request)
    PROVE  /\ Terms(a).target = Target(Frozen) /\ Terms(a).spender = Spender(Frozen)
           /\ SwapTransaction(Frozen) = Transaction(Sender, Terms(a).target, Terms(a).data)
           /\ NeedsPermission(Frozen) =>
                 Terms(a).permission = [target |-> Spender(Frozen), spender |-> Target(Frozen)]
<1>0. TermsOf(Frozen, request)
  BY FrozenTerms DEF Frozen
<1>1. /\ a.route = request.route /\ Frozen.route = request.route /\ Frozen.recipient = Sender
  BY <1>0 DEF TermsOf
<1>2. CASE request.route \in AllRoutes
  <2>1. request.route # None /\ request.route.provider = Configured[request.route.deployment].kind
    BY <1>2, RouteForm DEF Kind
  <2>2. Terms(a) = [target |-> Target(Frozen), spender |-> Spender(Frozen),
                    permission |-> IF request.route.provider = "uniswap-v4"
                                   THEN [target |-> Spender(Frozen), spender |-> Target(Frozen)]
                                   ELSE None,
                    data |-> RouteData(a), quoted |-> request.route.out,
                    unchanged |-> RouteUnchanged(a)]
    BY <1>1, <2>1 DEF Terms, Target, Spender
  <2>3. RouteData(a) = Data(Frozen)
    BY <1>0, <1>2, RouteDataAgrees
  <2>4. SwapTransaction(Frozen) = Transaction(Sender, Target(Frozen), Data(Frozen))
    BY <1>1, <2>1 DEF SwapTransaction
  <2>. QED
    BY <1>1, <2>1, <2>2, <2>3, <2>4 DEF NeedsPermission
<1>3. CASE request.route = None /\ request.allocations \in SplitsOver(AllRoutes)
  <2>1. ExpectedExecutorData(a) = ExecutorData(Frozen)
    BY <1>0, <1>3, SplitDataAgrees
  <2>2. /\ Terms(a).target = Executor.address /\ Terms(a).spender = Executor.address
        /\ Terms(a).data = ExpectedExecutorData(a)
    BY <1>1, <1>3 DEF Terms
  <2>3. Target(Frozen) = Executor.address /\ Spender(Frozen) = Executor.address
    BY <1>1, <1>3 DEF Target, Spender
  <2>4. SwapTransaction(Frozen) = Transaction(Sender, Executor.address, ExecutorData(Frozen))
    BY <1>1, <1>3 DEF SwapTransaction, ExecutorTransaction
  <2>. QED
    BY <1>1, <1>3, <2>1, <2>2, <2>3, <2>4 DEF NeedsPermission
<1>. QED
  BY <1>2, <1>3, RequestCases

LEMMA EngineAccepted ==
    ASSUME TradeInv, step \in Answering, ~altered
    PROVE  /\ Accepts(answer, request.bps) /\ TermsOf(answer, request)
           /\ PlanFor(answer) # None
           /\ answer.status = "READY" =>
                 /\ effect \in Effects(Frozen) /\ Simulates(Frozen, effect)
<1>. DEFINE p == Frozen
<1>1. request \in RequestsOver(AllRoutes) /\ EngineAnswered /\ Selected /\ Buildable(p)
  BY DEF TradeInv, EngineAnswered
<1>2. p = FrozenFor(request)
  BY DEF Frozen
<1>3. /\ Offer(p).transaction # None /\ AskForApproval(p).approval # None
      /\ AskForPermission(p).permission # None
      /\ AskForPermission(p).permission.transaction # None
      /\ [target |-> Spender(p), spender |-> Target(p)] # None
      /\ \A a \in {Offer(p), AskForApproval(p), AskForPermission(p)} : PlanFor(a) # None
  BY <1>1, <1>2, NoneAssumption
<1>4. answer \in {Offer(p), AskForApproval(p), AskForPermission(p)}
  BY <1>1 DEF EngineAnswered
<1>5. TermsOf(answer, request) /\ answer.status \in {"READY", "APPROVAL_REQUIRED"}
  BY <1>1, <1>2, <1>4, OfferTerms, ApprovalTerms, PermissionTerms DEF EngineAnswered
<1>. HIDE DEF p
<1>6. ASSUME WellFormed(answer),
             answer.status = "READY" => SwapExact(answer),
             answer.status # "READY" /\ answer.permission # None => PermissionExact(answer),
             answer.status # "READY" /\ answer.permission = None => ApprovalExact(answer)
      PROVE  Accepts(answer, request.bps)
  BY <1>1, <1>5, <1>6, EngineTermsAccepted DEF Accepts, p
<1>7. ASSUME TransactionOf(answer) # None,
             \E to, data : TransactionOf(answer) = Transaction(Sender, to, data)
      PROVE  WellFormed(answer)
  <2>1. /\ TransactionOf(answer).from = Sender /\ TransactionOf(answer).chain = Chain
        /\ TransactionOf(answer).value = 0
    BY <1>7 DEF Transaction
  <2>. QED
    BY <1>1, <1>5, <1>7, <2>1, EngineTermsAccepted DEF WellFormed, Signer, p
<1>8. CASE answer = Offer(p) /\ effect \in Effects(p) /\ Simulates(p, effect)
  <2>1. /\ answer.status = "READY" /\ answer.transaction = SwapTransaction(p)
        /\ answer.approvalSpender = None /\ answer.approval = None /\ answer.permission = None
    BY <1>2, <1>8, OfferTerms
  <2>2. answer.transaction = Transaction(Sender, Terms(answer).target, Terms(answer).data)
    BY <1>1, <1>5, <2>1, TargetsAgree DEF p
  <2>3. answer.transaction.to = Terms(answer).target /\ answer.transaction.data = Terms(answer).data
    BY <2>2 DEF Transaction
  <2>4. SwapExact(answer) /\ TransactionOf(answer) = answer.transaction
    BY <2>1, <2>3 DEF SwapExact, TransactionOf
  <2>. QED
    BY <1>3, <1>5, <1>6, <1>7, <1>8, <2>1, <2>2, <2>4 DEF p
<1>9. CASE answer = AskForApproval(p)
  <2>1. /\ answer.status = "APPROVAL_REQUIRED" /\ answer.approvalSpender = Spender(p)
        /\ answer.approval = Transaction(Sender, TokenIn, Approve(Spender(p), AmountIn))
        /\ answer.transaction = None /\ answer.permission = None
    BY <1>2, <1>9, ApprovalTerms
  <2>2. Terms(answer).spender = Spender(p)
    BY <1>1, <1>5, TargetsAgree DEF p
  <2>3. answer.tokenIn = TokenIn /\ answer.amountIn = AmountIn
    BY <1>5 DEF TermsOf
  <2>4. answer.approval.to = TokenIn /\ answer.approval.data = Approve(Spender(p), AmountIn)
    BY <2>1 DEF Transaction
  <2>5. ApprovalExact(answer) /\ TransactionOf(answer) = answer.approval
    BY <2>1, <2>2, <2>3, <2>4 DEF ApprovalExact, TransactionOf
  <2>. QED
    BY <1>3, <1>5, <1>6, <1>7, <1>9, <2>1, <2>5
<1>10. CASE NeedsPermission(p) /\ answer = AskForPermission(p)
  <2>. DEFINE permission == answer.permission
              expiration == Deadline + 1800
  <2>1. /\ answer.status = "APPROVAL_REQUIRED"
        /\ permission.target = Spender(p) /\ permission.token = TokenIn
        /\ permission.spender = Target(p) /\ permission.amount = AmountIn
        /\ permission.expiration = expiration
        /\ permission.transaction = Transaction(Sender, Spender(p),
              PermitApprove(TokenIn, Target(p), AmountIn, expiration))
        /\ answer.transaction = None /\ answer.approvalSpender = None /\ answer.approval = None
    BY <1>2, <1>10, PermissionTerms
  <2>2. /\ Terms(answer).target = Target(p)
        /\ Terms(answer).permission = [target |-> Spender(p), spender |-> Target(p)]
    BY <1>1, <1>5, <1>10, TargetsAgree DEF p
  <2>3. answer.tokenIn = TokenIn /\ answer.amountIn = AmountIn /\ answer.deadline = Deadline
    BY <1>5 DEF TermsOf
  <2>4. /\ permission.transaction.to = Spender(p)
        /\ permission.transaction.data = PermitApprove(TokenIn, Target(p), AmountIn, expiration)
    BY <2>1 DEF Transaction
  <2>5. /\ Terms(answer).permission.target = Spender(p)
        /\ Terms(answer).permission.spender = Target(p)
        /\ permission # None /\ permission.transaction # None
    BY <1>3, <1>10, <2>2
  <2>6. Terms(answer).permission # None
    BY <1>2, <1>3, <1>10, <2>2
  <2>7. expiration <= MaxUint48
    BY ExpirationAssumption, ConfigurationAssumption DEF Deadline
  <2>8. PermissionExact(answer) /\ TransactionOf(answer) = permission.transaction
    BY <2>1, <2>2, <2>3, <2>4, <2>5, <2>6, <2>7 DEF PermissionExact, TransactionOf
  <2>. QED
    BY <1>3, <1>5, <1>6, <1>7, <1>10, <2>1, <2>5, <2>8
<1>. QED
  BY <1>1, <1>8, <1>9, <1>10 DEF EngineAnswered, p

(* What the engine answers, the terminal reading the same configuration    *)
(* accepts: the Go and the TypeScript encoders agree on every call.        *)
THEOREM AnswersAccepted == Spec => []EngineAndTerminalAgree
<1>1. TradeInv => EngineAndTerminalAgree
  <2>. SUFFICES ASSUME TradeInv, step = "reviewed", ~altered
                PROVE  review # None /\ (answer.status = "READY" => review.action = "swap")
    BY DEF EngineAndTerminalAgree
  <2>1. Accepts(answer, request.bps) /\ PlanFor(answer) # None
    BY EngineAccepted DEF Answering
  <2>2. review = PlanFor(answer)
    BY <2>1 DEF TradeInv
  <2>. QED
    BY <2>1, <2>2 DEF PlanFor
<1>. QED
  BY <1>1, TradeInvariant, PTL

-----------------------------------------------------------------------------
(* What was simulated is confirmed.                                        *)

(* Every balance the terminal wants unchanged is one the simulation kept.  *)
LEMMA RouteKept ==
    ASSUME NEW r, r.route \in AllRoutes, NEW p, TermsOf(p, r), NEW a, TermsOf(a, r)
    PROVE  RouteUnchanged(a) \subseteq DirectPreserve(p)
<1>. DEFINE route == r.route
            id == route.deployment
            legs == route.legs
            target == Configured[id].target
<1>1. /\ id \in DOMAIN Configured /\ route.provider = Configured[id].kind
      /\ legs \in Candidates(id) /\ route # None
  BY RouteForm DEF Kind
<1>2. Len(legs) \in {1, 2}
  BY <1>1, LegsForm
<1>3. /\ p.route = route /\ a.route = route /\ p.tokenIn = TokenIn /\ a.tokenIn = TokenIn
      /\ p.tokenOut = TokenOut /\ a.tokenOut = TokenOut /\ Target(p) = target
  BY <1>1 DEF TermsOf, Target
<1>. HIDE DEF route, id, legs, target
<1>4. CASE Configured[id].kind \in PathKinds
  <2>1. /\ RouteUnchanged(a) = {Held(legs[i].tokenOut, target) : i \in 1..(Len(legs) - 1)}
        /\ DirectPreserve(p) = IF Len(legs) = 2 THEN {Probe(legs[1].tokenOut, target)} ELSE {}
    BY <1>1, <1>3, <1>4
       DEF RouteUnchanged, DirectPreserve, PathKinds, FeeKinds, id, legs, target
  <2>2. \A i \in 1..(Len(legs) - 1) : Len(legs) = 2 /\ i = 1
    <3>1. PICK n : n = Len(legs)
      OBVIOUS
    <3>2. n \in {1, 2} /\ \A i \in 1..(n - 1) : n = 2 /\ i = 1
      BY <1>2, <3>1
    <3>. QED
      BY <3>1, <3>2
  <2>. QED
    BY <2>1, <2>2 DEF Held, Probe
<1>5. CASE Configured[id].kind = "balancer-v2"
  BY <1>3, <1>5 DEF RouteUnchanged, PathKinds, FeeKinds, id
<1>6. CASE Configured[id].kind = "uniswap-v4"
  BY <1>1, <1>3, <1>6
     DEF RouteUnchanged, DirectPreserve, PathKinds, FeeKinds, Held, Probe, id, target
<1>. QED
  BY <1>1, <1>4, <1>5, <1>6, ConfigurationAssumption DEF ValidConfiguration

LEMMA SplitKept ==
    ASSUME NEW r, r.route = None, r.allocations \in SplitsOver(AllRoutes),
           NEW a, TermsOf(a, r)
    PROVE  SplitUnchanged(a) \subseteq ExecutorPreserve(r.allocations, Sender)
<1>. DEFINE split == r.allocations
<1>1. /\ a.allocations = split /\ a.tokenIn = TokenIn /\ a.tokenOut = TokenOut
      /\ a.recipient = Sender
  BY DEF TermsOf
<1>2. SUFFICES ASSUME NEW h \in SplitUnchanged(a)
               PROVE  h \in ExecutorPreserve(split, Sender)
  OBVIOUS
<1>3. PICK i \in DOMAIN split :
        h \in {Held(t, o) : t \in ToSet(TokensAlong(split[i].route.legs)),
                            o \in {Executor.address,
                                   Configured[split[i].route.deployment].target, Sender}}
  BY <1>1, <1>2 DEF SplitUnchanged
<1>. DEFINE legs == split[i].route.legs
            router == Configured[split[i].route.deployment].target
<1>4. PICK t \in ToSet(TokensAlong(legs)), o \in {Executor.address, router, Sender} : h = Held(t, o)
  BY <1>3
<1>5. h \notin {Held(TokenIn, Sender), Held(TokenOut, Sender)}
  <2>1. h # Held(a.tokenIn, a.recipient) /\ h # Held(a.tokenOut, a.recipient)
    BY <1>2 DEF SplitUnchanged
  <2>. QED
    BY <1>1, <2>1
<1>6. /\ IsSeq(legs) /\ Len(legs) \in {1, 2} /\ DOMAIN legs = 1..Len(legs)
  <2>1. split[i].route \in AllRoutes
    BY PartForm
  <2>. QED
    BY <2>1, RouteForm, LegsForm
<1>. HIDE DEF split, legs, router
<1>7. PICK j \in DOMAIN legs : t \in {legs[j].tokenIn, legs[j].tokenOut}
  <2>1. CASE Len(legs) = 1
    <3>1. TokensAlong(legs) = <<legs[1].tokenIn, legs[1].tokenOut>>
      BY <1>6, <2>1, AlongOne
    <3>2. t \in {legs[1].tokenIn, legs[1].tokenOut}
      BY <1>4, <3>1 DEF ToSet
    <3>. QED
      BY <1>6, <2>1, <3>2
  <2>2. CASE Len(legs) = 2
    <3>1. TokensAlong(legs) = <<legs[1].tokenIn, legs[1].tokenOut, legs[2].tokenOut>>
      BY <1>6, <2>2, AlongTwo
    <3>2. t \in {legs[1].tokenIn, legs[1].tokenOut, legs[2].tokenOut}
      BY <1>4, <3>1 DEF ToSet
    <3>. QED
      BY <1>6, <2>2, <3>2
  <2>. QED
    BY <1>6, <2>1, <2>2
<1>. DEFINE x == [leg |-> legs[j], router |-> router]
<1>8. x \in Passes(split)
  BY <1>7 DEF Passes, legs, router
<1>9. x.leg = legs[j] /\ x.router = router
  OBVIOUS
<1>. HIDE DEF x
<1>10. h = Probe(t, o) /\ t \in {x.leg.tokenIn, x.leg.tokenOut}
       /\ o \in {Sender, Executor.address, x.router}
  BY <1>4, <1>7, <1>9 DEF Held, Probe
<1>11. h \notin {Probe(TokenIn, Sender), Probe(TokenOut, Sender)}
  BY <1>5 DEF Held, Probe
<1>12. h \in ExecutorPreserve(split, Sender)
  BY <1>8, <1>10, <1>11 DEF ExecutorPreserve
<1>. QED
  BY <1>12 DEF split

LEMMA ChecksCover ==
    ASSUME request \in RequestsOver(AllRoutes), NEW a, TermsOf(a, request)
    PROVE  LET checks == Checks(Frozen) IN
           /\ checks.input = Probe(TokenIn, Sender) /\ checks.output = Probe(TokenOut, Sender)
           /\ Terms(a).unchanged \subseteq checks.preserve
           /\ request.route = None => checks.clear # {}
<1>0. TermsOf(Frozen, request)
  BY FrozenTerms DEF Frozen
<1>1. /\ a.route = request.route /\ Frozen.route = request.route /\ Frozen.recipient = Sender
      /\ Frozen.allocations = request.allocations
  BY <1>0 DEF TermsOf
<1>2. CASE request.route \in AllRoutes
  <2>. DEFINE legs == request.route.legs
  <2>1. request.route # None /\ legs[1].tokenIn = TokenIn /\ legs[Len(legs)].tokenOut = TokenOut
    BY <1>2, RouteForm, LegsForm
  <2>2. Checks(Frozen) = [input |-> Probe(TokenIn, Sender), output |-> Probe(TokenOut, Sender),
                          preserve |-> DirectPreserve(Frozen), clear |-> {}]
    BY <1>1, <2>1 DEF Checks, StartOf, EndOf
  <2>3. Terms(a).unchanged = RouteUnchanged(a)
    BY <1>1, <2>1 DEF Terms
  <2>. QED
    BY <1>0, <1>2, <2>1, <2>2, <2>3, RouteKept
<1>3. CASE request.route = None /\ request.allocations \in SplitsOver(AllRoutes)
  <2>. DEFINE split == request.allocations
  <2>1. Checks(Frozen) = [input |-> Probe(TokenIn, Sender), output |-> Probe(TokenOut, Sender),
                          preserve |-> ExecutorPreserve(split, Sender),
                          clear |-> ClearAllowances(split)]
    BY <1>1, <1>3 DEF Checks, ExecutorChecks
  <2>2. Terms(a).unchanged = SplitUnchanged(a)
    BY <1>1, <1>3 DEF Terms
  <2>3. ClearAllowances(split) # {}
    <3>1. 1 \in DOMAIN split /\ split[1].route \in AllRoutes
      BY <1>3, SplitParts
    <3>2. 1 \in DOMAIN split[1].route.legs
      BY <3>1, RouteForm, LegsForm
    <3>. DEFINE first == [leg |-> split[1].route.legs[1],
                          router |-> Configured[split[1].route.deployment].target]
    <3>3. first \in Passes(split)
      BY <3>1, <3>2 DEF Passes
    <3>. HIDE DEF first
    <3>. QED
      BY <3>3 DEF ClearAllowances
  <2>4. /\ Checks(Frozen).input = Probe(TokenIn, Sender)
        /\ Checks(Frozen).output = Probe(TokenOut, Sender)
        /\ Checks(Frozen).preserve = ExecutorPreserve(split, Sender)
        /\ Checks(Frozen).clear = ClearAllowances(split)
    BY <2>1
  <2>. QED
    BY <1>3, <2>2, <2>3, <2>4, SplitKept
<1>. QED
  BY <1>2, <1>3, RequestCases

(* What either simulator finds fulfilled.                                  *)
LEMMA SimulatedAs ==
    ASSUME NEW p, NEW e, Simulates(p, e)
    PROVE  /\ Spent(Checks(p), e) = p.amountIn /\ Received(Checks(p), e) >= p.minimum
           /\ Preserved(Checks(p), e)
           /\ Checks(p).clear # {} => ~e.left
BY DEF Simulates, TenderlyPasses, AnvilPasses

(* What was simulated and then happens the same way is confirmed by the    *)
(* terminal's own look at the balances, for every route and either         *)
(* simulator.                                                              *)
THEOREM SimulatedConfirmed == Spec => []SimulatedMeansConfirmed
<1>1. TradeInv => SimulatedMeansConfirmed
  <2>. SUFFICES ASSUME TradeInv, step = "reviewed", ~altered, answer.status = "READY"
                PROVE  SimulatedMeansConfirmed
    BY DEF SimulatedMeansConfirmed
  <2>1. /\ Accepts(answer, request.bps) /\ TermsOf(answer, request)
        /\ effect \in Effects(Frozen) /\ Simulates(Frozen, effect)
        /\ request \in RequestsOver(AllRoutes)
    BY EngineAccepted DEF Answering, TradeInv
  <2>2. review = PlanFor(answer)
    BY <2>1 DEF TradeInv
  <2>3. TermsOf(Frozen, request)
    BY FrozenTerms DEF Frozen
  <2>. DEFINE terms == review.receipt
              checks == Checks(Frozen)
  <2>4. /\ terms.tokenIn = TokenIn /\ terms.tokenOut = TokenOut /\ terms.recipient = Sender
        /\ terms.amountIn = Frozen.amountIn /\ terms.minimum = Frozen.minimum
        /\ terms.unchanged = Terms(answer).unchanged
    <3>1. terms = [tokenIn |-> answer.tokenIn, tokenOut |-> answer.tokenOut,
                   recipient |-> answer.recipient, amountIn |-> answer.amountIn,
                   minimum |-> answer.minimum, unchanged |-> Terms(answer).unchanged]
      BY <2>2 DEF PlanFor
    <3>. QED
      BY <2>1, <2>3, <3>1 DEF TermsOf
  <2>5. /\ checks.input = Probe(TokenIn, Sender) /\ checks.output = Probe(TokenOut, Sender)
        /\ terms.unchanged \subseteq checks.preserve
        /\ request.route = None => checks.clear # {}
    BY <2>1, <2>4, ChecksCover
  <2>6. /\ -Delta(effect, TokenIn, Sender) = terms.amountIn
        /\ Delta(effect, TokenOut, Sender) >= terms.minimum
        /\ \A h \in checks.preserve : Delta(effect, h.token, h.owner) = 0
        /\ checks.clear # {} => ~effect.left
    BY <2>1, <2>4, <2>5, SimulatedAs DEF Spent, Received, Preserved, Probe
  <2>7. ~effect.left
    <3>1. CASE request.route = None
      BY <2>5, <2>6, <3>1
    <3>2. CASE request.route # None
      <4>1. Frozen.route # None
        BY <2>3, <3>2 DEF TermsOf
      <4>. QED
        <5>1. effect.left \in IF Frozen.route = None THEN BOOLEAN ELSE {FALSE}
          BY <2>1 DEF Effects
        <5>. QED
          BY <4>1, <5>1
    <3>. QED
      BY <3>1, <3>2
  <2>. DEFINE moved == [h \in terms.unchanged \cup {Held(terms.tokenIn, terms.recipient),
                                                    Held(terms.tokenOut, terms.recipient)} |->
                           Delta(effect, h.token, h.owner)]
  <2>8. /\ moved[Held(terms.tokenIn, terms.recipient)] = Delta(effect, TokenIn, Sender)
        /\ moved[Held(terms.tokenOut, terms.recipient)] = Delta(effect, TokenOut, Sender)
        /\ \A h \in terms.unchanged : moved[h] = Delta(effect, h.token, h.owner)
    <3>1. \A t, o : Held(t, o).token = t /\ Held(t, o).owner = o
      BY DEF Held
    <3>. QED
      BY <2>4, <3>1
  <2>9. ReceiptPasses(moved, terms)
    <3>. HIDE DEF moved, terms, checks
    <3>. QED
      BY <2>5, <2>6, <2>8 DEF ReceiptPasses
  <2>. QED
    BY <2>7, <2>9 DEF SimulatedMeansConfirmed
<1>. QED
  BY <1>1, TradeInvariant, PTL

-----------------------------------------------------------------------------
(* The iterator over the candidate paths.                                  *)

(* Ascending lists a finite set of numbers, each of them once: the ranks   *)
(* of its members differ, and they are the numbers below its size.         *)
LEMMA Ascends ==
    ASSUME NEW S \in SUBSET Int, IsFiniteSet(S)
    PROVE  /\ Cardinality(S) \in Nat
           /\ DOMAIN Ascending(S) = 1..Cardinality(S) /\ Len(Ascending(S)) = Cardinality(S)
           /\ \A k \in 1..Cardinality(S) : Ascending(S)[k] \in S
           /\ \A j, k \in 1..Cardinality(S) : Ascending(S)[j] = Ascending(S)[k] => j = k
           /\ \A x \in S : \E k \in 1..Cardinality(S) : Ascending(S)[k] = x
<1>. DEFINE Below(x) == {y \in S : y < x}
            n == Cardinality(S)
            place == [x \in S |-> Cardinality(Below(x)) + 1]
<1>1. n \in Nat
  BY FS_CardinalityType
<1>2. ASSUME NEW x \in S
      PROVE  IsFiniteSet(Below(x)) /\ Cardinality(Below(x)) \in Nat /\ Cardinality(Below(x)) < n
  <2>1. Below(x) \in SUBSET S /\ x \notin Below(x)
    OBVIOUS
  <2>. HIDE DEF Below
  <2>2. IsFiniteSet(Below(x)) /\ Cardinality(Below(x)) <= n /\ Cardinality(Below(x)) # n
    BY <2>1, FS_Subset
  <2>. QED
    BY <1>1, <2>2, FS_CardinalityType
<1>3. ASSUME NEW x \in S, NEW y \in S, x < y
      PROVE  Cardinality(Below(x)) < Cardinality(Below(y))
  <2>1. Below(x) \in SUBSET Below(y) /\ Below(x) # Below(y)
    <3>1. x \in Below(y) /\ x \notin Below(x)
      BY <1>3
    <3>2. ASSUME NEW z \in Below(x) PROVE z \in Below(y)
      BY <1>3
    <3>. QED
      BY <3>1, <3>2
  <2>. HIDE DEF Below
  <2>2. Cardinality(Below(x)) <= Cardinality(Below(y)) /\ Cardinality(Below(x)) # Cardinality(Below(y))
    BY <1>2, <2>1, FS_Subset
  <2>. QED
    BY <1>2, <2>2
<1>. HIDE DEF Below, n
<1>4. ASSUME NEW x \in S, NEW y \in S, Cardinality(Below(x)) = Cardinality(Below(y))
      PROVE  x = y
  <2>1. ~(x < y) /\ ~(y < x)
    BY <1>2, <1>3, <1>4
  <2>. QED
    BY <2>1
<1>5. place \in Injection(S, 1..n)
  <2>1. ASSUME NEW x \in S PROVE place[x] \in 1..n /\ place[x] = Cardinality(Below(x)) + 1
    BY <1>1, <1>2
  <2>2. ASSUME NEW x \in S, NEW y \in S, place[x] = place[y] PROVE x = y
    BY <1>2, <1>4, <2>1, <2>2
  <2>. QED
    BY <2>1, <2>2 DEF Injection, IsInjective
<1>6. IsFiniteSet(1..n) /\ Cardinality(1..n) = n
  BY <1>1, FS_Interval
<1>7. place \in Surjection(S, 1..n)
  <2>. HIDE DEF place
  <2>. QED
    BY <1>5, <1>6, FS_Injection DEF n
<1>8. ASSUME NEW k \in 1..n
      PROVE  \E x \in S : Cardinality(Below(x)) = k - 1
  <2>1. PICK x \in S : place[x] = k
    <3>. HIDE DEF place
    <3>. QED
      BY <1>7 DEF Surjection
  <2>. QED
    BY <1>2, <2>1
<1>9. /\ DOMAIN Ascending(S) = 1..n
      /\ \A k \in 1..n : Ascending(S)[k] = CHOOSE x \in S : Cardinality(Below(x)) = k - 1
  BY DEF Ascending, Below, n
<1>10. Len(Ascending(S)) = n
  BY <1>1 DEF Ascending, n
<1>11. \A k \in 1..n : Ascending(S)[k] \in S /\ Cardinality(Below(Ascending(S)[k])) = k - 1
  BY <1>8, <1>9
<1>12. ASSUME NEW j \in 1..n, NEW k \in 1..n, Ascending(S)[j] = Ascending(S)[k]
       PROVE  j = k
  <2>1. j - 1 = k - 1
    BY <1>11, <1>12
  <2>. QED
    BY <2>1
<1>13. ASSUME NEW x \in S PROVE \E k \in 1..n : Ascending(S)[k] = x
  <2>1. PICK k : k = Cardinality(Below(x)) + 1
    OBVIOUS
  <2>2. k \in 1..n /\ Cardinality(Below(x)) = k - 1
    BY <1>1, <1>2, <2>1
  <2>. QED
    BY <1>4, <1>11, <2>2
<1>. QED
  BY <1>1, <1>9, <1>10, <1>11, <1>12, <1>13 DEF n

FeesOf(d) == Ascending(ToSet(Configured[Ids[d]].selectors))

LEMMA FeesList ==
    ASSUME NEW d \in DOMAIN Ids
    PROVE  /\ Len(FeesOf(d)) \in Nat \ {0} /\ DOMAIN FeesOf(d) = 1..Len(FeesOf(d))
           /\ \A k \in 1..Len(FeesOf(d)) : FeesOf(d)[k] \in ToSet(Configured[Ids[d]].selectors)
           /\ \A j, k \in 1..Len(FeesOf(d)) : FeesOf(d)[j] = FeesOf(d)[k] => j = k
           /\ \A f \in ToSet(Configured[Ids[d]].selectors) :
                 \E k \in 1..Len(FeesOf(d)) : FeesOf(d)[k] = f
<1>. DEFINE list == Configured[Ids[d]].selectors
            S == ToSet(list)
<1>1. list \in Seq(Int) /\ Len(list) > 0
  <2>1. Ids[d] \in DOMAIN Configured
    BY CandidatesAssumption
  <2>. QED
    BY <2>1, CandidatesAssumption, ConfigurationAssumption DEF ValidConfiguration
<1>. HIDE DEF list
<1>2. S \in SUBSET Int /\ list[1] \in S
  BY <1>1 DEF ToSet
<1>3. IsFiniteSet(S)
  <2>1. IsFiniteSet(1..Len(list))
    BY <1>1, FS_Interval
  <2>2. list \in Surjection(1..Len(list), S)
    BY <1>1 DEF Surjection, ToSet
  <2>. QED
    BY <2>1, <2>2, FS_Surjection
<1>. HIDE DEF S
<1>4. Cardinality(S) # 0
  BY <1>2, <1>3, FS_EmptySet
<1>. QED
  BY <1>2, <1>3, <1>4, Ascends DEF FeesOf, list, S

LEMMA MiddleList ==
    /\ Len(Intermediates) \in Nat /\ DOMAIN Intermediates = 1..Len(Intermediates)
    /\ \A k \in 1..Len(Intermediates) : Intermediates[k] \in Tokens \ {TokenIn, TokenOut}
    /\ \A j, k \in 1..Len(Intermediates) : Intermediates[j] = Intermediates[k] => j = k
    /\ \A t \in Tokens \ {TokenIn, TokenOut} :
          \E k \in 1..Len(Intermediates) : Intermediates[k] = t
<1>. DEFINE S == {i \in DOMAIN Order : Order[i] \notin {TokenIn, TokenOut}}
            kept == Ascending(S)
<1>1. Order \in Seq(Tokens) /\ IsInjective(Order) /\ ToSet(Order) = Tokens
  BY CandidatesAssumption
<1>2. S \in SUBSET Int /\ IsFiniteSet(S)
  <2>1. S \in SUBSET (1..Len(Order)) /\ IsFiniteSet(1..Len(Order))
    BY <1>1, FS_Interval
  <2>. QED
    BY <2>1, FS_Subset
<1>3. /\ \A i \in S : Order[i] \in Tokens \ {TokenIn, TokenOut} /\ i \in DOMAIN Order
      /\ \A i, j \in S : Order[i] = Order[j] => i = j
      /\ \A t \in Tokens \ {TokenIn, TokenOut} : \E i \in S : Order[i] = t
  BY <1>1 DEF IsInjective, ToSet
<1>4. Intermediates = [k \in DOMAIN kept |-> Order[kept[k]]]
  BY DEF Intermediates
<1>. HIDE DEF S
<1>5. /\ Cardinality(S) \in Nat /\ DOMAIN kept = 1..Cardinality(S)
      /\ \A k \in 1..Cardinality(S) : kept[k] \in S
      /\ \A j, k \in 1..Cardinality(S) : kept[j] = kept[k] => j = k
      /\ \A x \in S : \E k \in 1..Cardinality(S) : kept[k] = x
  BY <1>2, Ascends
<1>. HIDE DEF kept
<1>6. /\ DOMAIN Intermediates = 1..Cardinality(S) /\ Len(Intermediates) = Cardinality(S)
      /\ \A k \in 1..Cardinality(S) : Intermediates[k] = Order[kept[k]]
  BY <1>4, <1>5
<1>. QED
  BY <1>3, <1>5, <1>6

-----------------------------------------------------------------------------
(* The places of the iterator, and the order it goes through them.         *)

Place == [deployment : Nat, direct : Nat, middle : Nat, first : Nat, second : Nat]

(* The direct paths come with the other counters at their start; behind    *)
(* the last token in between so do the fees.                               *)
PlaceOK(p) ==
    /\ p \in Place
    /\ p.deployment >= 1
    /\ p.deployment \in DOMAIN Ids =>
          /\ p.direct \in 1..(Len(FeesOf(p.deployment)) + 1)
          /\ p.middle \in 1..(Len(Intermediates) + 1)
          /\ p.first \in 1..Len(FeesOf(p.deployment))
          /\ p.second \in 1..Len(FeesOf(p.deployment))
          /\ p.direct <= Len(FeesOf(p.deployment)) => p.middle = 1
          /\ (p.direct <= Len(FeesOf(p.deployment)) \/ p.middle > Len(Intermediates)) =>
                p.first = 1 /\ p.second = 1

(* A place with a path.                                                    *)
Live == {p \in Place : PlaceOK(p) /\ p.deployment \in DOMAIN Ids /\ ~UsedUp(p)}

Before(q, p) ==
    \/ q.deployment < p.deployment
    \/ /\ q.deployment = p.deployment
       /\ \/ q.direct < p.direct
          \/ /\ q.direct = p.direct
             /\ \/ q.middle < p.middle
                \/ /\ q.middle = p.middle
                   /\ \/ q.first < p.first
                      \/ q.first = p.first /\ q.second < p.second

LEMMA LiveBounds ==
    ASSUME NEW q \in Live
    PROVE  /\ q \in Place /\ q.deployment \in 1..Len(Ids) /\ q.deployment \in DOMAIN Ids
           /\ PlaceOK(q) /\ Fees(q) = FeesOf(q.deployment)
           /\ Len(FeesOf(q.deployment)) \in Nat \ {0} /\ Len(Intermediates) \in Nat
           /\ q.direct \in 1..(Len(FeesOf(q.deployment)) + 1)
           /\ q.middle \in 1..(Len(Intermediates) + 1)
           /\ q.first \in 1..Len(FeesOf(q.deployment))
           /\ q.second \in 1..Len(FeesOf(q.deployment))
           /\ q.direct <= Len(FeesOf(q.deployment)) =>
                 q.middle = 1 /\ q.first = 1 /\ q.second = 1
           /\ q.direct > Len(FeesOf(q.deployment)) => q.middle <= Len(Intermediates)
<1>1. Ids \in Seq(DOMAIN Configured)
  BY CandidatesAssumption
<1>2. DOMAIN Ids = 1..Len(Ids) /\ Len(Ids) \in Nat
  BY <1>1
<1>3. Fees(q) = FeesOf(q.deployment)
  BY DEF Fees, FeesOf
<1>4. q \in Place /\ PlaceOK(q) /\ q.deployment \in DOMAIN Ids /\ ~UsedUp(q)
  BY DEF Live
<1>5. Len(FeesOf(q.deployment)) \in Nat \ {0}
  BY <1>4, FeesList
<1>6. Len(Intermediates) \in Nat
  BY MiddleList
<1>. QED
  BY <1>2, <1>3, <1>4, <1>5, <1>6 DEF PlaceOK, UsedUp, Place

LEMMA LivePositive ==
    ASSUME NEW q \in Live
    PROVE  /\ q \in Place
           /\ q.deployment \in Nat /\ q.direct \in Nat \ {0} /\ q.middle \in Nat \ {0}
           /\ q.first \in Nat \ {0} /\ q.second \in Nat \ {0}
<1>. DEFINE n == Len(FeesOf(q.deployment))
            k == Len(Intermediates)
<1>1. /\ q \in Place /\ n \in Nat /\ k \in Nat
      /\ q.direct \in 1..(n + 1) /\ q.middle \in 1..(k + 1) /\ q.first \in 1..n /\ q.second \in 1..n
  BY LiveBounds
<1>2. q.deployment \in Nat
  BY <1>1 DEF Place
<1>. HIDE DEF n, k
<1>. QED
  BY <1>1, <1>2

LEMMA PlacesEqual ==
    ASSUME NEW p \in Place, NEW q \in Place, p.deployment = q.deployment, p.direct = q.direct,
           p.middle = q.middle, p.first = q.first, p.second = q.second
    PROVE  p = q
BY DEF Place

(* Settling goes past a place without a path, and past nothing else.       *)
LEMMA SettledPlace ==
    ASSUME NEW p, PlaceOK(p)
    PROVE  /\ PlaceOK(Settled(p))
           /\ Settled(p).deployment \in DOMAIN Ids => Settled(p) \in Live
           /\ \A q \in Live : Before(q, Settled(p)) <=> Before(q, p)
           /\ Settled(p).deployment > Len(Ids) => \A q \in Live : Before(q, p)
<1>. DEFINE nf == Len(FeesOf(p.deployment))
            nm == Len(Intermediates)
<1>1. DOMAIN Ids = 1..Len(Ids) /\ Len(Ids) \in Nat
  <2>1. Ids \in Seq(DOMAIN Configured)
    BY CandidatesAssumption
  <2>. QED
    BY <2>1
<1>2. p \in Place /\ p.deployment \in Nat \ {0} /\ p.direct \in Nat /\ p.middle \in Nat
      /\ p.first \in Nat /\ p.second \in Nat
  BY DEF PlaceOK, Place
<1>3. Fees(p) = FeesOf(p.deployment)
  BY DEF Fees, FeesOf
<1>4. nm \in Nat
  BY MiddleList
<1>5. CASE p.deployment \in DOMAIN Ids /\ UsedUp(p)
  <2>1. Settled(p) = Start(p.deployment + 1)
    BY <1>5 DEF Settled
  <2>2. PICK r : r = Start(p.deployment + 1)
    OBVIOUS
  <2>3. /\ r \in Place /\ r.deployment = p.deployment + 1
        /\ r.direct = 1 /\ r.middle = 1 /\ r.first = 1 /\ r.second = 1
    BY <1>2, <2>2 DEF Start, Place
  <2>4. PlaceOK(r) /\ (r.deployment \in DOMAIN Ids => r \in Live)
    <3>1. CASE r.deployment \in DOMAIN Ids
      <4>1. Len(FeesOf(r.deployment)) \in Nat \ {0} /\ Fees(r) = FeesOf(r.deployment)
        BY <3>1, FeesList DEF Fees, FeesOf
      <4>2. PlaceOK(r)
        BY <1>2, <1>4, <2>3, <4>1 DEF PlaceOK
      <4>3. ~UsedUp(r)
        BY <2>3, <4>1 DEF UsedUp
      <4>. QED
        BY <2>3, <3>1, <4>2, <4>3 DEF Live
    <3>2. CASE r.deployment \notin DOMAIN Ids
      BY <1>2, <2>3, <3>2 DEF PlaceOK
    <3>. QED
      BY <3>1, <3>2
  <2>5. nf \in Nat \ {0} /\ p.direct = nf + 1 /\ p.middle = nm + 1 /\ p.first = 1 /\ p.second = 1
    <3>1. nf \in Nat \ {0}
      BY <1>5, FeesList
    <3>2. p.direct > nf /\ p.middle > nm
      BY <1>3, <1>5 DEF UsedUp
    <3>. QED
      BY <1>2, <1>4, <1>5, <3>1, <3>2 DEF PlaceOK
  <2>6. ASSUME NEW q \in Live PROVE Before(q, r) <=> Before(q, p)
    <3>1. /\ q.deployment \in Nat /\ q.direct \in Nat \ {0} /\ q.middle \in Nat \ {0}
          /\ q.first \in Nat \ {0} /\ q.second \in Nat \ {0}
      BY LivePositive
    <3>2. q.deployment = p.deployment => q.direct <= nf \/ (q.direct = nf + 1 /\ q.middle <= nm)
      BY <2>5, LiveBounds
    <3>. HIDE DEF nf, nm
    <3>. QED
      BY <1>2, <1>4, <2>3, <2>5, <3>1, <3>2 DEF Before
  <2>7. r.deployment > Len(Ids) => \A q \in Live : Before(q, r)
    BY <1>1, <1>2, <2>3, LiveBounds DEF Before
  <2>. QED
    BY <2>1, <2>2, <2>4, <2>6, <2>7
<1>6. CASE ~(p.deployment \in DOMAIN Ids /\ UsedUp(p))
  <2>1. Settled(p) = p
    BY <1>6 DEF Settled
  <2>2. p.deployment \in DOMAIN Ids => p \in Live
    BY <1>2, <1>6 DEF Live
  <2>3. p.deployment > Len(Ids) => \A q \in Live : Before(q, p)
    BY <1>1, <1>2, LiveBounds DEF Before
  <2>. QED
    BY <2>1, <2>2, <2>3
<1>. QED
  BY <1>5, <1>6

(* The place after one with a path is the next one: nothing is between.    *)
LEMMA AfterPlace ==
    ASSUME NEW p \in Live
    PROVE  /\ PlaceOK(After(p))
           /\ \A q \in Live : Before(q, After(p)) <=> (Before(q, p) \/ q = p)
<1>. DEFINE nf == Len(FeesOf(p.deployment))
            nm == Len(Intermediates)
<1>1. /\ p \in Place /\ p.deployment \in Nat \ {0} /\ p.deployment \in DOMAIN Ids
      /\ Fees(p) = FeesOf(p.deployment) /\ nf \in Nat \ {0} /\ nm \in Nat
      /\ p.direct \in 1..(nf + 1) /\ p.middle \in 1..(nm + 1)
      /\ p.first \in 1..nf /\ p.second \in 1..nf
      /\ p.direct <= nf => p.middle = 1 /\ p.first = 1 /\ p.second = 1
      /\ p.direct > nf => p.middle <= nm
  BY LiveBounds DEF Place
<1>2. PICK r : r = After(p)
  OBVIOUS
<1>3. r \in Place /\ r.deployment = p.deployment
  <2>1. /\ p \in [deployment : Nat, direct : Nat, middle : Nat, first : Nat, second : Nat]
        /\ p.direct + 1 \in Nat /\ p.second + 1 \in Nat
        /\ p.first + 1 \in Nat /\ p.middle + 1 \in Nat
    <3>. HIDE DEF nf, nm
    <3>. QED
      BY <1>1 DEF Place
  <2>2. CASE p.direct <= nf
    BY <1>1, <1>2, <2>1, <2>2 DEF After, Place
  <2>3. CASE ~(p.direct <= nf) /\ p.second < nf
    BY <1>1, <1>2, <2>1, <2>3 DEF After, Place
  <2>4. CASE ~(p.direct <= nf) /\ ~(p.second < nf) /\ p.first < nf
    BY <1>1, <1>2, <2>1, <2>4 DEF After, Place
  <2>5. CASE ~(p.direct <= nf) /\ ~(p.second < nf) /\ ~(p.first < nf)
    BY <1>1, <1>2, <2>1, <2>5 DEF After, Place
  <2>. QED
    BY <2>2, <2>3, <2>4, <2>5
<1>4. \/ /\ p.direct <= nf /\ r.direct = p.direct + 1
         /\ r.middle = p.middle /\ r.first = p.first /\ r.second = p.second
      \/ /\ p.direct > nf /\ r.direct = p.direct /\ r.middle = p.middle /\ r.first = p.first
         /\ p.second < nf /\ r.second = p.second + 1
      \/ /\ p.direct > nf /\ r.direct = p.direct /\ r.middle = p.middle
         /\ p.second = nf /\ p.first < nf /\ r.first = p.first + 1 /\ r.second = 1
      \/ /\ p.direct > nf /\ r.direct = p.direct /\ r.middle = p.middle + 1
         /\ p.second = nf /\ p.first = nf /\ r.first = 1 /\ r.second = 1
  BY <1>1, <1>2 DEF After, Place
<1>5. PlaceOK(r)
  <2>1. /\ r.direct \in 1..(nf + 1) /\ r.middle \in 1..(nm + 1)
        /\ r.first \in 1..nf /\ r.second \in 1..nf
        /\ r.direct <= nf => r.middle = 1
        /\ (r.direct <= nf \/ r.middle > nm) => r.first = 1 /\ r.second = 1
    <3>. HIDE DEF nf, nm
    <3>. QED
      BY <1>1, <1>4
  <2>. QED
    BY <1>1, <1>3, <2>1 DEF PlaceOK
<1>6. ASSUME NEW q \in Live
      PROVE  Before(q, r) <=> (Before(q, p) \/ q = p)
  <2>1. /\ q \in Place
        /\ q.deployment \in Nat /\ q.direct \in Nat \ {0} /\ q.middle \in Nat \ {0}
        /\ q.first \in Nat \ {0} /\ q.second \in Nat \ {0}
    BY LivePositive
  <2>2. q.deployment = p.deployment =>
           /\ q.first <= nf /\ q.second <= nf
           /\ q.direct <= nf => q.middle = 1 /\ q.first = 1 /\ q.second = 1
    BY LiveBounds
  <2>3. q = p <=> /\ q.deployment = p.deployment /\ q.direct = p.direct /\ q.middle = p.middle
                  /\ q.first = p.first /\ q.second = p.second
    BY <1>1, <2>1, PlacesEqual
  <2>. DEFINE same == /\ q.deployment = p.deployment /\ q.direct = p.direct
                      /\ q.middle = p.middle /\ q.first = p.first /\ q.second = p.second
  <2>4. Before(q, r) <=> (Before(q, p) \/ same)
    <3>. HIDE DEF nf, nm
    <3>1. CASE q.deployment # p.deployment
      BY <1>1, <1>3, <2>1, <3>1 DEF Before
    <3>2. CASE q.deployment = p.deployment
      <4>1. CASE p.direct <= nf
        BY <1>1, <1>3, <1>4, <2>1, <2>2, <3>2, <4>1 DEF Before
      <4>2. CASE p.direct > nf
        BY <1>1, <1>3, <1>4, <2>1, <2>2, <3>2, <4>2 DEF Before
      <4>. QED
        BY <1>1, <4>1, <4>2
    <3>. QED
      BY <3>1, <3>2
  <2>. QED
    BY <2>3, <2>4
<1>. QED
  BY <1>2, <1>5, <1>6

(* Every place has a path of its own.                                      *)
LEMMA PathOfPlace ==
    ASSUME NEW p \in Live
    PROVE  /\ Candidate(p).id = Ids[p.deployment]
           /\ p.direct <= Len(FeesOf(p.deployment)) =>
                 /\ Candidate(p).tokens = <<TokenIn, TokenOut>>
                 /\ Candidate(p).fees = <<FeesOf(p.deployment)[p.direct]>>
           /\ p.direct > Len(FeesOf(p.deployment)) =>
                 /\ Candidate(p).tokens = <<TokenIn, Intermediates[p.middle], TokenOut>>
                 /\ Candidate(p).fees = <<FeesOf(p.deployment)[p.first],
                                          FeesOf(p.deployment)[p.second]>>
<1>1. Fees(p) = FeesOf(p.deployment)
  BY LiveBounds
<1>2. Candidate(p).id = Ids[p.deployment]
  BY DEF Candidate
<1>3. ASSUME p.direct <= Len(FeesOf(p.deployment))
      PROVE  /\ Candidate(p).tokens = <<TokenIn, TokenOut>>
             /\ Candidate(p).fees = <<FeesOf(p.deployment)[p.direct]>>
  BY <1>1, <1>3 DEF Candidate
<1>4. ASSUME p.direct > Len(FeesOf(p.deployment))
      PROVE  /\ Candidate(p).tokens = <<TokenIn, Intermediates[p.middle], TokenOut>>
             /\ Candidate(p).fees = <<FeesOf(p.deployment)[p.first],
                                      FeesOf(p.deployment)[p.second]>>
  <2>1. p.direct \in Nat /\ Len(FeesOf(p.deployment)) \in Nat
    BY LiveBounds, LivePositive
  <2>2. ~(p.direct <= Len(FeesOf(p.deployment)))
    BY <1>4, <2>1
  <2>. QED
    BY <1>1, <2>2 DEF Candidate
<1>. QED
  BY <1>2, <1>3, <1>4

LEMMA IdsDiffer ==
    ASSUME NEW i \in DOMAIN Ids, NEW j \in DOMAIN Ids, Ids[i] = Ids[j]
    PROVE  i = j
BY CandidatesAssumption DEF IsInjective

LEMMA PathsDiffer ==
    ASSUME NEW p \in Live, NEW q \in Live, Candidate(p) = Candidate(q)
    PROVE  p = q
<1>. DEFINE nf == Len(FeesOf(p.deployment))
<1>1. /\ p \in Place /\ p.deployment \in DOMAIN Ids /\ nf \in Nat \ {0}
      /\ p.direct \in 1..(nf + 1) /\ p.middle \in 1..(Len(Intermediates) + 1)
      /\ p.first \in 1..nf /\ p.second \in 1..nf
      /\ p.direct <= nf => p.middle = 1 /\ p.first = 1 /\ p.second = 1
      /\ p.direct > nf => p.middle <= Len(Intermediates)
  BY LiveBounds
<1>2. p.deployment = q.deployment
  <2>1. Ids[p.deployment] = Ids[q.deployment]
    BY PathOfPlace
  <2>. QED
    BY <2>1, LiveBounds, IdsDiffer
<1>3. /\ q \in Place
      /\ q.direct \in 1..(nf + 1) /\ q.middle \in 1..(Len(Intermediates) + 1)
      /\ q.first \in 1..nf /\ q.second \in 1..nf
      /\ q.direct <= nf => q.middle = 1 /\ q.first = 1 /\ q.second = 1
      /\ q.direct > nf => q.middle <= Len(Intermediates)
  BY <1>2, LiveBounds
<1>4. \A j, k \in 1..nf : FeesOf(p.deployment)[j] = FeesOf(p.deployment)[k] => j = k
  BY <1>1, FeesList
<1>5. Candidate(p).fees = Candidate(q).fees /\ Candidate(p).tokens = Candidate(q).tokens
  OBVIOUS
<1>6. CASE p.direct <= nf
  <2>1. Candidate(p).fees = <<FeesOf(p.deployment)[p.direct]>>
    BY <1>6, PathOfPlace
  <2>2. q.direct <= nf
    <3>1. SUFFICES ASSUME ~(q.direct <= nf) PROVE FALSE
      OBVIOUS
    <3>2. q.direct > Len(FeesOf(q.deployment))
      BY <1>1, <1>2, <1>3, <3>1
    <3>3. Candidate(q).fees = <<FeesOf(q.deployment)[q.first], FeesOf(q.deployment)[q.second]>>
      BY <3>2, PathOfPlace
    <3>. QED
      BY <1>5, <2>1, <3>3
  <2>3. Candidate(q).fees = <<FeesOf(p.deployment)[q.direct]>>
    BY <1>2, <2>2, PathOfPlace
  <2>4. FeesOf(p.deployment)[p.direct] = FeesOf(p.deployment)[q.direct]
    BY <1>5, <2>1, <2>3
  <2>5. p.direct = q.direct
    BY <1>1, <1>3, <1>4, <1>6, <2>2, <2>4
  <2>. QED
    BY <1>1, <1>2, <1>3, <1>6, <2>2, <2>5, PlacesEqual
<1>7. CASE ~(p.direct <= nf)
  <2>1. /\ Candidate(p).fees = <<FeesOf(p.deployment)[p.first], FeesOf(p.deployment)[p.second]>>
        /\ Candidate(p).tokens = <<TokenIn, Intermediates[p.middle], TokenOut>>
    <3>1. p.direct > Len(FeesOf(p.deployment))
      BY <1>1, <1>7
    <3>. QED
      BY <3>1, PathOfPlace
  <2>2. ~(q.direct <= nf)
    <3>1. SUFFICES ASSUME q.direct <= nf PROVE FALSE
      OBVIOUS
    <3>2. Candidate(q).fees = <<FeesOf(q.deployment)[q.direct]>>
      BY <1>2, <3>1, PathOfPlace
    <3>. QED
      BY <1>5, <2>1, <3>2
  <2>3. /\ Candidate(q).fees = <<FeesOf(p.deployment)[q.first], FeesOf(p.deployment)[q.second]>>
        /\ Candidate(q).tokens = <<TokenIn, Intermediates[q.middle], TokenOut>>
    <3>1. q.direct > Len(FeesOf(q.deployment))
      BY <1>1, <1>2, <1>3, <2>2
    <3>. QED
      BY <1>2, <3>1, PathOfPlace
  <2>4. /\ FeesOf(p.deployment)[p.first] = FeesOf(p.deployment)[q.first]
        /\ FeesOf(p.deployment)[p.second] = FeesOf(p.deployment)[q.second]
        /\ Intermediates[p.middle] = Intermediates[q.middle]
    BY <1>5, <2>1, <2>3
  <2>5. p.first = q.first /\ p.second = q.second
    BY <1>1, <1>3, <1>4, <2>4
  <2>6. p.middle \in 1..Len(Intermediates) /\ q.middle \in 1..Len(Intermediates)
    BY <1>1, <1>3, <1>7, <2>2, MiddleList
  <2>7. p.middle = q.middle
    BY <2>4, <2>6, MiddleList
  <2>8. p.direct = q.direct
    BY <1>1, <1>3, <1>7, <2>2
  <2>. QED
    BY <1>1, <1>2, <1>3, <2>5, <2>7, <2>8, PlacesEqual
<1>. QED
  BY <1>6, <1>7

DirectPath(id, f) == [id |-> id, tokens |-> <<TokenIn, TokenOut>>, fees |-> <<f>>]
LongPath(id, t, f, g) ==
    [id |-> id, tokens |-> <<TokenIn, t, TokenOut>>, fees |-> <<f, g>>]

LEMMA PathKindsOf ==
    ASSUME NEW x
    PROVE  x \in AllPaths <=>
              \E d \in DOMAIN Ids :
                 \/ \E f \in ToSet(Configured[Ids[d]].selectors) : x = DirectPath(Ids[d], f)
                 \/ \E t \in Tokens \ {TokenIn, TokenOut},
                       f, g \in ToSet(Configured[Ids[d]].selectors) :
                       x = LongPath(Ids[d], t, f, g)
<1>. DEFINE Of(id) ==
                LET fees == ToSet(Configured[id].selectors)
                IN  {[id |-> id, tokens |-> <<TokenIn, TokenOut>>, fees |-> <<f>>] : f \in fees}
                    \cup {[id |-> id, tokens |-> <<TokenIn, m, TokenOut>>, fees |-> <<f, g>>] :
                        m \in Tokens \ {TokenIn, TokenOut}, f \in fees, g \in fees}
<1>1. AllPaths = UNION {Of(id) : id \in ToSet(Ids)}
  BY DEF AllPaths
<1>2. ASSUME NEW id
      PROVE  x \in Of(id) <=>
                \/ \E f \in ToSet(Configured[id].selectors) : x = DirectPath(id, f)
                \/ \E t \in Tokens \ {TokenIn, TokenOut},
                      f, g \in ToSet(Configured[id].selectors) : x = LongPath(id, t, f, g)
  BY DEF DirectPath, LongPath
<1>. HIDE DEF Of
<1>3. x \in AllPaths <=> \E id \in ToSet(Ids) : x \in Of(id)
  BY <1>1
<1>4. \A id : id \in ToSet(Ids) <=> \E d \in DOMAIN Ids : Ids[d] = id
  BY DEF ToSet
<1>5. x \in AllPaths <=> \E d \in DOMAIN Ids : x \in Of(Ids[d])
  BY <1>3, <1>4
<1>. QED
  BY <1>2, <1>5

LEMMA PathParts ==
    ASSUME NEW p \in Live
    PROVE  /\ DOMAIN Candidate(p) = {"id", "tokens", "fees"}
           /\ p.direct <= Len(FeesOf(p.deployment)) =>
                 Candidate(p) = DirectPath(Ids[p.deployment], FeesOf(p.deployment)[p.direct])
           /\ p.direct > Len(FeesOf(p.deployment)) =>
                 Candidate(p) = LongPath(Ids[p.deployment], Intermediates[p.middle],
                                         FeesOf(p.deployment)[p.first],
                                         FeesOf(p.deployment)[p.second])
<1>1. Fees(p) = FeesOf(p.deployment)
  BY LiveBounds
<1>2. p.direct > Len(FeesOf(p.deployment)) => ~(p.direct <= Len(FeesOf(p.deployment)))
  BY LiveBounds, LivePositive
<1>. QED
  BY <1>1, <1>2 DEF Candidate, DirectPath, LongPath

(* The places have every path there is.                                    *)
LEMMA PathsArePlaces ==
    ASSUME NEW x
    PROVE  x \in AllPaths <=> \E p \in Live : x = Candidate(p)
<1>1. ASSUME NEW p \in Live PROVE Candidate(p) \in AllPaths
  <2>. DEFINE nf == Len(FeesOf(p.deployment))
  <2>1. /\ p.deployment \in DOMAIN Ids /\ nf \in Nat \ {0} /\ p.direct \in 1..(nf + 1)
        /\ p.middle \in Nat \ {0} /\ p.first \in 1..nf /\ p.second \in 1..nf
    BY LiveBounds, LivePositive
  <2>2. \A k \in 1..nf : FeesOf(p.deployment)[k] \in ToSet(Configured[Ids[p.deployment]].selectors)
    BY <2>1, FeesList
  <2>3. CASE p.direct <= nf
    <3>1. p.direct \in 1..nf
      BY <2>1, <2>3
    <3>. QED
      BY <2>1, <2>2, <2>3, <3>1, PathKindsOf, PathParts
  <2>4. CASE p.direct > nf
    <3>1. p.middle \in 1..Len(Intermediates)
      BY <2>1, <2>4, LiveBounds
    <3>2. Intermediates[p.middle] \in Tokens \ {TokenIn, TokenOut}
      BY <3>1, MiddleList
    <3>. QED
      BY <2>1, <2>2, <2>4, <3>2, PathKindsOf, PathParts
  <2>. QED
    BY <2>1, <2>3, <2>4
<1>2. ASSUME NEW d \in DOMAIN Ids, NEW p \in Place, p.deployment = d,
             p.direct \in 1..(Len(FeesOf(d)) + 1), p.middle \in 1..(Len(Intermediates) + 1),
             p.first \in 1..Len(FeesOf(d)), p.second \in 1..Len(FeesOf(d)),
             \/ p.direct <= Len(FeesOf(d)) /\ p.middle = 1 /\ p.first = 1 /\ p.second = 1
             \/ p.direct > Len(FeesOf(d)) /\ p.middle <= Len(Intermediates)
      PROVE  p \in Live
  <2>1. Fees(p) = FeesOf(d) /\ Len(FeesOf(d)) \in Nat \ {0} /\ Len(Intermediates) \in Nat
    BY <1>2, FeesList, MiddleList DEF Fees, FeesOf
  <2>2. d >= 1
    <3>1. Ids \in Seq(DOMAIN Configured)
      BY CandidatesAssumption
    <3>. QED
      BY <3>1
  <2>3. PlaceOK(p)
    BY <1>2, <2>1, <2>2 DEF PlaceOK
  <2>4. ~UsedUp(p)
    BY <1>2, <2>1 DEF UsedUp
  <2>. QED
    BY <1>2, <2>3, <2>4 DEF Live
<1>3. ASSUME NEW d \in DOMAIN Ids, NEW f \in ToSet(Configured[Ids[d]].selectors),
             x = DirectPath(Ids[d], f)
      PROVE  \E p \in Live : x = Candidate(p)
  <2>1. PICK k \in 1..Len(FeesOf(d)) : FeesOf(d)[k] = f
    BY FeesList
  <2>2. PICK p : p = [deployment |-> d, direct |-> k, middle |-> 1, first |-> 1, second |-> 1]
    OBVIOUS
  <2>3. /\ p.deployment = d /\ p.direct = k /\ p.middle = 1 /\ p.first = 1 /\ p.second = 1
        /\ d \in Nat /\ k \in Nat
    <3>1. Ids \in Seq(DOMAIN Configured)
      BY CandidatesAssumption
    <3>. QED
      BY <2>1, <2>2, <3>1
  <2>4. p \in Place
    BY <2>2, <2>3 DEF Place
  <2>5. Len(FeesOf(d)) \in Nat \ {0} /\ Len(Intermediates) \in Nat
    BY FeesList, MiddleList
  <2>6. p \in Live
    BY <1>2, <2>1, <2>3, <2>4, <2>5
  <2>7. p.direct <= Len(FeesOf(p.deployment))
    BY <2>1, <2>3, <2>5
  <2>. QED
    BY <1>3, <2>1, <2>3, <2>6, <2>7, PathParts
<1>4. ASSUME NEW d \in DOMAIN Ids, NEW t \in Tokens \ {TokenIn, TokenOut},
             NEW f \in ToSet(Configured[Ids[d]].selectors),
             NEW g \in ToSet(Configured[Ids[d]].selectors), x = LongPath(Ids[d], t, f, g)
      PROVE  \E p \in Live : x = Candidate(p)
  <2>1. PICK j \in 1..Len(FeesOf(d)) : FeesOf(d)[j] = f
    BY FeesList
  <2>2. PICK k \in 1..Len(FeesOf(d)) : FeesOf(d)[k] = g
    BY FeesList
  <2>3. PICK m \in 1..Len(Intermediates) : Intermediates[m] = t
    BY MiddleList
  <2>4. Len(FeesOf(d)) \in Nat \ {0} /\ Len(Intermediates) \in Nat
    BY FeesList, MiddleList
  <2>5. PICK p : p = [deployment |-> d, direct |-> Len(FeesOf(d)) + 1, middle |-> m,
                      first |-> j, second |-> k]
    OBVIOUS
  <2>6. /\ p.deployment = d /\ p.direct = Len(FeesOf(d)) + 1 /\ p.middle = m
        /\ p.first = j /\ p.second = k
        /\ d \in Nat /\ m \in Nat /\ j \in Nat /\ k \in Nat
    <3>1. Ids \in Seq(DOMAIN Configured)
      BY CandidatesAssumption
    <3>. QED
      BY <2>1, <2>2, <2>3, <2>4, <2>5, <3>1
  <2>7. p \in Place
    BY <2>4, <2>5, <2>6 DEF Place
  <2>8. p.direct > Len(FeesOf(p.deployment))
    BY <2>4, <2>6
  <2>9. p \in Live
    BY <1>2, <2>1, <2>2, <2>3, <2>4, <2>6, <2>7, <2>8
  <2>. QED
    BY <1>4, <2>1, <2>2, <2>3, <2>6, <2>8, <2>9, PathParts
<1>. QED
  BY <1>1, <1>3, <1>4, PathKindsOf

-----------------------------------------------------------------------------
(* What has been handed out are the paths of the places behind the         *)
(* iterator, each of them once.                                            *)
CandidateInv ==
    /\ PlaceOK(at)
    /\ IsSeq(taken)
    /\ \A i \in DOMAIN taken : \E p \in Live : Before(p, at) /\ taken[i] = Candidate(p)
    /\ \A p \in Live : Before(p, at) => \E i \in DOMAIN taken : taken[i] = Candidate(p)
    /\ IsInjective(taken)
    /\ \A i, j \in DOMAIN taken :
          (i < j /\ taken[i].id = taken[j].id) => Len(taken[i].fees) <= Len(taken[j].fees)

LEMMA StartIsPlace == ASSUME NEW d \in Nat \ {0} PROVE PlaceOK(Start(d))
<1>1. PICK r : r = Start(d)
  OBVIOUS
<1>2. /\ r \in Place /\ r.deployment = d
      /\ r.direct = 1 /\ r.middle = 1 /\ r.first = 1 /\ r.second = 1
  BY <1>1 DEF Start, Place
<1>3. CASE d \in DOMAIN Ids
  <2>1. Len(FeesOf(d)) \in Nat \ {0} /\ Len(Intermediates) \in Nat
    BY <1>3, FeesList, MiddleList
  <2>. QED
    BY <1>1, <1>2, <2>1 DEF PlaceOK
<1>4. CASE d \notin DOMAIN Ids
  BY <1>1, <1>2, <1>4 DEF PlaceOK
<1>. QED
  BY <1>3, <1>4

LEMMA CandidateBegins == Begin => CandidateInv
<1>1. SUFFICES ASSUME Begin PROVE CandidateInv
  OBVIOUS
<1>2. at = Start(1) /\ taken = <<>>
  BY <1>1 DEF Begin
<1>3. PlaceOK(at)
  BY <1>2, StartIsPlace
<1>4. IsSeq(taken) /\ DOMAIN taken = {}
  BY <1>2 DEF IsSeq
<1>5. ASSUME NEW p \in Live PROVE ~Before(p, at)
  <2>1. /\ at.deployment = 1 /\ at.direct = 1 /\ at.middle = 1 /\ at.first = 1 /\ at.second = 1
    BY <1>2 DEF Start
  <2>2. p.deployment \in 1..Len(Ids) /\ Len(Ids) \in Nat
    <3>1. Ids \in Seq(DOMAIN Configured)
      BY CandidatesAssumption
    <3>. QED
      BY <3>1, LiveBounds
  <2>. QED
    BY <2>1, <2>2, LivePositive DEF Before
<1>6. IsInjective(taken)
  BY <1>4 DEF IsInjective
<1>. QED
  BY <1>3, <1>4, <1>5, <1>6 DEF CandidateInv

(* Two paths of one deployment are in the order of their lengths when      *)
(* their places are.                                                       *)
LEMMA LengthsInOrder ==
    ASSUME NEW p \in Live, NEW q \in Live, Before(p, q), Candidate(p).id = Candidate(q).id
    PROVE  Len(Candidate(p).fees) <= Len(Candidate(q).fees)
<1>. DEFINE nf == Len(FeesOf(p.deployment))
<1>1. p.deployment = q.deployment
  <2>1. Ids[p.deployment] = Ids[q.deployment]
    BY PathOfPlace
  <2>. QED
    BY <2>1, LiveBounds, IdsDiffer
<1>2. nf \in Nat /\ p.direct \in Nat /\ q.direct \in Nat
  BY LiveBounds, LivePositive
<1>3. p.deployment \in Nat
  BY LivePositive
<1>4. p.direct <= q.direct
  BY <1>1, <1>2, <1>3 DEF Before
<1>5. ASSUME NEW x, NEW y PROVE Len(<<x>>) = 1 /\ Len(<<x, y>>) = 2
  OBVIOUS
<1>6. p.direct <= nf => Len(Candidate(p).fees) = 1
  BY <1>5, PathOfPlace
<1>7. q.direct <= nf => Len(Candidate(q).fees) = 1
  BY <1>1, <1>5, PathOfPlace
<1>8. q.direct > nf => Len(Candidate(q).fees) = 2
  BY <1>1, <1>5, PathOfPlace
<1>9. p.direct > nf => Len(Candidate(p).fees) = 2
  BY <1>5, PathOfPlace
<1>10. PICK k, m : k = Len(Candidate(p).fees) /\ m = Len(Candidate(q).fees)
  OBVIOUS
<1>11. k \in {1, 2} /\ m \in {1, 2} /\ (k = 2 => m = 2)
  <2>1. (p.direct <= nf \/ p.direct > nf) /\ (q.direct <= nf \/ q.direct > nf)
        /\ (p.direct > nf => q.direct > nf)
    <3>. HIDE DEF nf
    <3>. QED
      BY <1>2, <1>4
  <2>. HIDE DEF nf
  <2>. QED
    BY <1>6, <1>7, <1>8, <1>9, <1>10, <2>1
<1>12. k <= m
  BY <1>11
<1>. QED
  BY <1>10, <1>12, Zenon

LEMMA NotBeforeItself == ASSUME NEW p \in Live PROVE ~Before(p, p)
BY LivePositive DEF Before

LEMMA TakeKeepsCandidates == CandidateInv /\ Take => CandidateInv'
<1>1. SUFFICES ASSUME CandidateInv, Take PROVE CandidateInv'
  OBVIOUS
<1>2. PICK p : p = Settled(at)
  OBVIOUS
<1>3. PICK c : c = Candidate(p)
  OBVIOUS
<1>4. taken' = Append(taken, c) /\ at' = After(p) /\ ~(p.deployment > Len(Ids))
  BY <1>1, <1>2, <1>3 DEF Take, Exhausted
<1>5. PlaceOK(p) /\ \A q \in Live : Before(q, p) <=> Before(q, at)
  BY <1>1, <1>2, SettledPlace DEF CandidateInv
<1>6. p \in Live
  <2>1. Ids \in Seq(DOMAIN Configured)
    BY CandidatesAssumption
  <2>2. p.deployment \in DOMAIN Ids
    BY <1>4, <1>5, <2>1 DEF PlaceOK, Place
  <2>. QED
    BY <1>1, <1>2, <2>2, SettledPlace DEF CandidateInv
<1>7. PlaceOK(at') /\ \A q \in Live : Before(q, at') <=> (Before(q, at) \/ q = p)
  BY <1>4, <1>5, <1>6, AfterPlace
<1>8. PICK S : taken \in Seq(S)
  BY <1>1 DEF CandidateInv, IsSeq
<1>9. taken' \in Seq(S \cup {c})
  BY <1>4, <1>8
<1>. DEFINE n == Len(taken)
<1>10. /\ n \in Nat /\ DOMAIN taken = 1..n /\ DOMAIN taken' = 1..(n + 1)
       /\ \A i \in 1..n : taken'[i] = taken[i]
       /\ taken'[n + 1] = c
  BY <1>4, <1>8
<1>. HIDE DEF n
<1>11. \A i \in 1..(n + 1) : i \in 1..n \/ i = n + 1
  BY <1>10
<1>12. \A i \in 1..n : \E q \in Live : Before(q, at) /\ taken[i] = Candidate(q)
  BY <1>1, <1>10 DEF CandidateInv
<1>13. \A q \in Live : Before(q, at) => \E i \in 1..n : taken[i] = Candidate(q)
  BY <1>1, <1>10 DEF CandidateInv
<1>14. ~Before(p, at)
  BY <1>5, <1>6, NotBeforeItself
<1>15. \A i \in 1..n : taken[i] # c
  BY <1>3, <1>6, <1>12, <1>14, PathsDiffer
<1>16. \A i \in DOMAIN taken' : \E q \in Live : Before(q, at') /\ taken'[i] = Candidate(q)
  <2>1. ASSUME NEW i \in 1..n
        PROVE  \E q \in Live : Before(q, at') /\ taken'[i] = Candidate(q)
    BY <1>7, <1>10, <1>12
  <2>2. Before(p, at') /\ taken'[n + 1] = Candidate(p)
    BY <1>3, <1>6, <1>7, <1>10
  <2>. QED
    BY <1>6, <1>10, <1>11, <2>1, <2>2
<1>17. \A q \in Live : Before(q, at') => \E i \in DOMAIN taken' : taken'[i] = Candidate(q)
  <2>1. \A i \in 1..n : i \in DOMAIN taken'
    BY <1>10
  <2>2. n + 1 \in DOMAIN taken'
    BY <1>10
  <2>. QED
    BY <1>3, <1>7, <1>10, <1>13, <2>1, <2>2
<1>18. IsInjective(taken')
  <2>1. \A i, j \in 1..n : taken[i] = taken[j] => i = j
    BY <1>1, <1>10 DEF CandidateInv, IsInjective
  <2>2. ASSUME NEW i \in 1..(n + 1), NEW j \in 1..(n + 1), taken'[i] = taken'[j]
        PROVE  i = j
    BY <1>10, <1>11, <1>15, <2>1, <2>2
  <2>. QED
    BY <1>10, <2>2 DEF IsInjective
<1>19. \A i, j \in DOMAIN taken' :
          (i < j /\ taken'[i].id = taken'[j].id) => Len(taken'[i].fees) <= Len(taken'[j].fees)
  <2>1. SUFFICES ASSUME NEW i \in 1..(n + 1), NEW j \in 1..(n + 1), i < j,
                        taken'[i].id = taken'[j].id
                 PROVE  Len(taken'[i].fees) <= Len(taken'[j].fees)
    BY <1>10
  <2>2. i \in 1..n
    BY <1>10, <2>1
  <2>3. CASE j \in 1..n
    <3>1. taken[i].id = taken[j].id
      BY <1>10, <2>1, <2>2, <2>3
    <3>2. Len(taken[i].fees) <= Len(taken[j].fees)
      BY <1>1, <1>10, <2>1, <2>2, <2>3, <3>1 DEF CandidateInv
    <3>. QED
      BY <1>10, <2>2, <2>3, <3>2
  <2>4. CASE j = n + 1
    <3>1. PICK q \in Live : Before(q, at) /\ taken[i] = Candidate(q)
      BY <1>12, <2>2
    <3>2. Before(q, p)
      BY <1>5, <3>1
    <3>3. taken'[i] = Candidate(q) /\ taken'[j] = Candidate(p)
      BY <1>3, <1>10, <2>2, <2>4, <3>1
    <3>4. Candidate(q).id = Candidate(p).id
      BY <2>1, <3>3
    <3>5. Len(Candidate(q).fees) <= Len(Candidate(p).fees)
      BY <1>6, <3>2, <3>4, LengthsInOrder
    <3>. QED
      BY <3>3, <3>5
  <2>. QED
    BY <1>11, <2>3, <2>4
<1>. QED
  BY <1>7, <1>9, <1>16, <1>17, <1>18, <1>19 DEF CandidateInv, IsSeq

LEMMA CandidateInvGivesProperty == CandidateInv => EveryPathOnce
<1>1. SUFFICES ASSUME CandidateInv PROVE EveryPathOnce
  OBVIOUS
<1>2. \A x : x \in ToSet(taken) <=> \E i \in DOMAIN taken : taken[i] = x
  BY DEF ToSet
<1>3. \A x \in ToSet(taken) : x \in AllPaths
  BY <1>1, <1>2, PathsArePlaces DEF CandidateInv
<1>4. ASSUME Exhausted, NEW x \in AllPaths PROVE x \in ToSet(taken)
  <2>1. PICK p \in Live : x = Candidate(p)
    BY PathsArePlaces
  <2>2. Before(p, at)
    BY <1>1, <1>4, SettledPlace DEF CandidateInv, Exhausted
  <2>. QED
    BY <1>1, <1>2, <2>1, <2>2 DEF CandidateInv
<1>. QED
  BY <1>1, <1>3, <1>4 DEF CandidateInv, EveryPathOnce

LEMMA CandidateStep == CandidateInv /\ [SplitNext]_splitVars => CandidateInv'
<1>1. SUFFICES ASSUME CandidateInv, [SplitNext]_splitVars PROVE CandidateInv'
  OBVIOUS
<1>2. CASE Take
  BY <1>1, <1>2, TakeKeepsCandidates
<1>3. CASE UNCHANGED <<at, taken>>
  BY <1>1, <1>3 DEF CandidateInv
<1>. QED
  BY <1>1, <1>2, <1>3
     DEF SplitNext, QuoteNext, AskForSplit, Admit, Requote, Build, splitVars

(* Every path is tried once whatever the deployments, the fees and the     *)
(* tokens of the configuration (candidateIterator.next).                   *)
THEOREM EveryPathTriedOnce == SplitSpec => []EveryPathOnce
<1>1. SplitInit => CandidateInv
  BY CandidateBegins DEF SplitInit
<1>. QED
  BY <1>1, CandidateStep, CandidateInvGivesProperty, PTL DEF SplitSpec


-----------------------------------------------------------------------------
(* From the paths to the call.                                             *)

LEMMA LegsOfPath ==
    ASSUME NEW c \in AllPaths, NEW out, NEW legs, legs = RouteOf(c, out).legs
    PROVE  /\ RouteOf(c, out).deployment = c.id
           /\ IsSeq(legs) /\ Len(legs) \in {1, 2} /\ DOMAIN legs = 1..Len(legs)
           /\ legs[1].tokenIn = TokenIn /\ EndOf(legs) = TokenOut
           /\ Len(legs) = 2 => /\ legs[2].tokenIn = legs[1].tokenOut
                               /\ legs[1].tokenOut \in Tokens \ {TokenIn, TokenOut}
<1>1. RouteOf(c, out).deployment = c.id
  BY DEF RouteOf
<1>2. PICK case : legs = LegsAlong(c.tokens, case, c.fees)
  BY DEF RouteOf
<1>3. CASE \E id, f : c = DirectPath(id, f)
  <2>1. PICK id, f : c = DirectPath(id, f)
    BY <1>3
  <2>2. c.tokens = <<TokenIn, TokenOut>> /\ c.fees = <<f>>
    BY <2>1 DEF DirectPath
  <2>3. legs = <<Leg(TokenIn, TokenOut, case, f)>>
    BY <1>2, <2>2 DEF LegsAlong
  <2>4. legs[1] = Leg(TokenIn, TokenOut, case, f) /\ Len(legs) = 1 /\ DOMAIN legs = 1..1
    BY <2>3
  <2>5. legs \in Seq({Leg(TokenIn, TokenOut, case, f)})
    BY <2>3
  <2>6. legs[1].tokenIn = TokenIn /\ legs[1].tokenOut = TokenOut
    BY <2>4 DEF Leg
  <2>. QED
    BY <1>1, <2>4, <2>5, <2>6 DEF IsSeq, EndOf
<1>4. CASE \E id, t, f, g : t \in Tokens \ {TokenIn, TokenOut} /\ c = LongPath(id, t, f, g)
  <2>1. PICK id, t, f, g : t \in Tokens \ {TokenIn, TokenOut} /\ c = LongPath(id, t, f, g)
    BY <1>4
  <2>2. c.tokens = <<TokenIn, t, TokenOut>> /\ c.fees = <<f, g>>
    BY <2>1 DEF LongPath
  <2>. DEFINE x == Leg(TokenIn, t, case, f)
              y == Leg(t, TokenOut, case, g)
  <2>3. legs = <<x, y>>
    BY <1>2, <2>2 DEF LegsAlong
  <2>4. x.tokenIn = TokenIn /\ x.tokenOut = t /\ y.tokenIn = t /\ y.tokenOut = TokenOut
    BY DEF Leg
  <2>. HIDE DEF x, y
  <2>5. legs[1] = x /\ legs[2] = y /\ Len(legs) = 2 /\ DOMAIN legs = 1..2
    BY <2>3
  <2>6. legs \in Seq({x, y})
    BY <2>3
  <2>. QED
    BY <1>1, <2>1, <2>4, <2>5, <2>6 DEF IsSeq, EndOf
<1>. QED
  BY <1>3, <1>4, PathKindsOf

(* The parts that are encoded are those that were admitted, but for what   *)
(* they were quoted at.                                                    *)
SplitReady ==
    /\ routes \subseteq AllPaths
    /\ IsSeq(requested)
    /\ Known /\ Admitted(Parts(Unquoted))

LEMMA PartsOf ==
    ASSUME NEW quoted
    PROVE  /\ DOMAIN Parts(quoted) = DOMAIN requested
           /\ IsSeq(requested) => IsSeq(Parts(quoted)) /\ Len(Parts(quoted)) = Len(requested)
           /\ \A i \in DOMAIN requested :
                 /\ Parts(quoted)[i].amountIn = requested[i].amount
                 /\ Parts(quoted)[i].route = RouteOf(requested[i].candidate, quoted[i])
<1>. DEFINE made(i) == [amountIn |-> requested[i].amount,
                        route |-> RouteOf(requested[i].candidate, quoted[i])]
<1>1. Parts(quoted) = [i \in DOMAIN requested |-> made(i)]
  BY DEF Parts
<1>2. \A i : /\ made(i).amountIn = requested[i].amount
             /\ made(i).route = RouteOf(requested[i].candidate, quoted[i])
  OBVIOUS
<1>. HIDE DEF made
<1>3. ASSUME IsSeq(requested)
      PROVE  IsSeq(Parts(quoted)) /\ Len(Parts(quoted)) = Len(requested)
  <2>1. PICK S : requested \in Seq(S)
    BY <1>3 DEF IsSeq
  <2>2. DOMAIN requested = 1..Len(requested) /\ Len(requested) \in Nat
    BY <2>1
  <2>. DEFINE R == {made(i) : i \in 1..Len(requested)}
  <2>3. Parts(quoted) \in [1..Len(requested) -> R]
    BY <1>1, <2>2
  <2>. HIDE DEF R
  <2>4. PICK parts, n : parts = Parts(quoted) /\ n = Len(requested)
    OBVIOUS
  <2>5. parts \in [1..n -> R] /\ n \in Nat
    BY <2>2, <2>3, <2>4
  <2>6. parts \in Seq(R) /\ Len(parts) = n
    BY <2>5
  <2>. QED
    BY <2>4, <2>6 DEF IsSeq
<1>. QED
  BY <1>1, <1>2, <1>3

LEMMA RouteOfIs ==
    ASSUME NEW c, NEW out
    PROVE  RouteOf(c, out).deployment = c.id /\ RouteOf(c, out).provider = Configured[c.id].kind
BY DEF RouteOf

LEMMA ReadyParts ==
    ASSUME SplitReady, NEW parts, parts = Allocations
    PROVE  /\ IsSeq(parts) /\ Len(parts) \in {1, 2} /\ DOMAIN parts = 1..Len(parts)
           /\ SumOf([i \in DOMAIN parts |-> parts[i].amountIn]) = AmountIn
           /\ \A i, j \in DOMAIN parts : Venue(parts[i].route) = Venue(parts[j].route) => i = j
           /\ \A i \in DOMAIN parts :
                 /\ parts[i].amountIn \in 1..MaxUint
                 /\ parts[i].route.deployment \in {Executor.uniswap, Executor.pancake}
                 /\ Venue(parts[i].route) \in Venues /\ Venue(parts[i].route) # None
                 /\ IsSeq(parts[i].route.legs) /\ Len(parts[i].route.legs) \in {1, 2}
                 /\ DOMAIN parts[i].route.legs = 1..Len(parts[i].route.legs)
                 /\ parts[i].route.legs[1].tokenIn = TokenIn
                 /\ EndOf(parts[i].route.legs) = TokenOut
                 /\ Len(parts[i].route.legs) = 2 =>
                       /\ parts[i].route.legs[2].tokenIn = parts[i].route.legs[1].tokenOut
                       /\ parts[i].route.legs[1].tokenOut \in Tokens \ {TokenIn, TokenOut}
<1>. DEFINE asked == Parts(Unquoted)
<1>1. Admitted(asked) /\ IsSeq(requested)
  BY DEF SplitReady
<1>2. /\ DOMAIN parts = DOMAIN requested /\ DOMAIN asked = DOMAIN requested
      /\ IsSeq(parts) /\ Len(parts) = Len(requested) /\ Len(asked) = Len(requested)
      /\ \A i \in DOMAIN requested :
            /\ parts[i].amountIn = requested[i].amount
            /\ parts[i].route = RouteOf(requested[i].candidate, outputs[i])
            /\ asked[i].amountIn = requested[i].amount
            /\ asked[i].route = RouteOf(requested[i].candidate, Unquoted[i])
  BY <1>1, PartsOf DEF Allocations
<1>3. \A i \in DOMAIN requested : requested[i].candidate \in AllPaths
  BY DEF SplitReady, Known
<1>. HIDE DEF asked
<1>4. /\ Len(parts) \in {1, 2}
      /\ \A i \in DOMAIN asked : asked[i].amountIn \in 1..MaxUint /\ Venue(asked[i].route) # None
      /\ \A i, j \in DOMAIN asked : Venue(asked[i].route) = Venue(asked[j].route) => i = j
      /\ SumOf([i \in DOMAIN asked |-> asked[i].amountIn]) = AmountIn
  BY <1>1, <1>2 DEF Admitted, Total
<1>5. ASSUME NEW i \in DOMAIN parts
      PROVE  /\ Venue(parts[i].route) = Venue(asked[i].route)
             /\ parts[i].amountIn = asked[i].amountIn
             /\ i \in DOMAIN asked
  <2>1. /\ parts[i].route.deployment = asked[i].route.deployment
        /\ parts[i].route.provider = asked[i].route.provider
    BY <1>2, RouteOfIs
  <2>. QED
    BY <1>2, <2>1 DEF Venue
<1>6. [i \in DOMAIN parts |-> parts[i].amountIn] = [i \in DOMAIN asked |-> asked[i].amountIn]
  BY <1>2
<1>7. ASSUME NEW i \in DOMAIN parts
      PROVE  /\ parts[i].route.deployment \in {Executor.uniswap, Executor.pancake}
             /\ Venue(parts[i].route) \in Venues /\ Venue(parts[i].route) # None
  BY <1>4, <1>5 DEF Venue, Venues
<1>8. DOMAIN parts = 1..Len(parts)
  BY <1>2 DEF IsSeq
<1>9. ASSUME NEW i \in DOMAIN parts
      PROVE  /\ IsSeq(parts[i].route.legs) /\ Len(parts[i].route.legs) \in {1, 2}
             /\ DOMAIN parts[i].route.legs = 1..Len(parts[i].route.legs)
             /\ parts[i].route.legs[1].tokenIn = TokenIn
             /\ EndOf(parts[i].route.legs) = TokenOut
             /\ Len(parts[i].route.legs) = 2 =>
                   /\ parts[i].route.legs[2].tokenIn = parts[i].route.legs[1].tokenOut
                   /\ parts[i].route.legs[1].tokenOut \in Tokens \ {TokenIn, TokenOut}
  BY <1>2, <1>3, LegsOfPath
<1>. QED
  BY <1>2, <1>4, <1>5, <1>6, <1>7, <1>8, <1>9

(* The call for a split that was admitted passes validate.                 *)
LEMMA ReadyAccepted ==
    ASSUME SplitReady, NEW bps
    PROVE  Accepted(PlanOfCall(ExecutorData(FrozenSplit(bps))))
<1>1. PICK parts : parts = Allocations
  OBVIOUS
<1>2. PICK data : data = ExecutorData(FrozenSplit(bps))
  OBVIOUS
<1>3. PICK venue : venue = [i \in DOMAIN parts |-> Venue(parts[i].route)]
  OBVIOUS
<1>4. /\ data.tokenIn = TokenIn /\ data.tokenOut = TokenOut /\ data.amountIn = AmountIn
      /\ data.allocations = [i \in DOMAIN parts |->
            [venue |-> Venue(parts[i].route), amountIn |-> parts[i].amountIn,
             hops |-> [j \in DOMAIN parts[i].route.legs |->
                [tokenOut |-> parts[i].route.legs[j].tokenOut,
                 fee |-> parts[i].route.legs[j].value]]]]
  BY <1>1, <1>2 DEF ExecutorData, ExecutorExecute, FrozenSplit
<1>5. CallOf(data, parts, venue)
  BY <1>3, <1>4 DEF CallOf
<1>6. \A i \in DOMAIN parts : venue[i] = Venue(parts[i].route)
  BY <1>3
<1>7. TokenIn # TokenOut /\ {TokenIn, TokenOut} \subseteq Tokens
  BY ConfigurationAssumption
<1>. HIDE <1>2, <1>3
<1>8. /\ IsSeq(parts) /\ Len(parts) \in {1, 2}
      /\ SumOf([i \in DOMAIN parts |-> parts[i].amountIn]) = data.amountIn
      /\ \A i, j \in DOMAIN parts : venue[i] = venue[j] => i = j
      /\ \A i \in DOMAIN parts :
            /\ venue[i] \in Venues /\ parts[i].amountIn \in 1..MaxUint
            /\ IsSeq(parts[i].route.legs) /\ Len(parts[i].route.legs) \in {1, 2}
            /\ EndOf(parts[i].route.legs) = data.tokenOut
            /\ Len(parts[i].route.legs) = 2 =>
                  parts[i].route.legs[1].tokenOut \in Tokens \ {data.tokenIn, data.tokenOut}
  BY <1>1, <1>4, <1>6, ReadyParts
<1>9. Accepted(PlanOfCall(data))
  BY <1>4, <1>5, <1>7, <1>8, CallAccepted
<1>. QED
  BY <1>2, <1>9

-----------------------------------------------------------------------------
(* The checks of a call that was built.                                    *)

LEMMA ToSetOfJoin ==
    ASSUME NEW s, NEW t, IsSeq(s), IsSeq(t)
    PROVE  IsSeq(s \o t) /\ ToSet(s \o t) = ToSet(s) \cup ToSet(t)
<1>1. PICK S : s \in Seq(S)
  BY DEF IsSeq
<1>2. PICK T : t \in Seq(T)
  BY DEF IsSeq
<1>3. s \in Seq(S \cup T) /\ t \in Seq(S \cup T)
  BY <1>1, <1>2
<1>. DEFINE joined == s \o t
<1>4. /\ joined \in Seq(S \cup T) /\ Len(joined) = Len(s) + Len(t)
      /\ \A i \in 1..Len(s) + Len(t) :
            joined[i] = IF i <= Len(s) THEN s[i] ELSE t[i - Len(s)]
  BY <1>3, ConcatProperties, Zenon
<1>. HIDE DEF joined
<1>5. PICK m, n : m = Len(s) /\ n = Len(t)
  OBVIOUS
<1>6. m \in Nat /\ n \in Nat /\ DOMAIN s = 1..m /\ DOMAIN t = 1..n /\ DOMAIN joined = 1..(m + n)
  BY <1>3, <1>4, <1>5
<1>7. /\ \A i \in 1..m : i \in 1..(m + n) /\ joined[i] = s[i]
      /\ \A i \in 1..n : m + i \in 1..(m + n) /\ joined[m + i] = t[i]
  <2>1. \A i \in 1..(m + n) : joined[i] = IF i <= m THEN s[i] ELSE t[i - m]
    BY <1>4, <1>5
  <2>2. \A i \in 1..m : i \in 1..(m + n) /\ i <= m
    BY <1>6
  <2>3. \A i \in 1..n : m + i \in 1..(m + n) /\ ~(m + i <= m) /\ (m + i) - m = i
    BY <1>6
  <2>. QED
    BY <2>1, <2>2, <2>3
<1>8. \A i \in 1..(m + n) : (i \in 1..m) \/ \E j \in 1..n : i = m + j
  <2>1. SUFFICES ASSUME NEW i \in 1..(m + n), i \notin 1..m PROVE \E j \in 1..n : i = m + j
    OBVIOUS
  <2>2. i - m \in 1..n /\ i = m + (i - m)
    BY <1>6, <2>1
  <2>. QED
    BY <2>2
<1>9. ToSet(joined) = ToSet(s) \cup ToSet(t)
  <2>1. ASSUME NEW x \in ToSet(joined) PROVE x \in ToSet(s) \cup ToSet(t)
    <3>1. PICK i \in 1..(m + n) : joined[i] = x
      BY <1>6, <2>1 DEF ToSet
    <3>2. CASE i \in 1..m
      BY <1>6, <1>7, <3>1, <3>2 DEF ToSet
    <3>3. CASE \E j \in 1..n : i = m + j
      BY <1>6, <1>7, <3>1, <3>3 DEF ToSet
    <3>. QED
      BY <1>8, <3>2, <3>3
  <2>2. ASSUME NEW x \in ToSet(s) PROVE x \in ToSet(joined)
    BY <1>6, <1>7 DEF ToSet
  <2>3. ASSUME NEW x \in ToSet(t) PROVE x \in ToSet(joined)
    BY <1>6, <1>7 DEF ToSet
  <2>. QED
    BY <2>1, <2>2, <2>3
<1>. QED
  BY <1>4, <1>9 DEF IsSeq, joined

LEMMA ToSetOfFew ==
    /\ IsSeq(<<>>) /\ ToSet(<<>>) = {}
    /\ \A x : IsSeq(<<x>>) /\ ToSet(<<x>>) = {x}
    /\ \A x, y : IsSeq(<<x, y>>) /\ ToSet(<<x, y>>) = {x, y}
<1>1. IsSeq(<<>>) /\ ToSet(<<>>) = {}
  BY DEF IsSeq, ToSet
<1>2. ASSUME NEW x PROVE IsSeq(<<x>>) /\ ToSet(<<x>>) = {x}
  <2>1. <<x>> \in Seq({x}) /\ DOMAIN <<x>> = {1} /\ <<x>>[1] = x
    OBVIOUS
  <2>. QED
    BY <2>1 DEF IsSeq, ToSet
<1>3. ASSUME NEW x, NEW y PROVE IsSeq(<<x, y>>) /\ ToSet(<<x, y>>) = {x, y}
  <2>1. /\ <<x, y>> \in Seq({x, y}) /\ DOMAIN <<x, y>> = {1, 2}
        /\ <<x, y>>[1] = x /\ <<x, y>>[2] = y
    OBVIOUS
  <2>. QED
    BY <2>1 DEF IsSeq, ToSet
<1>. QED
  BY <1>1, <1>2, <1>3

(* The tokens the contract restores: the two ends and what is between.     *)
LEMMA TouchedTokens ==
    ASSUME NEW p, IsSeq(p.allocations), Len(p.allocations) \in {1, 2}
    PROVE  \A t : t \in ToSet(Touched(p)) <=>
              \/ t \in {p.tokenIn, p.tokenOut}
              \/ \E i \in DOMAIN p.allocations :
                    Len(p.allocations[i].hops) = 2 /\ t = p.allocations[i].hops[1]
<1>. DEFINE one == Middle(p.allocations[1])
            two == IF Len(p.allocations) = 2 THEN Middle(p.allocations[2]) ELSE <<>>
            rest == IF two = one THEN <<>> ELSE two
<1>1. Touched(p) = <<p.tokenIn, p.tokenOut>> \o one \o rest
  BY DEF Touched
<1>2. ASSUME NEW a
      PROVE  /\ IsSeq(Middle(a))
             /\ \A t : t \in ToSet(Middle(a)) <=> Len(a.hops) = 2 /\ t = a.hops[1]
  BY ToSetOfFew DEF Middle
<1>3. /\ IsSeq(one)
      /\ \A t : t \in ToSet(one) <=>
            Len(p.allocations[1].hops) = 2 /\ t = p.allocations[1].hops[1]
  BY <1>2
<1>4. /\ IsSeq(two)
      /\ \A t : t \in ToSet(two) <=> /\ Len(p.allocations) = 2
                                     /\ Len(p.allocations[2].hops) = 2
                                     /\ t = p.allocations[2].hops[1]
  BY <1>2, ToSetOfFew
<1>. HIDE DEF one, two
<1>5. IsSeq(rest) /\ ToSet(one) \cup ToSet(rest) = ToSet(one) \cup ToSet(two)
  BY <1>4, ToSetOfFew
<1>. HIDE DEF rest
<1>6. ToSet(Touched(p)) = {p.tokenIn, p.tokenOut} \cup ToSet(one) \cup ToSet(rest)
  <2>1. PICK ends : ends = <<p.tokenIn, p.tokenOut>>
    OBVIOUS
  <2>2. IsSeq(ends) /\ ToSet(ends) = {p.tokenIn, p.tokenOut}
    BY <2>1, ToSetOfFew
  <2>3. IsSeq(ends \o one) /\ ToSet(ends \o one) = ToSet(ends) \cup ToSet(one)
    BY <1>3, <2>2, ToSetOfJoin
  <2>4. ToSet((ends \o one) \o rest) = ToSet(ends \o one) \cup ToSet(rest)
    BY <1>5, <2>3, ToSetOfJoin
  <2>. QED
    BY <1>1, <2>1, <2>2, <2>3, <2>4
<1>7. /\ 1 \in DOMAIN p.allocations
      /\ Len(p.allocations) = 2 => 2 \in DOMAIN p.allocations
      /\ \A i \in DOMAIN p.allocations : i = 1 \/ (i = 2 /\ Len(p.allocations) = 2)
  <2>1. PICK S : p.allocations \in Seq(S)
    BY DEF IsSeq
  <2>2. PICK n : n = Len(p.allocations)
    OBVIOUS
  <2>3. DOMAIN p.allocations = 1..n /\ n \in {1, 2}
    BY <2>1, <2>2
  <2>4. /\ 1 \in 1..n /\ (n = 2 => 2 \in 1..n)
        /\ \A i \in 1..n : i = 1 \/ (i = 2 /\ n = 2)
    BY <2>3
  <2>. QED
    BY <2>2, <2>3, <2>4, Zenon
<1>. QED
  BY <1>3, <1>4, <1>5, <1>6, <1>7

LEMMA PassesOf ==
    ASSUME NEW parts, NEW x
    PROVE  x \in Passes(parts) <=>
              \E i \in DOMAIN parts : \E j \in DOMAIN parts[i].route.legs :
                 x = [leg |-> parts[i].route.legs[j],
                      router |-> Configured[parts[i].route.deployment].target]
BY DEF Passes

(* The tokens some leg takes or gives.                                     *)
PassedTokens(parts) ==
    {t \in Tokens : \E x \in Passes(parts) : t \in {x.leg.tokenIn, x.leg.tokenOut}}

Leaving(preserve, o) == {p.token : p \in {q \in preserve : q.owner = o}}

LEMMA Watched ==
    ASSUME NEW parts, \A x \in Passes(parts) : {x.leg.tokenIn, x.leg.tokenOut} \subseteq Tokens
    PROVE  /\ Leaving(ExecutorPreserve(parts, Sender), Executor.address) = PassedTokens(parts)
           /\ Leaving(ExecutorPreserve(parts, Sender), Sender)
                 = PassedTokens(parts) \ {TokenIn, TokenOut}
<1>. DEFINE all == ExecutorPreserve(parts, Sender)
            any == UNION {{Probe(t, o) : t \in {x.leg.tokenIn, x.leg.tokenOut},
                                         o \in {Sender, Executor.address, x.router}} :
                            x \in Passes(parts)}
<1>1. \A t, o : Probe(t, o).token = t /\ Probe(t, o).owner = o
  BY DEF Probe
<1>2. \A q \in any : \E x \in Passes(parts) : \E t, o :
         /\ q = Probe(t, o) /\ t \in {x.leg.tokenIn, x.leg.tokenOut}
         /\ o \in {Sender, Executor.address, x.router}
  OBVIOUS
<1>3. ASSUME NEW x \in Passes(parts), NEW t \in {x.leg.tokenIn, x.leg.tokenOut},
             NEW o \in {Sender, Executor.address}
      PROVE  Probe(t, o) \in any
  OBVIOUS
<1>4. all = any \ {Probe(TokenIn, Sender), Probe(TokenOut, Sender)}
  BY DEF ExecutorPreserve
<1>. HIDE DEF any, all
<1>5. ASSUME NEW q \in any PROVE q.token \in PassedTokens(parts) /\ q = Probe(q.token, q.owner)
  BY <1>1, <1>2 DEF PassedTokens
<1>6. ASSUME NEW t \in PassedTokens(parts), NEW o \in {Sender, Executor.address}
      PROVE  Probe(t, o) \in any
  BY <1>3 DEF PassedTokens
<1>7. \A t : Probe(t, Executor.address) # Probe(TokenIn, Sender)
             /\ Probe(t, Executor.address) # Probe(TokenOut, Sender)
  BY <1>1, PreparationAssumption
<1>8. \A t : Probe(t, Sender) \in {Probe(TokenIn, Sender), Probe(TokenOut, Sender)}
                <=> t \in {TokenIn, TokenOut}
  BY <1>1
<1>9. Leaving(all, Executor.address) = PassedTokens(parts)
  <2>1. ASSUME NEW t \in PassedTokens(parts) PROVE t \in Leaving(all, Executor.address)
    <3>1. Probe(t, Executor.address) \in all
      BY <1>4, <1>6, <1>7
    <3>. QED
      BY <1>1, <3>1 DEF Leaving
  <2>2. ASSUME NEW t \in Leaving(all, Executor.address) PROVE t \in PassedTokens(parts)
    BY <1>4, <1>5 DEF Leaving
  <2>. QED
    BY <2>1, <2>2
<1>10. Leaving(all, Sender) = PassedTokens(parts) \ {TokenIn, TokenOut}
  <2>1. ASSUME NEW t \in PassedTokens(parts), t \notin {TokenIn, TokenOut}
        PROVE  t \in Leaving(all, Sender)
    <3>1. Probe(t, Sender) \in all
      BY <1>4, <1>6, <1>8, <2>1
    <3>. QED
      BY <1>1, <3>1 DEF Leaving
  <2>2. ASSUME NEW t \in Leaving(all, Sender)
        PROVE  t \in PassedTokens(parts) /\ t \notin {TokenIn, TokenOut}
    <3>1. PICK q \in all : q.owner = Sender /\ q.token = t
      BY DEF Leaving
    <3>2. q \in any /\ q = Probe(t, Sender)
      BY <1>4, <1>5, <3>1
    <3>. QED
      BY <1>4, <1>5, <1>8, <3>1, <3>2
  <2>. QED
    BY <2>1, <2>2
<1>. QED
  BY <1>9, <1>10 DEF all

(* The legs of what is built, by the token they take.                      *)
LEMMA ReadyLegs ==
    ASSUME SplitReady, NEW parts, parts = Allocations, NEW i \in DOMAIN parts
    PROVE  \A j \in DOMAIN parts[i].route.legs :
              /\ {parts[i].route.legs[j].tokenIn, parts[i].route.legs[j].tokenOut} \subseteq Tokens
              /\ parts[i].route.legs[j].tokenIn =
                    IF j = 1 THEN TokenIn ELSE parts[i].route.legs[j - 1].tokenOut
<1>. DEFINE legs == parts[i].route.legs
<1>1. /\ Len(legs) \in {1, 2} /\ DOMAIN legs = 1..Len(legs)
      /\ legs[1].tokenIn = TokenIn /\ legs[Len(legs)].tokenOut = TokenOut
      /\ Len(legs) = 2 =>
            /\ legs[2].tokenIn = legs[1].tokenOut
            /\ legs[1].tokenOut \in Tokens \ {TokenIn, TokenOut}
  BY ReadyParts DEF EndOf
<1>2. {TokenIn, TokenOut} \subseteq Tokens
  BY ConfigurationAssumption
<1>. HIDE DEF legs
<1>3. CASE Len(legs) = 1
  <2>1. \A j \in DOMAIN legs : j = 1
    BY <1>1, <1>3
  <2>. QED
    BY <1>1, <1>2, <1>3, <2>1 DEF legs
<1>4. CASE Len(legs) = 2
  <2>1. \A j \in DOMAIN legs : j = 1 \/ j = 2
    BY <1>1, <1>4
  <2>2. (2 # 1) /\ 2 - 1 = 1
    OBVIOUS
  <2>. QED
    BY <1>1, <1>2, <1>4, <2>1, <2>2 DEF legs
<1>. QED
  BY <1>1, <1>3, <1>4

LEMMA PassedAre ==
    ASSUME SplitReady, NEW parts, parts = Allocations
    PROVE  \A t : t \in PassedTokens(parts) <=>
              \/ t \in {TokenIn, TokenOut}
              \/ \E i \in DOMAIN parts : /\ Len(parts[i].route.legs) = 2
                                         /\ t = parts[i].route.legs[1].tokenOut
<1>1. /\ 1 \in DOMAIN parts
      /\ \A i \in DOMAIN parts :
            /\ Len(parts[i].route.legs) \in {1, 2}
            /\ DOMAIN parts[i].route.legs = 1..Len(parts[i].route.legs)
            /\ parts[i].route.legs[1].tokenIn = TokenIn
            /\ parts[i].route.legs[Len(parts[i].route.legs)].tokenOut = TokenOut
            /\ Len(parts[i].route.legs) = 2 =>
                  parts[i].route.legs[2].tokenIn = parts[i].route.legs[1].tokenOut
  <2>1. DOMAIN parts = 1..Len(parts) /\ Len(parts) \in {1, 2}
    BY ReadyParts
  <2>2. 1 \in DOMAIN parts
    BY <2>1
  <2>. QED
    BY <2>2, ReadyParts DEF EndOf
<1>2. \A t : t \in PassedTokens(parts) <=>
         \E i \in DOMAIN parts : \E j \in DOMAIN parts[i].route.legs :
            t \in {parts[i].route.legs[j].tokenIn, parts[i].route.legs[j].tokenOut}
  <2>. DEFINE pass(i, j) == [leg |-> parts[i].route.legs[j],
                             router |-> Configured[parts[i].route.deployment].target]
  <2>1. \A i, j : pass(i, j).leg = parts[i].route.legs[j]
    OBVIOUS
  <2>2. \A x : x \in Passes(parts) <=>
           \E i \in DOMAIN parts : \E j \in DOMAIN parts[i].route.legs : x = pass(i, j)
    BY PassesOf
  <2>3. \A i \in DOMAIN parts : \A j \in DOMAIN parts[i].route.legs :
           {parts[i].route.legs[j].tokenIn, parts[i].route.legs[j].tokenOut} \subseteq Tokens
    BY ReadyLegs
  <2>. HIDE DEF pass
  <2>. QED
    BY <2>1, <2>2, <2>3 DEF PassedTokens
<1>3. ASSUME NEW i \in DOMAIN parts, NEW j \in DOMAIN parts[i].route.legs, NEW t,
             t \in {parts[i].route.legs[j].tokenIn, parts[i].route.legs[j].tokenOut}
      PROVE  \/ t \in {TokenIn, TokenOut}
             \/ Len(parts[i].route.legs) = 2 /\ t = parts[i].route.legs[1].tokenOut
  <2>1. PICK legs : legs = parts[i].route.legs
    OBVIOUS
  <2>2. /\ Len(legs) \in {1, 2} /\ DOMAIN legs = 1..Len(legs)
        /\ legs[1].tokenIn = TokenIn /\ legs[Len(legs)].tokenOut = TokenOut
        /\ Len(legs) = 2 => legs[2].tokenIn = legs[1].tokenOut
    BY <1>1, <2>1
  <2>3. CASE Len(legs) = 1
    <3>1. j = 1
      BY <2>1, <2>2, <2>3
    <3>. QED
      BY <1>3, <2>1, <2>2, <2>3, <3>1
  <2>4. CASE Len(legs) = 2
    <3>1. j = 1 \/ j = 2
      BY <2>1, <2>2, <2>4
    <3>. QED
      BY <1>3, <2>1, <2>2, <2>4, <3>1
  <2>. QED
    BY <2>2, <2>3, <2>4
<1>4. ASSUME NEW i \in DOMAIN parts
      PROVE  /\ 1 \in DOMAIN parts[i].route.legs
             /\ Len(parts[i].route.legs) \in DOMAIN parts[i].route.legs
  <2>1. PICK n : n = Len(parts[i].route.legs)
    OBVIOUS
  <2>2. n \in {1, 2} /\ DOMAIN parts[i].route.legs = 1..n
    BY <1>1, <2>1
  <2>3. 1 \in 1..n /\ n \in 1..n
    BY <2>2
  <2>. QED
    BY <2>1, <2>2, <2>3
<1>. QED
  BY <1>1, <1>2, <1>3, <1>4

LEMMA AfterFirst ==
    ASSUME NEW x, NEW t, IsSeq(t), NEW j \in DOMAIN t
    PROVE  (<<x>> \o t)[j] = IF j = 1 THEN x ELSE t[j - 1]
<1>1. PICK T : t \in Seq(T)
  BY DEF IsSeq
<1>2. PICK head : head = <<x>>
  OBVIOUS
<1>3. head \in Seq(T \cup {x}) /\ t \in Seq(T \cup {x}) /\ Len(head) = 1 /\ head[1] = x
  BY <1>1, <1>2
<1>4. \A i \in 1..(Len(head) + Len(t)) :
         (head \o t)[i] = IF i <= Len(head) THEN head[i] ELSE t[i - Len(head)]
  <2>1. head \in Seq(T \cup {x}) /\ t \in Seq(T \cup {x})
    BY <1>3
  <2>. QED
    BY <2>1, ConcatProperties, Zenon
<1>5. j \in 1..(Len(head) + Len(t)) /\ j \in Nat /\ j >= 1
  <2>1. DOMAIN t = 1..Len(t) /\ Len(t) \in Nat
    BY <1>1
  <2>. QED
    BY <1>3, <2>1
<1>6. (head \o t)[j] = IF j <= 1 THEN head[j] ELSE t[j - 1]
  BY <1>3, <1>4, <1>5
<1>7. j <= 1 <=> j = 1
  BY <1>5
<1>. QED
  BY <1>2, <1>3, <1>6, <1>7

LEMMA HopsAre ==
    ASSUME NEW legs, IsSeq(legs)
    PROVE  /\ IsSeq(HopsOf(legs)) /\ Len(HopsOf(legs)) = Len(legs)
           /\ DOMAIN HopsOf(legs) = DOMAIN legs
           /\ \A j \in DOMAIN legs : HopsOf(legs)[j] = legs[j].tokenOut
<1>1. PICK S : legs \in Seq(S)
  BY DEF IsSeq
<1>2. PICK n : n = Len(legs)
  OBVIOUS
<1>3. DOMAIN legs = 1..n /\ n \in Nat
  BY <1>1, <1>2
<1>. DEFINE R == {legs[j].tokenOut : j \in 1..n}
<1>4. PICK hops : hops = HopsOf(legs)
  OBVIOUS
<1>5. /\ DOMAIN hops = 1..n /\ \A j \in 1..n : hops[j] = legs[j].tokenOut
      /\ hops \in [1..n -> R]
  BY <1>3, <1>4 DEF HopsOf
<1>. HIDE DEF R
<1>6. hops \in Seq(R) /\ Len(hops) = n
  BY <1>3, <1>5
<1>. QED
  BY <1>2, <1>3, <1>4, <1>5, <1>6 DEF IsSeq

ClearedBy(plan) ==
    UNION {{[token |-> (<<plan.tokenIn>> \o plan.allocations[i].hops)[j],
             owner |-> Executor.address,
             spender |-> Router(plan.allocations[i].venue)] :
                j \in DOMAIN plan.allocations[i].hops} :
           i \in DOMAIN plan.allocations}

(* The plan and the checks of one frozen split are about the same tokens,  *)
(* routers and legs.                                                       *)
LEMMA ReadyChecks ==
    ASSUME SplitReady, NEW bps,
           NEW plan, plan = PlanOfCall(ExecutorData(FrozenSplit(bps))),
           NEW checks, checks = ExecutorChecks(FrozenSplit(bps))
    PROVE  /\ Leaving(checks.preserve, Executor.address) = ToSet(Touched(plan))
           /\ Leaving(checks.preserve, Sender)
                 = ToSet(Touched(plan)) \ {plan.tokenIn, plan.tokenOut}
           /\ checks.clear = ClearedBy(plan)
<1>1. PICK parts : parts = Allocations
  OBVIOUS
<1>2. PICK data : data = ExecutorData(FrozenSplit(bps))
  OBVIOUS
<1>3. PICK venue : venue = [i \in DOMAIN parts |-> Venue(parts[i].route)]
  OBVIOUS
<1>4. /\ data.tokenIn = TokenIn /\ data.tokenOut = TokenOut
      /\ data.allocations = [i \in DOMAIN parts |->
            [venue |-> Venue(parts[i].route), amountIn |-> parts[i].amountIn,
             hops |-> [j \in DOMAIN parts[i].route.legs |->
                [tokenOut |-> parts[i].route.legs[j].tokenOut,
                 fee |-> parts[i].route.legs[j].value]]]]
  BY <1>1, <1>2 DEF ExecutorData, ExecutorExecute, FrozenSplit
<1>5. CallOf(data, parts, venue)
  BY <1>3, <1>4 DEF CallOf
<1>6. \A i \in DOMAIN parts : venue[i] = Venue(parts[i].route)
  BY <1>3
<1>7. /\ checks.preserve = ExecutorPreserve(parts, Sender)
      /\ checks.clear = ClearAllowances(parts)
  BY <1>1 DEF ExecutorChecks, FrozenSplit
<1>8. plan.tokenIn = TokenIn /\ plan.tokenOut = TokenOut
  BY <1>2, <1>4 DEF PlanOfCall
<1>. HIDE <1>3
<1>9. /\ IsSeq(parts) /\ Len(parts) \in {1, 2}
      /\ \A i \in DOMAIN parts :
            /\ Venue(parts[i].route) # None
            /\ IsSeq(parts[i].route.legs) /\ Len(parts[i].route.legs) \in {1, 2}
            /\ DOMAIN parts[i].route.legs = 1..Len(parts[i].route.legs)
  BY <1>1, ReadyParts
<1>10. /\ Len(plan.allocations) = Len(parts) /\ DOMAIN plan.allocations = DOMAIN parts
       /\ IsSeq(plan.allocations)
       /\ \A i \in DOMAIN parts :
             /\ plan.allocations[i].venue = Venue(parts[i].route)
             /\ plan.allocations[i].hops = HopsOf(parts[i].route.legs)
  BY <1>2, <1>5, <1>6, <1>9, ReadCall
<1>11. \A i \in DOMAIN parts :
          /\ IsSeq(plan.allocations[i].hops)
          /\ Len(plan.allocations[i].hops) = Len(parts[i].route.legs)
          /\ DOMAIN plan.allocations[i].hops = DOMAIN parts[i].route.legs
          /\ \A j \in DOMAIN parts[i].route.legs :
                plan.allocations[i].hops[j] = parts[i].route.legs[j].tokenOut
  BY <1>9, <1>10, HopsAre
<1>12. \A i \in DOMAIN parts : Len(parts[i].route.legs) = 2 => 1 \in DOMAIN parts[i].route.legs
  BY <1>9
<1>13. PassedTokens(parts) = ToSet(Touched(plan))
  <2>1. \A t : t \in ToSet(Touched(plan)) <=>
              \/ t \in {plan.tokenIn, plan.tokenOut}
              \/ \E i \in DOMAIN plan.allocations :
                    Len(plan.allocations[i].hops) = 2 /\ t = plan.allocations[i].hops[1]
    BY <1>9, <1>10, TouchedTokens
  <2>2. \A t : t \in PassedTokens(parts) <=>
              \/ t \in {TokenIn, TokenOut}
              \/ \E i \in DOMAIN parts : /\ Len(parts[i].route.legs) = 2
                                         /\ t = parts[i].route.legs[1].tokenOut
    BY <1>1, PassedAre
  <2>3. \A t : t \in PassedTokens(parts) <=> t \in ToSet(Touched(plan))
    BY <1>8, <1>10, <1>11, <1>12, <2>1, <2>2
  <2>. QED
    BY <2>3
<1>14. \A x \in Passes(parts) : {x.leg.tokenIn, x.leg.tokenOut} \subseteq Tokens
  <2>1. SUFFICES ASSUME NEW x \in Passes(parts)
                 PROVE  {x.leg.tokenIn, x.leg.tokenOut} \subseteq Tokens
    OBVIOUS
  <2>2. PICK i \in DOMAIN parts : \E j \in DOMAIN parts[i].route.legs :
           x = [leg |-> parts[i].route.legs[j],
                router |-> Configured[parts[i].route.deployment].target]
    BY PassesOf
  <2>3. PICK j \in DOMAIN parts[i].route.legs : x.leg = parts[i].route.legs[j]
    BY <2>2
  <2>. QED
    BY <1>1, <2>2, <2>3, ReadyLegs
<1>15. /\ Leaving(checks.preserve, Executor.address) = ToSet(Touched(plan))
       /\ Leaving(checks.preserve, Sender)
             = ToSet(Touched(plan)) \ {plan.tokenIn, plan.tokenOut}
  BY <1>7, <1>8, <1>13, <1>14, Watched
<1>16. ASSUME NEW i \in DOMAIN parts
       PROVE  Router(plan.allocations[i].venue) = Configured[parts[i].route.deployment].target
  BY <1>9, <1>10 DEF Router, Venue
<1>17. ASSUME NEW i \in DOMAIN parts, NEW j \in DOMAIN parts[i].route.legs
       PROVE  (<<plan.tokenIn>> \o plan.allocations[i].hops)[j] = parts[i].route.legs[j].tokenIn
  <2>1. (<<plan.tokenIn>> \o plan.allocations[i].hops)[j]
           = IF j = 1 THEN plan.tokenIn ELSE plan.allocations[i].hops[j - 1]
    <3>1. PICK hops, x : hops = plan.allocations[i].hops /\ x = plan.tokenIn
      OBVIOUS
    <3>2. IsSeq(hops) /\ j \in DOMAIN hops
      BY <1>11, <3>1
    <3>3. (<<x>> \o hops)[j] = IF j = 1 THEN x ELSE hops[j - 1]
      BY <3>2, AfterFirst
    <3>. QED
      BY <3>1, <3>3, Zenon
  <2>2. j # 1 => j - 1 \in DOMAIN parts[i].route.legs
    <3>1. PICK n : n = Len(parts[i].route.legs)
      OBVIOUS
    <3>2. n \in {1, 2} /\ DOMAIN parts[i].route.legs = 1..n
      BY <1>9, <3>1
    <3>. QED
      BY <3>2
  <2>3. j # 1 => plan.allocations[i].hops[j - 1] = parts[i].route.legs[j - 1].tokenOut
    BY <1>11, <2>2
  <2>4. parts[i].route.legs[j].tokenIn =
           IF j = 1 THEN TokenIn ELSE parts[i].route.legs[j - 1].tokenOut
    BY <1>1, ReadyLegs
  <2>. QED
    BY <1>8, <2>1, <2>3, <2>4
<1>18. checks.clear = ClearedBy(plan)
  <2>. DEFINE cleared(i, j) ==
                 [token |-> (<<plan.tokenIn>> \o plan.allocations[i].hops)[j],
                  owner |-> Executor.address, spender |-> Router(plan.allocations[i].venue)]
              given(i, j) ==
                 [token |-> parts[i].route.legs[j].tokenIn, owner |-> Executor.address,
                  spender |-> Configured[parts[i].route.deployment].target]
              pass(i, j) == [leg |-> parts[i].route.legs[j],
                             router |-> Configured[parts[i].route.deployment].target]
              let(x) == [token |-> x.leg.tokenIn, owner |-> Executor.address,
                         spender |-> x.router]
              theirs == UNION {{cleared(i, j) : j \in DOMAIN plan.allocations[i].hops} :
                               i \in DOMAIN plan.allocations}
  <2>1. \A i \in DOMAIN parts : \A j \in DOMAIN parts[i].route.legs : cleared(i, j) = given(i, j)
    BY <1>16, <1>17
  <2>2. \A i, j : let(pass(i, j)) = given(i, j)
    OBVIOUS
  <2>3. \A x : x \in Passes(parts) <=>
           \E i \in DOMAIN parts : \E j \in DOMAIN parts[i].route.legs : x = pass(i, j)
    BY PassesOf
  <2>4. \A y : y \in checks.clear <=> \E x \in Passes(parts) : y = let(x)
    BY <1>7 DEF ClearAllowances
  <2>5. \A y : y \in theirs <=>
           \E i \in DOMAIN plan.allocations :
              \E j \in DOMAIN plan.allocations[i].hops : y = cleared(i, j)
    <3>. HIDE DEF cleared
    <3>. QED
      OBVIOUS
  <2>. HIDE DEF cleared, given, pass, let
  <2>6. \A y : y \in theirs <=>
           \E i \in DOMAIN parts : \E j \in DOMAIN parts[i].route.legs : y = given(i, j)
    <3>. HIDE DEF theirs
    <3>. QED
      BY <1>10, <1>11, <2>1, <2>5
  <2>7. \A y : y \in checks.clear <=>
           \E i \in DOMAIN parts : \E j \in DOMAIN parts[i].route.legs : y = given(i, j)
    BY <2>2, <2>3, <2>4
  <2>8. \A y \in checks.clear : y \in theirs
    <3>. HIDE DEF theirs
    <3>. QED
      BY <2>6, <2>7
  <2>9. \A y \in theirs : y \in checks.clear
    <3>. HIDE DEF theirs
    <3>. QED
      BY <2>6, <2>7
  <2>10. checks.clear = theirs
    <3>1. \E A : checks.clear = {let(x) : x \in A}
      BY <1>7 DEF ClearAllowances, let
    <3>. HIDE DEF theirs
    <3>. QED
      BY <2>8, <2>9
  <2>. QED
    BY <2>10 DEF ClearedBy, cleared
<1>. QED
  BY <1>15, <1>18

-----------------------------------------------------------------------------
(* From the request to the call.                                           *)

SplitInv ==
    /\ routes \subseteq AllPaths
    /\ IsSeq(requested)
    /\ phase \in {"requote", "built"} => Known /\ Admitted(Parts(Unquoted))
    /\ phase = "built" =>
          \E bps : response = [plan |-> PlanOfCall(ExecutorData(FrozenSplit(bps))),
                               checks |-> ExecutorChecks(FrozenSplit(bps))]

LEMMA SplitInvStep == CandidateInv /\ SplitInv /\ [SplitNext]_splitVars => SplitInv'
<1>1. SUFFICES ASSUME CandidateInv, SplitInv, [SplitNext]_splitVars PROVE SplitInv'
  OBVIOUS
<1>2. CASE QuoteNext
  <2>1. CandidateInv'
    BY <1>1, <1>2, TakeKeepsCandidates DEF QuoteNext
  <2>2. taken' \in Seq(ToSet(taken')) /\ Len(taken') > 0
    <3>1. PICK c : taken' = Append(taken, c)
      BY <1>2 DEF QuoteNext, Take
    <3>2. PICK S : taken \in Seq(S)
      BY <1>1 DEF CandidateInv, IsSeq
    <3>3. Len(taken') > 0
      BY <3>1, <3>2
    <3>4. PICK T, all : all = taken' /\ all \in Seq(T)
      BY <2>1 DEF CandidateInv, IsSeq
    <3>5. all \in Seq(ToSet(all))
      BY <3>4 DEF ToSet
    <3>. QED
      BY <3>3, <3>4, <3>5
  <2>3. taken'[Len(taken')] \in AllPaths
    <3>1. PICK n : n = Len(taken')
      OBVIOUS
    <3>2. DOMAIN taken' = 1..n /\ n \in Nat /\ n > 0
      BY <2>2, <3>1
    <3>3. n \in DOMAIN taken'
      BY <3>2
    <3>. QED
      BY <2>1, <3>1, <3>3, PathsArePlaces DEF CandidateInv
  <2>4. routes' \subseteq AllPaths
    BY <1>1, <1>2, <2>3 DEF QuoteNext, SplitInv
  <2>. QED
    BY <1>1, <1>2, <2>4 DEF QuoteNext, SplitInv
<1>3. CASE AskForSplit
  <2>1. \E S : requested' \in BoundedSeq(S, 2)
    BY <1>3 DEF AskForSplit, Requests
  <2>2. IsSeq(requested')
    BY <2>1, BoundedIsSeq DEF IsSeq
  <2>. QED
    BY <1>1, <1>3, <2>2 DEF AskForSplit, SplitInv
<1>4. CASE Admit
  BY <1>1, <1>4 DEF Admit, Reject, SplitInv, Known, Parts, Unquoted
<1>5. CASE Requote
  BY <1>1, <1>5 DEF Requote, Reject, SplitInv, Known, Parts, Unquoted
<1>6. CASE Build
  <2>1. /\ UNCHANGED <<routes, requested, outputs>>
        /\ Known' = Known /\ Admitted(Parts(Unquoted))' = Admitted(Parts(Unquoted))
    BY <1>6 DEF Build, Known, Parts, Unquoted
  <2>2. /\ phase = "requote"
        /\ \/ phase' = "rejected"
           \/ /\ phase' = "built"
              /\ \E bps : response' = [plan |-> PlanOfCall(ExecutorData(FrozenSplit(bps))),
                                       checks |-> ExecutorChecks(FrozenSplit(bps))]
    BY <1>6 DEF Build, Reject
  <2>3. \A bps : FrozenSplit(bps)' = FrozenSplit(bps)
    BY <2>1 DEF FrozenSplit, Allocations, Parts
  <2>. QED
    BY <1>1, <2>1, <2>2, <2>3 DEF SplitInv
<1>7. CASE UNCHANGED splitVars
  <2>1. UNCHANGED <<routes, requested, outputs, phase, response>>
    BY <1>7 DEF splitVars
  <2>2. \A bps : FrozenSplit(bps)' = FrozenSplit(bps)
    BY <2>1 DEF FrozenSplit, Allocations, Parts
  <2>3. Known' = Known /\ Admitted(Parts(Unquoted))' = Admitted(Parts(Unquoted))
    BY <2>1 DEF Known, Parts, Unquoted
  <2>. QED
    BY <1>1, <2>1, <2>2, <2>3 DEF SplitInv
<1>. QED
  BY <1>1, <1>2, <1>3, <1>4, <1>5, <1>6, <1>7 DEF SplitNext

LEMMA SplitInvariant == SplitSpec => []SplitInv
<1>1. SplitInit => CandidateInv /\ SplitInv
  <2>1. SUFFICES ASSUME SplitInit PROVE CandidateInv /\ SplitInv
    OBVIOUS
  <2>2. Begin /\ phase = "search" /\ routes = {} /\ requested = <<>>
    BY <2>1 DEF SplitInit
  <2>3. IsSeq(requested)
    BY <2>2, ToSetOfFew
  <2>. QED
    BY <2>2, <2>3, CandidateBegins DEF SplitInv
<1>2. CandidateInv /\ SplitInv /\ [SplitNext]_splitVars => (CandidateInv /\ SplitInv)'
  BY CandidateStep, SplitInvStep
<1>. QED
  BY <1>1, <1>2, PTL DEF SplitSpec

LEMMA BuiltIsReady ==
    ASSUME SplitInv, phase = "built"
    PROVE  SplitReady /\ \E bps :
              response = [plan |-> PlanOfCall(ExecutorData(FrozenSplit(bps))),
                          checks |-> ExecutorChecks(FrozenSplit(bps))]
BY DEF SplitInv, SplitReady

(* The contract's validation passes every plan the engine builds, whatever *)
(* is asked for and found (executor.go:169, Executor.sol:101).             *)
THEOREM BuiltIsAccepted == SplitSpec => []PlanAccepted
<1>1. SplitInv => PlanAccepted
  <2>1. SUFFICES ASSUME SplitInv, phase = "built" PROVE Accepted(response.plan)
    BY DEF PlanAccepted
  <2>2. PICK bps : response = [plan |-> PlanOfCall(ExecutorData(FrozenSplit(bps))),
                               checks |-> ExecutorChecks(FrozenSplit(bps))]
    BY <2>1, BuiltIsReady
  <2>3. response.plan = PlanOfCall(ExecutorData(FrozenSplit(bps)))
    BY <2>2
  <2>. QED
    BY <2>1, <2>3, BuiltIsReady, ReadyAccepted
<1>. QED
  BY <1>1, SplitInvariant, PTL

(* What a simulation watches is what the contract restores, and the        *)
(* approvals it gives (executorChecks, executor.go:74).                    *)
THEOREM ChecksFitPlan == SplitSpec => []ChecksMatchPlan
<1>1. SplitInv => ChecksMatchPlan
  <2>1. SUFFICES ASSUME SplitInv, phase = "built" PROVE ChecksMatchPlan
    BY DEF ChecksMatchPlan
  <2>2. PICK bps : response = [plan |-> PlanOfCall(ExecutorData(FrozenSplit(bps))),
                               checks |-> ExecutorChecks(FrozenSplit(bps))]
    BY <2>1, BuiltIsReady
  <2>3. /\ response.plan = PlanOfCall(ExecutorData(FrozenSplit(bps)))
        /\ response.checks = ExecutorChecks(FrozenSplit(bps))
    BY <2>2
  <2>4. PICK plan : plan = response.plan
    OBVIOUS
  <2>5. PICK checks : checks = response.checks
    OBVIOUS
  <2>6. /\ Leaving(checks.preserve, Executor.address) = ToSet(Touched(plan))
        /\ Leaving(checks.preserve, Sender)
              = ToSet(Touched(plan)) \ {plan.tokenIn, plan.tokenOut}
        /\ checks.clear = ClearedBy(plan)
    <3>1. SplitReady
      BY <2>1, BuiltIsReady
    <3>2. plan = PlanOfCall(ExecutorData(FrozenSplit(bps)))
      BY <2>3, <2>4
    <3>3. checks = ExecutorChecks(FrozenSplit(bps))
      BY <2>3, <2>5
    <3>. QED
      BY <3>1, <3>2, <3>3, ReadyChecks, Zenon
  <2>7. ChecksMatchPlan <=>
           /\ Leaving(response.checks.preserve, Executor.address) = ToSet(Touched(response.plan))
           /\ Leaving(response.checks.preserve, Sender)
                 = ToSet(Touched(response.plan)) \ {response.plan.tokenIn, response.plan.tokenOut}
           /\ response.checks.clear = ClearedBy(response.plan)
    BY <2>1, Zenon DEF ChecksMatchPlan, Leaving, ClearedBy
  <2>. QED
    BY <2>4, <2>5, <2>6, <2>7, Zenon
<1>. QED
  BY <1>1, SplitInvariant, PTL

===============================================================================
