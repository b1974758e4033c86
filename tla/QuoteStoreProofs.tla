-------------------------- MODULE QuoteStoreProofs --------------------------
(***************************************************************************)
(* The Store on its own, for every limit and every number of identities:   *)
(* it never outgrows its limit, it gives up the oldest entry only, and it  *)
(* neither forgets a mark nor moves an expiry.  The bound alone is         *)
(* inductive once the domains are known to be finite, which Cardinality    *)
(* needs; what a step gives up then follows from the bound and the types.  *)
(***************************************************************************)
EXTENDS QuoteStore, FiniteSetTheorems, TLAPS

Bounded(map) ==
    /\ IsFiniteSet(DOMAIN map)
    /\ Cardinality(DOMAIN map) <= StoreLimit

BoundedInv == Bounded(quotes) /\ Bounded(preparations)

(* Pruning only removes.                                                   *)
LEMMA PruneBounded ==
    ASSUME NEW map, NEW t, Bounded(map)
    PROVE  Bounded(Prune(map, t))
<1>1. DOMAIN Prune(map, t) \subseteq DOMAIN map
  BY DEF Prune
<1>2. /\ IsFiniteSet(DOMAIN Prune(map, t))
      /\ Cardinality(DOMAIN Prune(map, t)) <= Cardinality(DOMAIN map)
  BY <1>1, FS_Subset DEF Bounded
<1>3. /\ Cardinality(DOMAIN Prune(map, t)) \in Nat
      /\ Cardinality(DOMAIN map) \in Nat
  BY <1>2, FS_CardinalityType DEF Bounded
<1>. QED
  BY <1>2, <1>3, StoreAssumption DEF Bounded

(* Making room and then putting one entry stays within the limit.          *)
LEMMA PutBounded ==
    ASSUME NEW map, NEW id, NEW entry, Bounded(map),
           NEW kept \in Evicted(map)
    PROVE  Bounded(Put(kept, id, entry))
<1>. DEFINE D == DOMAIN map
<1>1. Cardinality(D) \in Nat /\ StoreLimit \in Nat \ {0}
  BY FS_CardinalityType, StoreAssumption DEF Bounded
<1>2. /\ IsFiniteSet(DOMAIN kept)
      /\ Cardinality(DOMAIN kept) \in Nat
      /\ Cardinality(DOMAIN kept) + 1 <= StoreLimit
  <2>1. CASE Cardinality(D) >= StoreLimit
    <3>1. PICK gone \in Oldest(map) : kept = Without(map, gone)
      BY <2>1 DEF Evicted
    <3>2. gone \in D /\ DOMAIN kept = D \ {gone}
      BY <3>1 DEF Oldest, Without
    <3>3. /\ IsFiniteSet(D \ {gone})
          /\ Cardinality(D \ {gone}) = Cardinality(D) - 1
      BY <3>2, FS_RemoveElement DEF Bounded
    <3>. QED
      BY <1>1, <3>2, <3>3, FS_CardinalityType DEF Bounded
  <2>2. CASE ~(Cardinality(D) >= StoreLimit)
    BY <1>1, <2>2 DEF Evicted, Bounded
  <2>. QED
    BY <2>1, <2>2
<1>3. DOMAIN Put(kept, id, entry) = DOMAIN kept \cup {id}
  BY DEF Put
<1>4. /\ IsFiniteSet(DOMAIN kept \cup {id})
      /\ \/ Cardinality(DOMAIN kept \cup {id}) = Cardinality(DOMAIN kept) + 1
         \/ Cardinality(DOMAIN kept \cup {id}) = Cardinality(DOMAIN kept)
  BY <1>2, FS_AddElement
<1>. QED
  BY <1>1, <1>2, <1>3, <1>4 DEF Bounded

LEMMA EmptyBounded == Bounded(<<>>)
<1>1. DOMAIN << >> = {}
  OBVIOUS
<1>2. IsFiniteSet({}) /\ Cardinality({}) = 0
  BY FS_EmptySet
<1>. QED
  BY <1>1, <1>2, StoreAssumption DEF Bounded

(* A mark changes an entry, never the domain.                              *)
LEMMA MarkBounded ==
    ASSUME NEW id, NEW mark, NEW required, NEW t, BoundedInv,
           MarkApproval(id, mark, required, t)
    PROVE  BoundedInv'
<1>1. Bounded(Prune(quotes, t)) /\ Bounded(Prune(preparations, t))
  BY PruneBounded DEF BoundedInv
<1>2. DOMAIN (quotes') = DOMAIN Prune(quotes, t)
  BY DEF MarkApproval
<1>. QED
  BY <1>1, <1>2 DEF MarkApproval, BoundedInv, Bounded

LEMMA BoundedStep ==
    BoundedInv /\ [Next]_vars => BoundedInv'
<1>. SUFFICES ASSUME BoundedInv, [Next]_vars PROVE BoundedInv'
  OBVIOUS
<1>1. \A t : Bounded(Prune(quotes, t)) /\ Bounded(Prune(preparations, t))
  BY PruneBounded DEF BoundedInv
<1>2. CASE Tick
  BY <1>2 DEF Tick, storeVars, BoundedInv, Bounded
<1>3. CASE SomeSearchEnds
  BY <1>1, <1>3, PutBounded DEF SomeSearchEnds, SaveQuote, BoundedInv
<1>4. CASE SomePreparationEnds
  BY <1>1, <1>4, PutBounded DEF SomePreparationEnds, SavePreparation, BoundedInv
<1>5. CASE SomeLookup
  BY <1>1, <1>5 DEF SomeLookup, Lookup, BoundedInv
<1>6. CASE SomeMark
  BY <1>6, MarkBounded DEF SomeMark
<1>7. CASE UNCHANGED vars
  BY <1>7 DEF vars, BoundedInv, Bounded
<1>. QED
  BY <1>2, <1>3, <1>4, <1>5, <1>6, <1>7 DEF Next

(* The Store never holds more than StoreLimit quotes or preparations.      *)
THEOREM StoreStaysBounded == Spec => []StoreBounded
<1>1. Init => BoundedInv
  BY EmptyBounded DEF Init, BoundedInv
<1>2. BoundedInv => StoreBounded
  BY DEF BoundedInv, Bounded, StoreBounded
<1>. QED
  BY <1>1, <1>2, BoundedStep, PTL DEF Spec

-----------------------------------------------------------------------------
(* What a step may give up.                                                *)

TypedInv ==
    /\ now \in Nat
    /\ \A q \in DOMAIN quotes : quotes[q] \in StoredQuote
    /\ \A p \in DOMAIN preparations : preparations[p] \in [expires : Nat]

LEMMA PutMember ==
    ASSUME NEW map, NEW id, NEW entry, NEW i \in DOMAIN Put(map, id, entry)
    PROVE  /\ i = id \/ i \in DOMAIN map
           /\ Put(map, id, entry)[i] = IF i = id THEN entry ELSE map[i]
BY DEF Put

LEMMA EvictedMember ==
    ASSUME NEW map, NEW kept \in Evicted(map), NEW i \in DOMAIN kept
    PROVE  i \in DOMAIN map /\ kept[i] = map[i]
<1>1. CASE kept = map
  BY <1>1
<1>2. CASE \E id \in Oldest(map) : kept = Without(map, id)
  BY <1>2 DEF Without
<1>. QED
  BY <1>1, <1>2 DEF Evicted

LEMMA PruneMember ==
    ASSUME NEW map, NEW t
    PROVE  /\ DOMAIN Prune(map, t) = {i \in DOMAIN map : t < map[i].expires}
           /\ \A i \in DOMAIN Prune(map, t) : Prune(map, t)[i] = map[i]
BY DEF Prune

(* A mark is put on one entry, whose other fields stay.                    *)
LEMMA MarkMember ==
    ASSUME TypedInv, NEW id, NEW mark \in Marks, NEW required, NEW t,
           MarkApproval(id, mark, required, t)
    PROVE  /\ DOMAIN quotes' = DOMAIN Prune(quotes, t)
           /\ \A q \in DOMAIN quotes' :
                 /\ quotes'[q] \in StoredQuote
                 /\ quotes'[q].expires = quotes[q].expires
                 /\ quotes[q].approvals \subseteq quotes'[q].approvals
<1>. DEFINE live == Prune(quotes, t)
            marked == [live[id] EXCEPT !.approvals = @ \cup {mark}]
<1>1. \A q \in DOMAIN live : q \in DOMAIN quotes /\ live[q] = quotes[q] /\ live[q] \in StoredQuote
  BY DEF Prune, TypedInv
<1>2. CASE quotes' = live
  BY <1>1, <1>2
<1>3. CASE id \in DOMAIN live /\ quotes' = [live EXCEPT ![id].approvals = @ \cup {mark}]
  <2>1. live[id] \in StoredQuote
    BY <1>1, <1>3
  <2>. HIDE DEF live
  <2>2. /\ marked \in StoredQuote /\ marked.expires = live[id].expires
        /\ live[id].approvals \subseteq marked.approvals
    BY <2>1 DEF StoredQuote
  <2>3. quotes' = [q \in DOMAIN live |-> IF q = id THEN marked ELSE live[q]]
    BY <1>3
  <2>. HIDE DEF marked
  <2>4. DOMAIN quotes' = DOMAIN live
    BY <2>3
  <2>5. ASSUME NEW q \in DOMAIN quotes'
        PROVE  /\ quotes'[q] \in StoredQuote
               /\ quotes'[q].expires = quotes[q].expires
               /\ quotes[q].approvals \subseteq quotes'[q].approvals
    BY <1>1, <2>2, <2>3, <2>5
  <2>. QED
    BY <2>4, <2>5 DEF live
<1>. QED
  BY <1>2, <1>3 DEF MarkApproval

LEMMA TypedStep ==
    TypedInv /\ [Next]_vars => TypedInv'
<1>. SUFFICES ASSUME TypedInv, [Next]_vars PROVE TypedInv'
  OBVIOUS
<1>1. \A t : /\ \A q \in DOMAIN Prune(quotes, t) : Prune(quotes, t)[q] \in StoredQuote
            /\ \A p \in DOMAIN Prune(preparations, t) :
                  Prune(preparations, t)[p] \in [expires : Nat]
  BY DEF Prune, TypedInv
<1>2. CASE Tick
  BY <1>2 DEF Tick, storeVars, TypedInv
<1>3. CASE SomeSearchEnds
  <2>1. PICK id \in QuoteIds \ DOMAIN quotes, terms \in Terms, started \in 0..now :
           SaveQuote(id, terms, started)
    BY <1>3 DEF SomeSearchEnds
  <2>. DEFINE entry == [expires |-> started + Retention, approvals |-> {}, terms |-> terms]
  <2>2. entry \in StoredQuote
    BY StoreAssumption DEF StoredQuote, StoreAssumption, TypedInv
  <2>. HIDE DEF entry
  <2>3. PICK kept \in Evicted(Prune(quotes, now)) : quotes' = Put(kept, id, entry)
    BY <2>1 DEF SaveQuote, entry
  <2>4. \A q \in DOMAIN kept : kept[q] \in StoredQuote
    BY <1>1, EvictedMember
  <2>5. ASSUME NEW q \in DOMAIN quotes' PROVE quotes'[q] \in StoredQuote
    BY <2>2, <2>3, <2>4, <2>5, PutMember
  <2>. QED
    BY <1>1, <1>3, <2>1, <2>5 DEF SomeSearchEnds, SaveQuote, TypedInv
<1>4. CASE SomePreparationEnds
  <2>1. PICK id \in PreparationIds, began \in 0..now :
           SavePreparation(id, [expires |-> began + Retention])
    BY <1>4 DEF SomePreparationEnds
  <2>. DEFINE entry == [expires |-> began + Retention]
  <2>2. entry \in [expires : Nat]
    BY StoreAssumption DEF StoreAssumption, TypedInv
  <2>. HIDE DEF entry
  <2>3. PICK kept \in Evicted(Prune(preparations, now)) : preparations' = Put(kept, id, entry)
    BY <2>1 DEF SavePreparation, entry
  <2>4. \A p \in DOMAIN kept : kept[p] \in [expires : Nat]
    BY <1>1, EvictedMember
  <2>5. ASSUME NEW p \in DOMAIN preparations' PROVE preparations'[p] \in [expires : Nat]
    BY <2>2, <2>3, <2>4, <2>5, PutMember
  <2>. QED
    BY <1>1, <1>4, <2>1, <2>5 DEF SomePreparationEnds, SavePreparation, TypedInv
<1>5. CASE SomeLookup
  BY <1>1, <1>5 DEF SomeLookup, Lookup, TypedInv
<1>6. CASE SomeMark
  BY <1>1, <1>6, MarkMember DEF SomeMark, MarkApproval, TypedInv
<1>7. CASE UNCHANGED vars
  BY <1>7 DEF vars, TypedInv
<1>. QED
  BY <1>2, <1>3, <1>4, <1>5, <1>6, <1>7 DEF Next

LEMMA StoreAlways == Spec => [](BoundedInv /\ TypedInv)
<1>1. Init => BoundedInv /\ TypedInv
  BY EmptyBounded DEF Init, BoundedInv, TypedInv
<1>. QED
  BY <1>1, BoundedStep, TypedStep, PTL DEF Spec

(* What a save gives up of its own map.  An entry saved again although it  *)
(* has expired still counts for the limit, so nothing is given up then.    *)
LEMMA SaveGivesUp ==
    ASSUME now \in Nat, NEW map, NEW next, NEW id, NEW entry, Bounded(map),
           NEW kept \in Evicted(Prune(map, now)), next = Put(kept, id, entry),
           NEW i \in LostEarly(map, next)
    PROVE  /\ Cardinality(DOMAIN Prune(map, now)) = StoreLimit
           /\ LostEarly(map, next) = {i}
           /\ \A j \in DOMAIN map \cap DOMAIN next : map[i].expires <= map[j].expires
<1>. DEFINE live == Prune(map, now)
            D == DOMAIN live
<1>1. /\ D = {k \in DOMAIN map : now < map[k].expires}
      /\ \A k \in D : live[k] = map[k]
  BY PruneMember
<1>2. i \in D /\ i \notin DOMAIN kept /\ i # id
  BY <1>1 DEF LostEarly, Put
<1>3. PICK gone \in Oldest(live) : kept = Without(live, gone) /\ Cardinality(D) >= StoreLimit
  BY <1>2 DEF Evicted
<1>4. gone = i /\ DOMAIN kept = D \ {i}
  BY <1>2, <1>3 DEF Without
<1>5. \A j \in D : map[i].expires <= map[j].expires
  BY <1>1, <1>2, <1>3, <1>4 DEF Oldest
<1>6. /\ Cardinality(D) \in Nat /\ Cardinality(D) = StoreLimit
      /\ IsFiniteSet(D) /\ IsFiniteSet(DOMAIN map) /\ Cardinality(DOMAIN map) = StoreLimit
  <2>1. IsFiniteSet(DOMAIN map) /\ D \subseteq DOMAIN map
    BY <1>1 DEF Bounded
  <2>2. IsFiniteSet(D) /\ Cardinality(D) <= Cardinality(DOMAIN map)
    BY <2>1, FS_Subset
  <2>3. Cardinality(D) \in Nat /\ Cardinality(DOMAIN map) \in Nat
    BY <2>1, <2>2, FS_CardinalityType
  <2>. QED
    BY <1>3, <2>1, <2>2, <2>3, StoreAssumption DEF Bounded, StoreAssumption
<1>7. D = DOMAIN map
  BY <1>1, <1>6, FS_Subset
<1>8. LostEarly(map, next) = {i}
  BY <1>1, <1>2, <1>4 DEF LostEarly, Put
<1>. QED
  BY <1>5, <1>6, <1>7, <1>8

LEMMA PruneGivesUpNothing ==
    ASSUME now \in Nat, NEW map, NEW next, NEW t \in 0..now,
           \A i \in DOMAIN map : map[i].expires \in Nat,
           DOMAIN next = DOMAIN Prune(map, t)
    PROVE  LostEarly(map, next) = {}
BY DEF LostEarly, Prune

(* A save gives up at most one live entry, the oldest, of a full map.      *)
THEOREM EvictsOldestOnly == Spec => EvictionIsOldestFirst
<1>. DEFINE Gives(map, next) ==
              \A i \in LostEarly(map, next) :
                 /\ Cardinality(DOMAIN Prune(map, now)) = StoreLimit
                 /\ LostEarly(map, next) = {i}
                 /\ \A j \in DOMAIN map \cap DOMAIN next : map[i].expires <= map[j].expires
<1>1. ASSUME BoundedInv, TypedInv, Next
      PROVE  Gives(quotes, quotes') /\ Gives(preparations, preparations')
  <2>1. /\ now \in Nat /\ now \in 0..now
        /\ \A i \in DOMAIN quotes : quotes[i].expires \in Nat
        /\ \A i \in DOMAIN preparations : preparations[i].expires \in Nat
    BY <1>1 DEF TypedInv, StoredQuote
  <2>2. \A t \in 0..now :
          /\ DOMAIN quotes' = DOMAIN Prune(quotes, t) => LostEarly(quotes, quotes') = {}
          /\ DOMAIN preparations' = DOMAIN Prune(preparations, t) =>
                LostEarly(preparations, preparations') = {}
    BY <2>1, PruneGivesUpNothing
  <2>3. CASE Tick
    <3>1. LostEarly(quotes, quotes') = {} /\ LostEarly(preparations, preparations') = {}
      BY <2>3 DEF Tick, storeVars, LostEarly
    <3>. QED
      BY <3>1
  <2>4. CASE SomeSearchEnds
    <3>1. PICK id, entry : \E kept \in Evicted(Prune(quotes, now)) : quotes' = Put(kept, id, entry)
      BY <2>4 DEF SomeSearchEnds, SaveQuote
    <3>2. Gives(quotes, quotes')
      BY <1>1, <2>1, <3>1, SaveGivesUp DEF BoundedInv
    <3>3. LostEarly(preparations, preparations') = {}
      BY <2>1, <2>2, <2>4 DEF SomeSearchEnds, SaveQuote
    <3>. QED
      BY <3>2, <3>3
  <2>5. CASE SomePreparationEnds
    <3>1. PICK id, entry :
            \E kept \in Evicted(Prune(preparations, now)) : preparations' = Put(kept, id, entry)
      BY <2>5 DEF SomePreparationEnds, SavePreparation
    <3>2. Gives(preparations, preparations')
      BY <1>1, <2>1, <3>1, SaveGivesUp DEF BoundedInv
    <3>3. LostEarly(quotes, quotes') = {}
      BY <2>1, <2>2, <2>5 DEF SomePreparationEnds, SavePreparation
    <3>. QED
      BY <3>2, <3>3
  <2>6. CASE SomeLookup
    <3>1. LostEarly(quotes, quotes') = {} /\ LostEarly(preparations, preparations') = {}
      BY <2>2, <2>6 DEF SomeLookup, Lookup
    <3>. QED
      BY <3>1
  <2>7. CASE SomeMark
    <3>1. LostEarly(quotes, quotes') = {} /\ LostEarly(preparations, preparations') = {}
      BY <1>1, <2>1, <2>2, <2>7, MarkMember DEF SomeMark, MarkApproval
    <3>. QED
      BY <3>1
  <2>. QED
    BY <1>1, <2>3, <2>4, <2>5, <2>6, <2>7 DEF Next
<1>2. BoundedInv /\ TypedInv /\ [Next]_vars =>
        [ /\ \A i \in LostEarly(quotes, quotes') :
                /\ Cardinality(DOMAIN Prune(quotes, now)) = StoreLimit
                /\ LostEarly(quotes, quotes') = {i}
                /\ \A j \in DOMAIN quotes \cap DOMAIN quotes' :
                      quotes[i].expires <= quotes[j].expires
          /\ \A i \in LostEarly(preparations, preparations') :
                /\ Cardinality(DOMAIN Prune(preparations, now)) = StoreLimit
                /\ LostEarly(preparations, preparations') = {i}
                /\ \A j \in DOMAIN preparations \cap DOMAIN preparations' :
                      preparations[i].expires <= preparations[j].expires
        ]_vars
  BY <1>1
<1>. QED
  BY <1>2, StoreAlways, PTL DEF EvictionIsOldestFirst, Spec

(* A quote that stays keeps its expiry and every mark it has.              *)
THEOREM MarksStick == Spec => MarksAndExpiryStick
<1>1. ASSUME TypedInv, Next, NEW q \in DOMAIN quotes \cap DOMAIN quotes'
      PROVE  /\ quotes[q].approvals \subseteq quotes'[q].approvals
             /\ quotes[q].expires = quotes'[q].expires
  <2>1. CASE SomeSearchEnds
    <3>0. PICK id \in QuoteIds \ DOMAIN quotes :
            \E entry : \E kept \in Evicted(Prune(quotes, now)) : quotes' = Put(kept, id, entry)
      BY <2>1 DEF SomeSearchEnds, SaveQuote
    <3>1. PICK entry :
            \E kept \in Evicted(Prune(quotes, now)) : quotes' = Put(kept, id, entry)
      BY <3>0
    <3>2. quotes'[q] = quotes[q]
      <4>1. PICK kept \in Evicted(Prune(quotes, now)) : quotes' = Put(kept, id, entry)
        BY <3>1
      <4>2. q # id
        BY <1>1
      <4>3. q \in DOMAIN kept /\ quotes'[q] = kept[q]
        BY <1>1, <4>1, <4>2 DEF Put
      <4>4. kept[q] = Prune(quotes, now)[q] /\ q \in DOMAIN Prune(quotes, now)
        BY <4>3, EvictedMember
      <4>. QED
        BY <4>3, <4>4 DEF Prune
    <3>. QED
      BY <3>2
  <2>2. CASE SomeMark
    BY <1>1, <2>2, MarkMember DEF SomeMark
  <2>3. CASE Tick \/ SomePreparationEnds \/ SomeLookup
    BY <1>1, <2>3
    DEF Tick, storeVars, SomePreparationEnds, SavePreparation, SomeLookup, Lookup, Prune
  <2>. QED
    BY <1>1, <2>1, <2>2, <2>3 DEF Next
<1>2. TypedInv /\ [Next]_vars =>
        [ \A id \in DOMAIN quotes \cap DOMAIN quotes' :
             /\ quotes[id].approvals \subseteq quotes'[id].approvals
             /\ quotes[id].expires = quotes'[id].expires
        ]_vars
  BY <1>1
<1>. QED
  BY <1>2, StoreAlways, PTL DEF MarksAndExpiryStick, Spec

=============================================================================
