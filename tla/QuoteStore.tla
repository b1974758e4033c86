----------------------------- MODULE QuoteStore -----------------------------
(***************************************************************************)
(* The in-memory Store of the quote engine: two maps under one mutex, each *)
(* entry with an expiry.  Every operation holds the mutex for its whole    *)
(* body and makes no network call, so every operation is one atomic step.  *)
(*                                                                         *)
(* A quote keeps the terms it was saved with and the approval marks that   *)
(* MarkApproval adds.  A preparation is any record with an expiry; what it *)
(* carries besides is the business of PrepareExecution, which instantiates *)
(* this module and takes these operations as parts of its own actions.     *)
(***************************************************************************)
EXTENDS Integers, FiniteSets

CONSTANTS
    QuoteIds,        \* identities rand.Text gives quotes, each used once
    PreparationIds,  \* identities rand.Text gives preparations
    Marks,           \* approval keys: recipient + spender, or the Permit2 triple
    Terms,           \* what a quote is saved with (request and final result)
    Retention,       \* 30 seconds
    StoreLimit,      \* 1024 entries in each map
    MaxTime          \* bound of the clock

ASSUME StoreAssumption ==
    /\ Retention \in Nat
    /\ StoreLimit \in Nat \ {0}
    /\ MaxTime \in Nat

VARIABLES
    now,             \* time.Now()
    quotes,          \* Store.quotes, a partial function on QuoteIds
    preparations     \* Store.preparations, a partial function on PreparationIds

storeVars == <<quotes, preparations>>
vars == <<now, quotes, preparations>>

-----------------------------------------------------------------------------

Prune(map, t) == [id \in {i \in DOMAIN map : t < map[i].expires} |-> map[id]]

Without(map, id) == [i \in DOMAIN map \ {id} |-> map[i]]

Put(map, id, entry) ==
    [i \in DOMAIN map \cup {id} |-> IF i = id THEN entry ELSE map[i]]

(* Mutant: the comparison of store.go:61 turned round.                     *)
OldestReversed(map) ==
    {i \in DOMAIN map : \A j \in DOMAIN map : map[i].expires >= map[j].expires}

Oldest(map) ==
    {i \in DOMAIN map : \A j \in DOMAIN map : map[i].expires <= map[j].expires}

(* Mutant: room is made only when the limit is already exceeded.           *)
EvictedLate(map) ==
    IF Cardinality(DOMAIN map) > StoreLimit
    THEN {Without(map, id) : id \in Oldest(map)}
    ELSE {map}

(* What may remain of a map once room is made: the iteration order of a Go *)
(* map picks among the entries that expire first.                          *)
Evicted(map) ==
    IF Cardinality(DOMAIN map) >= StoreLimit
    THEN {Without(map, id) : id \in Oldest(map)}
    ELSE {map}

(* The quote's lifetime runs from the start of its search, not from the    *)
(* moment it is saved.                                                     *)
SaveQuote(id, terms, started) ==
    /\ \E kept \in Evicted(Prune(quotes, now)) :
          quotes' = Put(kept, id, [expires |-> started + Retention,
                                   approvals |-> {},
                                   terms |-> terms])
    /\ preparations' = Prune(preparations, now)

(* Saving an identity again still makes room first: a full map loses its   *)
(* oldest entry even when the save only replaces one.                      *)
SavePreparation(id, p) ==
    /\ \E kept \in Evicted(Prune(preparations, now)) :
          preparations' = Put(kept, id, p)
    /\ quotes' = Prune(quotes, now)

(* t is the caller's clock reading, taken before the mutex was acquired.   *)
Lookup(t) ==
    /\ quotes' = Prune(quotes, t)
    /\ preparations' = Prune(preparations, t)

(* The quote's state as MarkApproval finds it: pruned first, by the clock  *)
(* reading t the caller evaluated for the call, before the mutex was his.  *)
Live(id, t) == id \in DOMAIN Prune(quotes, t)

Marked(id, mark, t) == Live(id, t) /\ mark \in quotes[id].approvals

(* Mutant: the mark follows the latest observation.                        *)
MarkLatest(id, mark, required, t) ==
    LET live == Prune(quotes, t)
    IN  /\ quotes' = IF id \in DOMAIN live
                     THEN [live EXCEPT ![id].approvals =
                              IF required THEN @ \cup {mark} ELSE @ \ {mark}]
                     ELSE live
        /\ preparations' = Prune(preparations, t)

MarkApproval(id, mark, required, t) ==
    LET live == Prune(quotes, t)
    IN  /\ quotes' = IF id \in DOMAIN live /\ required
                     THEN [live EXCEPT ![id].approvals = @ \cup {mark}]
                     ELSE live
        /\ preparations' = Prune(preparations, t)

-----------------------------------------------------------------------------
(* The Store on its own: any caller, any order, a clock that may move      *)
(* between any two operations.                                             *)

Init ==
    /\ now = 0
    /\ quotes = <<>>
    /\ preparations = <<>>

Tick ==
    /\ now < MaxTime
    /\ now' = now + 1
    /\ UNCHANGED storeVars

(* A search that started in the past is saved now; its identity is new.    *)
SomeSearchEnds ==
    /\ \E id \in QuoteIds \ DOMAIN quotes, terms \in Terms, started \in 0..now :
          SaveQuote(id, terms, started)
    /\ UNCHANGED now

(* A preparation is saved first, by a caller that read the clock some time *)
(* ago, or again with the expiry it always had.                            *)
SomePreparationEnds ==
    /\ \E id \in PreparationIds, began \in 0..now :
          /\ id \in DOMAIN preparations => preparations[id].expires = began + Retention
          /\ SavePreparation(id, [expires |-> began + Retention])
    /\ UNCHANGED now

SomeLookup ==
    /\ \E t \in 0..now : Lookup(t)
    /\ UNCHANGED now

SomeMark ==
    /\ \E id \in QuoteIds, mark \in Marks, required \in BOOLEAN, t \in 0..now :
          MarkApproval(id, mark, required, t)
    /\ UNCHANGED now

Next ==
    \/ Tick
    \/ SomeSearchEnds
    \/ SomePreparationEnds
    \/ SomeLookup
    \/ SomeMark

Spec == Init /\ [][Next]_vars

-----------------------------------------------------------------------------

StoredQuote == [expires : Nat, approvals : SUBSET Marks, terms : Terms]

(* Neither map ever holds more than StoreLimit entries, whatever sequence  *)
(* of saves, replacements and lookups the engine serves (store.go:57,74).  *)
StoreBounded ==
    /\ Cardinality(DOMAIN quotes) <= StoreLimit
    /\ Cardinality(DOMAIN preparations) <= StoreLimit

LostEarly(map, next) == {i \in DOMAIN map \ DOMAIN next : now < map[i].expires}

(* A save gives up at most one live entry, only when the map is full, and  *)
(* never one that outlives an entry it keeps: the newest quotes survive a  *)
(* burst (store.go:57-66, 74-83).                                          *)
EvictionIsOldestFirst ==
    [][ /\ \A i \in LostEarly(quotes, quotes') :
              /\ Cardinality(DOMAIN Prune(quotes, now)) = StoreLimit
              /\ LostEarly(quotes, quotes') = {i}
              /\ \A j \in DOMAIN quotes \cap DOMAIN quotes' :
                    quotes[i].expires <= quotes[j].expires
        /\ \A i \in LostEarly(preparations, preparations') :
              /\ Cardinality(DOMAIN Prune(preparations, now)) = StoreLimit
              /\ LostEarly(preparations, preparations') = {i}
              /\ \A j \in DOMAIN preparations \cap DOMAIN preparations' :
                    preparations[i].expires <= preparations[j].expires
      ]_vars

(* While a quote stays in the Store its marks only grow and its expiry is  *)
(* never moved: no operation makes an old price live longer or forgets an  *)
(* approval (store.go:67, 118-121).                                        *)
MarksAndExpiryStick ==
    [][ \A id \in DOMAIN quotes \cap DOMAIN quotes' :
           /\ quotes[id].approvals \subseteq quotes'[id].approvals
           /\ quotes[id].expires = quotes'[id].expires
      ]_vars

=============================================================================
