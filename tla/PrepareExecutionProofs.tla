----------------------- MODULE PrepareExecutionProofs -----------------------
(***************************************************************************)
(* What is proved of PrepareExecution, for every number of requests,       *)
(* quotes, keys and blocks.                                                *)
(*                                                                         *)
(* 1. Type correctness.                                                    *)
(* 2. One preparation gives one verdict.  The request that creates a       *)
(*    preparation settles its approval flag before it saves it, and every  *)
(*    copy, in the Store or held by a recheck across its awaits, carries   *)
(*    that same flag; a recheck answers READY only on a copy without it    *)
(*    and asks for an approval only on a copy with it (VerdictInv).        *)
(* 3. The handler implements PreparationContract.  The creator's plan is   *)
(*    frozen once it has answered, and every copy equals it in all but the *)
(*    flag and the grants offered (TermsInv).  An accepted request then    *)
(*    either repeats the creator's decision or is the creator, before whom *)
(*    nobody can have answered for this id.                                *)
(* 4. The age of a price, the conditions of a swap and the marks (SafeInv).*)
(*    A request arrives while its quote is alive, so its plan ends before  *)
(*    the second retention period does, and no later copy moves that; each *)
(*    await records what the one before has seen at the snapshot; and a    *)
(*    quote that is still there has every mark it was looked up with.      *)
(***************************************************************************)
EXTENDS PrepareExecution, TLAPS

-----------------------------------------------------------------------------
(* What the Store's operations leave behind.                               *)

Within(new, old) ==
    /\ DOMAIN new \subseteq DOMAIN old
    /\ \A i \in DOMAIN new : new[i] = old[i]

LEMMA PruneWithin ==
    ASSUME NEW map, NEW t
    PROVE  Within(Store!Prune(map, t), map)
BY DEF Within, Store!Prune

LEMMA EvictedWithin ==
    ASSUME NEW map, NEW t, NEW kept \in Store!Evicted(Store!Prune(map, t))
    PROVE  Within(kept, map)
<1>. DEFINE live == Store!Prune(map, t)
<1>1. Within(live, map)
  BY PruneWithin
<1>2. Within(kept, live)
  <2>1. CASE kept = live
    BY <2>1 DEF Within
  <2>2. CASE \E id \in Store!Oldest(live) : kept = Store!Without(live, id)
    BY <2>2 DEF Within, Store!Without
  <2>. QED
    BY <2>1, <2>2 DEF Store!Evicted
<1>. QED
  BY <1>1, <1>2 DEF Within

LEMMA LookupKeeps ==
    ASSUME NEW t, Store!Lookup(t)
    PROVE  Within(quotes', quotes) /\ Within(preparations', preparations)
BY PruneWithin DEF Store!Lookup

LEMMA PutMember ==
    ASSUME NEW map, NEW id, NEW entry, NEW i \in DOMAIN Store!Put(map, id, entry)
    PROVE  /\ i = id \/ i \in DOMAIN map
           /\ Store!Put(map, id, entry)[i] = IF i = id THEN entry ELSE map[i]
BY DEF Store!Put

LEMMA SavePreparationKeeps ==
    ASSUME NEW id, NEW p, Store!SavePreparation(id, p)
    PROVE  /\ Within(quotes', quotes)
           /\ DOMAIN preparations' \subseteq DOMAIN preparations \cup {id}
           /\ \A i \in DOMAIN preparations' :
                 preparations'[i] = IF i = id THEN p ELSE preparations[i]
<1>1. PICK kept \in Store!Evicted(Store!Prune(preparations, now)) :
        preparations' = Store!Put(kept, id, p)
  BY DEF Store!SavePreparation
<1>2. Within(kept, preparations)
  BY EvictedWithin
<1>3. Within(quotes', quotes)
  BY PruneWithin DEF Store!SavePreparation
<1>4. ASSUME NEW i \in DOMAIN preparations'
      PROVE  /\ i = id \/ i \in DOMAIN preparations
             /\ preparations'[i] = IF i = id THEN p ELSE preparations[i]
  BY <1>1, <1>2, <1>4, PutMember DEF Within
<1>. QED
  BY <1>3, <1>4

LEMMA SaveQuoteKeeps ==
    ASSUME QuotesOK(quotes), PrepareAssumption, NEW id \in QuoteIds, NEW terms \in Block,
           NEW started \in Nat, Store!SaveQuote(id, terms, started)
    PROVE  Within(preparations', preparations) /\ QuotesOK(quotes')
<1>. DEFINE entry == [expires |-> started + Retention, approvals |-> {}, terms |-> terms]
<1>1. PICK kept \in Store!Evicted(Store!Prune(quotes, now)) :
        quotes' = Store!Put(kept, id, entry)
  BY DEF Store!SaveQuote
<1>2. Within(kept, quotes)
  BY EvictedWithin
<1>3. entry \in Store!StoredQuote
  BY DEF PrepareAssumption, Store!StoredQuote
<1>4. Within(preparations', preparations)
  BY PruneWithin DEF Store!SaveQuote
<1>. HIDE DEF entry
<1>5. ASSUME NEW q \in DOMAIN quotes'
      PROVE  q \in QuoteIds /\ quotes'[q] \in Store!StoredQuote
  <2>1. CASE q = id
    BY <1>1, <1>3, <2>1, PutMember
  <2>2. CASE q # id
    BY <1>1, <1>2, <1>5, <2>2, PutMember DEF Within, QuotesOK
  <2>. QED
    BY <2>1, <2>2
<1>. QED
  BY <1>4, <1>5 DEF QuotesOK

LEMMA MarkKeeps ==
    ASSUME QuotesOK(quotes), NEW id, NEW mark \in Keys \X {"erc20", "permit2"},
           NEW required, NEW t, Store!MarkApproval(id, mark, required, t)
    PROVE  Within(preparations', preparations) /\ QuotesOK(quotes')
<1>. DEFINE live == Store!Prune(quotes, t)
            marked == [live[id] EXCEPT !.approvals = @ \cup {mark}]
<1>1. Within(live, quotes)
  BY PruneWithin
<1>2. QuotesOK(live)
  BY <1>1 DEF Within, QuotesOK
<1>3. Within(preparations', preparations)
  BY PruneWithin DEF Store!MarkApproval
<1>4. CASE quotes' = live
  BY <1>2, <1>3, <1>4
<1>5. CASE quotes' = [live EXCEPT ![id].approvals = @ \cup {mark}] /\ id \in DOMAIN live
  <2>1. marked \in Store!StoredQuote
    <3>1. live[id] \in Store!StoredQuote
      BY <1>2, <1>5 DEF QuotesOK
    <3>. HIDE DEF live
    <3>. QED
      BY <3>1 DEF Store!StoredQuote
  <2>. HIDE DEF live
  <2>2. quotes' = [q \in DOMAIN live |-> IF q = id THEN marked ELSE live[q]]
    BY <1>5
  <2>. HIDE DEF marked
  <2>. QED
    BY <1>2, <1>3, <2>1, <2>2 DEF QuotesOK
<1>. QED
  BY <1>4, <1>5 DEF Store!MarkApproval

-----------------------------------------------------------------------------
(* Type correctness.                                                       *)

LEMMA InitType == PrepareAssumption /\ Init => TypeOK
<1>. SUFFICES ASSUME PrepareAssumption, Init PROVE TypeOK
  OBVIOUS
<1>1. PICK block \in [hash : {1}, time : {1}, covers : [Keys -> BOOLEAN],
                      permitUntil : {[k \in Keys |-> 0]}] : chain = <<block>>
  BY DEF Init
<1>2. block \in Block
  BY <1>1 DEF Block
<1>3. chain \in Seq(Block) /\ chain # <<>>
  BY <1>1, <1>2
<1>4. DOMAIN quotes = {} /\ DOMAIN preparations = {}
  BY DEF Init
<1>5. \A r \in Requests : LocalsOK(r)
  BY DEF Init, LocalsOK, Working, Checking, Answered, Ready, Approving
<1>. QED
  BY <1>3, <1>4, <1>5 DEF Init, TypeOK, QuotesOK, PlansOK

(* A step of one request leaves the locals of every other one alone.       *)
OnlyTouches(r) ==
    /\ DOMAIN pc' = Requests /\ DOMAIN answer' = Requests
    /\ DOMAIN ask' = Requests /\ DOMAIN began' = Requests
    /\ DOMAIN saved' = Requests /\ DOMAIN snap' = Requests /\ DOMAIN plan' = Requests
    /\ \A s \in Requests \ {r} :
          /\ pc'[s] = pc[s] /\ answer'[s] = answer[s]
          /\ ask'[s] = ask[s] /\ began'[s] = began[s]
          /\ saved'[s] = saved[s] /\ snap'[s] = snap[s] /\ plan'[s] = plan[s]

LEMMA RefuseTouches ==
    ASSUME TypeOK, NEW r \in Requests, Refuse(r)
    PROVE  OnlyTouches(r)
BY DEF Refuse, Forget, OnlyTouches, TypeOK

LEMMA ServeTouches ==
    ASSUME TypeOK, NEW r \in Requests, Serve(r)
    PROVE  OnlyTouches(r) /\ UNCHANGED world
<1>1. CASE Arrive(r)
  BY <1>1 DEF Arrive, Goto, OnlyTouches, TypeOK
<1>2. CASE Lookup(r)
  BY <1>2, RefuseTouches DEF Lookup, Goto, OnlyTouches, TypeOK
<1>3. CASE Snapshot(r)
  BY <1>3 DEF Snapshot, Goto, OnlyTouches, TypeOK
<1>4. CASE Build(r)
  BY <1>4, RefuseTouches DEF Build, Goto, OnlyTouches, TypeOK
<1>5. CASE Verify(r)
  BY <1>5, RefuseTouches DEF Verify, Goto, OnlyTouches, TypeOK, locals
<1>6. ASSUME NEW label, NEW flag, Continue(r, label, flag)
      PROVE  OnlyTouches(r)
  BY <1>6, RefuseTouches DEF Continue, Goto, OnlyTouches, TypeOK
<1>7. CASE Allowance(r)
  BY <1>6, <1>7 DEF Allowance
<1>8. CASE Permission(r)
  BY <1>6, <1>8 DEF Permission
<1>9. CASE Grant(r)
  BY <1>9, RefuseTouches DEF Grant, Accept, OnlyTouches, TypeOK
<1>10. CASE Simulate(r)
  BY <1>10, RefuseTouches DEF Simulate, Accept, OnlyTouches, TypeOK
<1>11. CASE Fail(r)
  BY <1>11, RefuseTouches DEF Fail
<1>. QED
  BY <1>1, <1>2, <1>3, <1>4, <1>5, <1>7, <1>8, <1>9, <1>10, <1>11 DEF Serve

LEMMA TypeFromLocals ==
    ASSUME TypeOK, NEW r \in Requests, OnlyTouches(r), UNCHANGED world,
           QuotesOK(quotes'), PlansOK(preparations'), LocalsOK(r)'
    PROVE  TypeOK'
<1>1. ASSUME NEW s \in Requests PROVE LocalsOK(s)'
  <2>1. CASE s = r
    BY <2>1
  <2>2. CASE s # r
    <3>1. LocalsOK(s)
      BY DEF TypeOK
    <3>2. /\ pc'[s] = pc[s] /\ answer'[s] = answer[s]
          /\ ask'[s] = ask[s] /\ began'[s] = began[s]
          /\ saved'[s] = saved[s] /\ snap'[s] = snap[s] /\ plan'[s] = plan[s]
      BY <2>2 DEF OnlyTouches
    <3>. QED
      BY <3>1, <3>2 DEF LocalsOK, Recheck, Answered, Ready, Approving
  <2>. QED
    BY <2>1, <2>2
<1>2. QuotesOK(quotes)' /\ PlansOK(preparations)'
  BY DEF QuotesOK, PlansOK
<1>. QED
  BY <1>1, <1>2 DEF TypeOK, OnlyTouches, world

LEMMA RefuseLocals ==
    ASSUME TypeOK, NEW r \in Requests, Refuse(r)
    PROVE  LocalsOK(r)'
<1>1. /\ pc'[r] = "done"
      /\ answer'[r] = [status |-> "REFUSED"]
  BY DEF Refuse, TypeOK
<1>2. answer'[r] # None /\ answer'[r].status = "REFUSED"
  BY <1>1, NoneAssumption DEF Answer
<1>. QED
  BY <1>1, <1>2 DEF LocalsOK, Answered, Ready, Approving, Working, Checking, Answer

LEMMA WithinTyped ==
    ASSUME NEW new, NEW old, Within(new, old)
    PROVE  (QuotesOK(old) => QuotesOK(new)) /\ (PlansOK(old) => PlansOK(new))
BY DEF Within, QuotesOK, PlansOK

LEMMA ArriveType ==
    ASSUME TypeOK, NEW r \in Requests, Arrive(r)
    PROVE  QuotesOK(quotes') /\ PlansOK(preparations') /\ LocalsOK(r)'
<1>1. QuotesOK(quotes') /\ PlansOK(preparations')
  BY DEF Arrive, storeVars, TypeOK
<1>2. LocalsOK(r) /\ pc[r] = "idle" /\ now \in Nat
  BY DEF Arrive, TypeOK
<1>3. PICK m \in [recheck : {FALSE}, quote : QuoteIds, key : Keys, id : {r}]
           \cup [recheck : {TRUE}, quote : {None}, key : {None}, id : Requests \ {r}] :
          ask' = [ask EXCEPT ![r] = m]
  BY DEF Arrive
<1>4. m \in Message
  BY <1>3 DEF Message
<1>5. pc'[r] = "lookup" /\ began'[r] \in Nat /\ ask'[r] \in Message
  BY <1>2, <1>3, <1>4 DEF Arrive, Goto, TypeOK
<1>. QED
  BY <1>1, <1>2, <1>5
  DEF LocalsOK, Arrive, Goto, Working, Checking, Answered, Ready, Approving

LEMMA LookupType ==
    ASSUME TypeOK, NEW r \in Requests, Lookup(r)
    PROVE  QuotesOK(quotes') /\ PlansOK(preparations') /\ LocalsOK(r)'
<1>1. Within(quotes', quotes) /\ Within(preparations', preparations)
  BY LookupKeeps DEF Lookup
<1>2. QuotesOK(quotes') /\ PlansOK(preparations')
  BY <1>1, WithinTyped DEF TypeOK
<1>3. LocalsOK(r) /\ pc[r] = "lookup" /\ ask[r] \in Message
  BY DEF TypeOK, Lookup, LocalsOK, Working
<1>4. CASE Refuse(r)
  BY <1>2, <1>4, RefuseLocals
<1>5. CASE /\ Recheck(r) /\ ask[r].id \in DOMAIN preparations'
           /\ plan' = [plan EXCEPT ![r] = preparations'[ask[r].id]]
           /\ Goto(r, "snapshot")
           /\ UNCHANGED <<ask, began, saved, snap>>
  <2>1. pc'[r] = "snapshot" /\ plan'[r] \in Plan
    BY <1>2, <1>5 DEF Goto, TypeOK, PlansOK
  <2>. QED
    BY <1>2, <1>3, <1>5, <2>1
    DEF LocalsOK, Goto, Working, Checking, Answered, Ready, Approving, Recheck
<1>6. CASE /\ ~Recheck(r) /\ ask[r].quote \in DOMAIN quotes'
           /\ saved' = [saved EXCEPT ![r] = quotes'[ask[r].quote]]
           /\ Goto(r, "snapshot")
           /\ UNCHANGED <<ask, began, snap, plan>>
  <2>1. pc'[r] = "snapshot" /\ saved'[r] \in Store!StoredQuote
    BY <1>2, <1>6 DEF Goto, TypeOK, QuotesOK
  <2>. QED
    BY <1>2, <1>3, <1>6, <2>1
    DEF LocalsOK, Goto, Working, Checking, Answered, Ready, Approving, Recheck
<1>. QED
  BY <1>4, <1>5, <1>6 DEF Lookup

LEMMA SnapshotType ==
    ASSUME TypeOK, NEW r \in Requests, Snapshot(r)
    PROVE  QuotesOK(quotes') /\ PlansOK(preparations') /\ LocalsOK(r)'
<1>1. QuotesOK(quotes') /\ PlansOK(preparations')
  BY DEF Snapshot, storeVars, TypeOK
<1>2. LocalsOK(r) /\ pc[r] = "snapshot" /\ Latest \in Block
  BY DEF Snapshot, TypeOK, Latest
<1>3. /\ pc'[r] = IF Recheck(r) THEN "verify" ELSE "build"
      /\ snap'[r] \in Block
  BY <1>2 DEF Snapshot, Goto, TypeOK
<1>. QED
  BY <1>1, <1>2, <1>3
  DEF LocalsOK, Snapshot, Goto, Working, Checking, Answered, Ready, Approving, Recheck

LEMMA BuildType ==
    ASSUME TypeOK, PrepareAssumption, NEW r \in Requests, Build(r)
    PROVE  QuotesOK(quotes') /\ PlansOK(preparations') /\ LocalsOK(r)'
<1>1. QuotesOK(quotes') /\ PlansOK(preparations')
  BY DEF Build, storeVars, TypeOK
<1>2. LocalsOK(r) /\ pc[r] = "build"
  BY DEF Build, TypeOK
<1>3. CASE Refuse(r)
  BY <1>1, <1>3, RefuseLocals
<1>4. CASE ~Refuse(r)
  <2>1. /\ ask[r] \in Message /\ ~ask[r].recheck
        /\ began[r] \in Nat /\ snap[r] \in Block
    BY <1>2 DEF LocalsOK, Recheck, Working
  <2>. DEFINE built == [quote |-> ask[r].quote, key |-> ask[r].key,
                        expires |-> began[r] + Retention,
                        deadline |-> snap[r].time + DeadlineWindow,
                        approval |-> FALSE, offer |-> {}]
  <2>2. ask[r].quote \in QuoteIds /\ ask[r].key \in Keys
    BY <2>1 DEF Message
  <2>3. began[r] + Retention \in Nat
    BY <2>1 DEF PrepareAssumption
  <2>4. snap[r].time + DeadlineWindow \in Nat
    BY <2>1 DEF PrepareAssumption, Block
  <2>5. built \in Plan
    BY <2>2, <2>3, <2>4 DEF Plan
  <2>6. plan' = [plan EXCEPT ![r] = built] /\ pc' = [pc EXCEPT ![r] = "verify"]
    BY <1>4 DEF Build, Goto
  <2>. HIDE DEF built
  <2>7. pc'[r] = "verify" /\ plan'[r] \in Plan
    BY <2>5, <2>6 DEF TypeOK
  <2>. QED
    BY <1>1, <1>2, <1>4, <2>7
    DEF LocalsOK, Build, Goto, Working, Checking, Answered, Ready, Approving, Recheck
<1>. QED
  BY <1>3, <1>4

LEMMA VerifyType ==
    ASSUME TypeOK, NEW r \in Requests, Verify(r)
    PROVE  QuotesOK(quotes') /\ PlansOK(preparations') /\ LocalsOK(r)'
<1>1. QuotesOK(quotes') /\ PlansOK(preparations')
  BY DEF Verify, storeVars, TypeOK
<1>2. LocalsOK(r) /\ pc[r] = "verify"
  BY DEF Verify, TypeOK
<1>3. CASE Refuse(r)
  BY <1>1, <1>3, RefuseLocals
<1>4. CASE Goto(r, "allowance") /\ UNCHANGED locals
  <2>1. pc'[r] = "allowance"
    BY <1>4 DEF Goto, TypeOK
  <2>. QED
    BY <1>1, <1>2, <1>4, <2>1
    DEF LocalsOK, locals, Goto, Working, Checking, Answered, Ready, Approving, Recheck
<1>. QED
  BY <1>3, <1>4 DEF Verify

LEMMA ContinueType ==
    ASSUME TypeOK, NEW r \in Requests, pc[r] \in Checking,
           NEW label \in {"requote"} \cup Checking, NEW flag \in BOOLEAN,
           Continue(r, label, flag)
    PROVE  LocalsOK(r)'
<1>1. LocalsOK(r)
  BY DEF TypeOK
<1>2. CASE label = "requote"
  BY <1>2, RefuseLocals DEF Continue
<1>3. CASE label # "requote"
  <2>. DEFINE flagged == [plan[r] EXCEPT !.approval = flag]
  <2>1. plan[r] \in Plan
    BY <1>1 DEF LocalsOK
  <2>2. flagged \in Plan
    BY <2>1 DEF Plan
  <2>3. plan' = [plan EXCEPT ![r] = flagged] /\ pc' = [pc EXCEPT ![r] = label]
    BY <1>3 DEF Continue, Goto
  <2>. HIDE DEF flagged
  <2>4. plan'[r] \in Plan /\ pc'[r] = label /\ label \in Checking
    BY <1>3, <2>2, <2>3 DEF TypeOK
  <2>. QED
    BY <1>1, <1>3, <2>4
    DEF LocalsOK, Continue, Goto, Working, Checking, Answered, Ready, Approving, Recheck
<1>. QED
  BY <1>2, <1>3

LEMMA AllowanceType ==
    ASSUME TypeOK, NEW r \in Requests, Allowance(r)
    PROVE  QuotesOK(quotes') /\ PlansOK(preparations') /\ LocalsOK(r)'
<1>. DEFINE mark == <<plan[r].key, "erc20">>
            before(t) == Store!Marked(plan[r].quote, mark, t)
<1>1. pc[r] = "allowance" /\ pc[r] \in Checking /\ LocalsOK(r)
  BY DEF Allowance, Checking, TypeOK
<1>2. plan[r] \in Plan
  BY <1>1 DEF LocalsOK
<1>3. mark \in Keys \X {"erc20", "permit2"} /\ plan[r].approval \in BOOLEAN
  BY <1>2 DEF Plan
<1>4. \A t : before(t) \in BOOLEAN
  BY DEF Store!Marked, Store!Live
<1>. HIDE DEF mark, before
<1>5. \A flag : AfterAllowance(r, flag) \in {"requote"} \cup Checking
  BY DEF AfterAllowance, Checking
<1>6. CASE Recheck(r)
  <2>1. Continue(r, AfterAllowance(r, plan[r].approval), plan[r].approval)
    BY <1>6 DEF Allowance
  <2>2. LocalsOK(r)'
    BY <1>1, <1>3, <1>5, <2>1, ContinueType
  <2>. QED
    BY <1>6, <2>2 DEF Allowance, storeVars, TypeOK
<1>7. CASE ~Recheck(r)
  <2>1. PICK t \in began[r]..now :
          /\ Store!MarkApproval(plan[r].quote, mark, ~Covered(r), t)
          /\ Continue(r, IF QuoteLost(r, t) THEN "requote" ELSE AfterAllowance(r, before(t)), before(t))
    BY <1>7 DEF Allowance, mark, before
  <2>2. LocalsOK(r)'
    <3>. DEFINE flag == before(t)
                label == IF QuoteLost(r, t) THEN "requote" ELSE AfterAllowance(r, flag)
    <3>1. label \in {"requote"} \cup Checking /\ flag \in BOOLEAN /\ Continue(r, label, flag)
      BY <1>4, <1>5, <2>1
    <3>. HIDE DEF label, flag
    <3>. QED
      BY <1>1, <3>1, ContinueType
  <2>3. QuotesOK(quotes') /\ Within(preparations', preparations)
    BY <1>3, <2>1, MarkKeeps DEF TypeOK
  <2>. QED
    BY <2>2, <2>3, WithinTyped DEF TypeOK
<1>. QED
  BY <1>6, <1>7

LEMMA PermissionType ==
    ASSUME TypeOK, NEW r \in Requests, Permission(r)
    PROVE  QuotesOK(quotes') /\ PlansOK(preparations') /\ LocalsOK(r)'
<1>. DEFINE mark == <<plan[r].key, "permit2">>
            before(t) == plan[r].approval \/ Store!Marked(plan[r].quote, mark, t)
<1>1. pc[r] = "permission" /\ pc[r] \in Checking /\ LocalsOK(r)
  BY DEF Permission, Checking, TypeOK
<1>2. plan[r] \in Plan
  BY <1>1 DEF LocalsOK
<1>3. mark \in Keys \X {"erc20", "permit2"} /\ plan[r].approval \in BOOLEAN
  BY <1>2 DEF Plan
<1>4. \A t : before(t) \in BOOLEAN
  BY DEF Store!Marked, Store!Live
<1>. HIDE DEF mark, before
<1>5. \A flag : AfterPermission(r, flag) \in {"requote"} \cup Checking
  BY DEF AfterPermission, Checking
<1>6. CASE Recheck(r)
  <2>1. Continue(r, AfterPermission(r, plan[r].approval), plan[r].approval)
    BY <1>6 DEF Permission
  <2>2. LocalsOK(r)'
    BY <1>1, <1>3, <1>5, <2>1, ContinueType
  <2>. QED
    BY <1>6, <2>2 DEF Permission, storeVars, TypeOK
<1>7. CASE ~Recheck(r)
  <2>1. PICK t \in began[r]..now :
          /\ Store!MarkApproval(plan[r].quote, mark, PermitShort(r), t)
          /\ Continue(r, IF QuoteLost(r, t) THEN "requote" ELSE AfterPermission(r, before(t)), before(t))
    BY <1>7 DEF Permission, mark, before
  <2>2. LocalsOK(r)'
    <3>. DEFINE flag == before(t)
                label == IF QuoteLost(r, t) THEN "requote" ELSE AfterPermission(r, flag)
    <3>1. label \in {"requote"} \cup Checking /\ flag \in BOOLEAN /\ Continue(r, label, flag)
      BY <1>4, <1>5, <2>1
    <3>. HIDE DEF label, flag
    <3>. QED
      BY <1>1, <3>1, ContinueType
  <2>3. QuotesOK(quotes') /\ Within(preparations', preparations)
    BY <1>3, <2>1, MarkKeeps DEF TypeOK
  <2>. QED
    BY <2>2, <2>3, WithinTyped DEF TypeOK
<1>. QED
  BY <1>6, <1>7

LEMMA SavedTyped ==
    ASSUME TypeOK, NEW id \in Requests, NEW p \in Plan, Store!SavePreparation(id, p)
    PROVE  QuotesOK(quotes') /\ PlansOK(preparations')
BY SavePreparationKeeps, WithinTyped DEF TypeOK, PlansOK

LEMMA GrantType ==
    ASSUME TypeOK, NEW r \in Requests, Grant(r)
    PROVE  QuotesOK(quotes') /\ PlansOK(preparations') /\ LocalsOK(r)'
<1>. DEFINE granted == [plan[r] EXCEPT !.approval = TRUE, !.offer = @ \cup {pc[r]}]
<1>1. pc[r] \in {"approve", "permit"} /\ LocalsOK(r) /\ now \in Nat
  BY DEF Grant, TypeOK
<1>2. plan[r] \in Plan /\ snap[r] \in Block /\ ask[r] \in Message
  BY <1>1 DEF LocalsOK, Checking, Working
<1>3. granted \in Plan
  BY <1>1, <1>2 DEF Plan
<1>4. granted.offer \in SUBSET {"approve", "permit", "swap"} /\ ask[r].id \in Requests
  BY <1>2, <1>3 DEF Plan, Message
<1>. HIDE DEF granted
<1>5. CASE Refuse(r) /\ UNCHANGED storeVars
  BY <1>5, RefuseLocals DEF storeVars, TypeOK
<1>6. CASE /\ plan' = [plan EXCEPT ![r] = granted]
           /\ Store!SavePreparation(ask[r].id, granted)
           /\ Accept(r, "APPROVAL_REQUIRED", granted.offer)
  <2>1. QuotesOK(quotes') /\ PlansOK(preparations')
    BY <1>3, <1>4, <1>6, SavedTyped
  <2>2. /\ pc'[r] = "done" /\ plan'[r] \in Plan
        /\ answer'[r] = [status |-> "APPROVAL_REQUIRED", offer |-> granted.offer, at |-> now]
    BY <1>3, <1>6 DEF Accept, TypeOK
  <2>3. answer'[r] \in Answer
    BY <1>1, <1>4, <2>2 DEF Answer
  <2>. QED
    BY <1>2, <1>6, <2>1, <2>2, <2>3, NoneAssumption
    DEF Accept, LocalsOK, Working, Checking, Answered, Ready, Approving, Recheck
<1>. QED
  BY <1>5, <1>6 DEF Grant, granted

LEMMA SimulateType ==
    ASSUME TypeOK, NEW r \in Requests, Simulate(r)
    PROVE  QuotesOK(quotes') /\ PlansOK(preparations') /\ LocalsOK(r)'
<1>1. pc[r] = "simulate" /\ LocalsOK(r) /\ now \in Nat
  BY DEF Simulate, TypeOK
<1>2. plan[r] \in Plan /\ snap[r] \in Block /\ ask[r] \in Message
  BY <1>1 DEF LocalsOK, Checking, Working
<1>. DEFINE offer == plan[r].offer \cup {"swap"}
<1>3. offer \in SUBSET {"approve", "permit", "swap"} /\ ask[r].id \in Requests
  BY <1>2 DEF Plan, Message
<1>. HIDE DEF offer
<1>4. CASE Refuse(r) /\ UNCHANGED storeVars
  BY <1>4, RefuseLocals DEF storeVars, TypeOK
<1>5. CASE /\ Store!SavePreparation(ask[r].id, plan[r])
           /\ Accept(r, "READY", offer)
           /\ UNCHANGED plan
  <2>1. QuotesOK(quotes') /\ PlansOK(preparations')
    BY <1>2, <1>3, <1>5, SavedTyped
  <2>2. /\ pc'[r] = "done"
        /\ answer'[r] = [status |-> "READY", offer |-> offer, at |-> now]
    BY <1>5 DEF Accept, TypeOK
  <2>3. answer'[r] \in Answer
    BY <1>1, <1>3, <2>2 DEF Answer
  <2>. QED
    BY <1>2, <1>5, <2>1, <2>2, <2>3, NoneAssumption
    DEF Accept, LocalsOK, Working, Checking, Answered, Ready, Approving, Recheck
<1>. QED
  BY <1>4, <1>5 DEF Simulate, offer

LEMMA FailType ==
    ASSUME TypeOK, NEW r \in Requests, Fail(r)
    PROVE  QuotesOK(quotes') /\ PlansOK(preparations') /\ LocalsOK(r)'
BY RefuseLocals DEF Fail, storeVars, TypeOK

LEMMA ServeType ==
    ASSUME TypeOK, PrepareAssumption, NEW r \in Requests, Serve(r)
    PROVE  TypeOK'
<1>1. QuotesOK(quotes') /\ PlansOK(preparations') /\ LocalsOK(r)'
  BY ArriveType, LookupType, SnapshotType, BuildType, VerifyType, AllowanceType,
     PermissionType, GrantType, SimulateType, FailType DEF Serve
<1>. QED
  BY <1>1, ServeTouches, TypeFromLocals

(* What only the world does: the locals stay as they are.                  *)
LEMMA LocalsStay ==
    ASSUME TypeOK, UNCHANGED <<pc, locals, answer>>
    PROVE  \A r \in Requests : LocalsOK(r)'
BY DEF TypeOK, locals, LocalsOK, Recheck, Answered, Ready, Approving

LEMMA NewBlockTyped ==
    ASSUME TypeOK, PrepareAssumption, NEW parent \in Block, NEW block \in NewBlock(parent)
    PROVE  block \in Block
<1>1. /\ block.hash = mined + 1
      /\ \E gap \in Gaps : block.time = parent.time + gap
      /\ block.covers \in [Keys -> BOOLEAN]
      /\ block.permitUntil \in [Keys -> Expirations]
      /\ block = [hash |-> block.hash, time |-> block.time, covers |-> block.covers,
                   permitUntil |-> block.permitUntil]
  BY DEF NewBlock
<1>2. block.hash \in Nat
  BY <1>1 DEF TypeOK
<1>3. block.time \in Nat
  BY <1>1 DEF PrepareAssumption, Block
<1>4. block.permitUntil \in [Keys -> Nat]
  BY <1>1 DEF PrepareAssumption
<1>. QED
  BY <1>1, <1>2, <1>3, <1>4 DEF Block

LEMMA WorldType ==
    ASSUME TypeOK, PrepareAssumption,
           Mine \/ Reorg \/ Tick \/ \E q \in QuoteIds : SearchStarts(q) \/ SearchEnds(q)
    PROVE  TypeOK'
<1>1. CASE Mine
  <2>1. PICK block \in NewBlock(Latest) : chain' = Append(chain, block)
    BY <1>1 DEF Mine
  <2>2. Latest \in Block
    BY DEF TypeOK, Latest
  <2>3. chain' \in Seq(Block) /\ chain' # <<>>
    BY <2>1, <2>2, NewBlockTyped DEF TypeOK
  <2>. QED
    BY <1>1, <2>3, LocalsStay DEF Mine, TypeOK, storeVars, locals, QuotesOK, PlansOK
<1>2. CASE Reorg
  <2>1. PICK block \in NewBlock(chain[Len(chain) - 1]) :
           chain' = [chain EXCEPT ![Len(chain)] = block]
    BY <1>2 DEF Reorg
  <2>2. chain[Len(chain) - 1] \in Block
    BY <1>2 DEF Reorg, TypeOK
  <2>3. block \in Block
    BY <2>2, NewBlockTyped
  <2>4. chain' \in Seq(Block) /\ chain' # <<>>
    BY <2>1, <2>3 DEF TypeOK
  <2>. QED
    BY <1>2, <2>4, LocalsStay DEF Reorg, TypeOK, storeVars, locals, QuotesOK, PlansOK
<1>3. CASE Tick
  BY <1>3, LocalsStay DEF Tick, TypeOK, storeVars, locals, QuotesOK, PlansOK
<1>4. ASSUME NEW q \in QuoteIds, SearchStarts(q) PROVE TypeOK'
  <2>. DEFINE begun == [block |-> Latest, started |-> now, ended |-> FALSE]
  <2>1. begun \in Search
    BY DEF TypeOK, Latest, Search
  <2>2. search' = [search EXCEPT ![q] = begun]
    BY <1>4 DEF SearchStarts
  <2>. HIDE DEF begun
  <2>. QED
    BY <1>4, <2>1, <2>2, LocalsStay
    DEF SearchStarts, TypeOK, storeVars, locals, QuotesOK, PlansOK
<1>5. ASSUME NEW q \in QuoteIds, SearchEnds(q) PROVE TypeOK'
  <2>. DEFINE ended == [search[q] EXCEPT !.ended = TRUE]
  <2>1. search[q] \in Search
    BY <1>5 DEF SearchEnds, TypeOK
  <2>2. ended \in Search
    BY <2>1 DEF Search
  <2>3. search' = [search EXCEPT ![q] = ended]
    BY <1>5 DEF SearchEnds
  <2>4. QuotesOK(quotes') /\ PlansOK(preparations')
    BY <1>5, <2>1, SaveQuoteKeeps, WithinTyped DEF SearchEnds, TypeOK, Search
  <2>. HIDE DEF ended
  <2>. QED
    BY <1>5, <2>2, <2>3, <2>4, LocalsStay
    DEF SearchEnds, TypeOK, locals, QuotesOK, PlansOK
<1>. QED
  BY <1>1, <1>2, <1>3, <1>4, <1>5

LEMMA TypeStep ==
    PrepareAssumption /\ TypeOK /\ [Next]_vars => TypeOK'
<1>. SUFFICES ASSUME PrepareAssumption, TypeOK, [Next]_vars PROVE TypeOK'
  OBVIOUS
<1>1. CASE UNCHANGED vars
  BY <1>1, LocalsStay
  DEF vars, world, storeVars, locals, TypeOK, QuotesOK, PlansOK
<1>. QED
  BY <1>1, ServeType, WorldType DEF Next

(* Every variable of PrepareExecution keeps its type in every behaviour.   *)
THEOREM TypeCorrect == Spec => []TypeOK
BY InitType, TypeStep, PrepareAssumption, PTL DEF Spec

-----------------------------------------------------------------------------
(* One verdict per preparation.                                            *)

(* The creator of a preparation has answered for it.                       *)
Origin(i) == i \in Requests /\ Answered(i) /\ ask[i].id = i

(* What the locals of a request owe to the verdict of its preparation.     *)
Faithful(r) ==
    /\ (pc[r] \in Working /\ ~Recheck(r)) => ask[r].id = r
    /\ (pc[r] \in Working \ {"lookup"} /\ Recheck(r)) =>
          Origin(ask[r].id) /\ (plan[r].approval = TRUE <=> Approving(ask[r].id))
    /\ pc[r] = "simulate" => plan[r].approval = FALSE
    /\ (pc[r] \in {"approve", "permit"} /\ Recheck(r)) => plan[r].approval = TRUE
    /\ Answered(r) =>
          Origin(ask[r].id) /\ (Approving(r) <=> Approving(ask[r].id))

StoredFaithful(map) ==
    \A i \in DOMAIN map : Origin(i) /\ (map[i].approval = TRUE <=> Approving(i))

VerdictInv == StoredFaithful(preparations) /\ \A r \in Requests : Faithful(r)

LEMMA InitVerdict == Init => VerdictInv
<1>. SUFFICES ASSUME Init PROVE VerdictInv
  OBVIOUS
<1>1. DOMAIN preparations = {}
  BY DEF Init
<1>. QED
  BY <1>1 DEF Init, VerdictInv, StoredFaithful, Faithful, Working, Checking,
              Answered, Ready, Approving

(* An answer is final: its request takes no further step.                  *)
LEMMA AnswerFinal ==
    ASSUME TypeOK, [Next]_vars, NEW i \in Requests, Answered(i)
    PROVE  /\ answer'[i] = answer[i] /\ ask'[i] = ask[i]
           /\ Answered(i)' /\ (Approving(i)' <=> Approving(i))
           /\ Origin(i) => Origin(i)'
<1>1. pc[i] = "done"
  BY DEF TypeOK, LocalsOK, Answered, Ready, Approving
<1>2. ~Serve(i)
  BY <1>1 DEF Serve, Arrive, Lookup, Snapshot, Build, Verify, Allowance, Permission,
              Grant, Simulate, Fail
<1>3. answer'[i] = answer[i] /\ ask'[i] = ask[i]
  <2>1. ASSUME NEW r \in Requests, Serve(r)
        PROVE  answer'[i] = answer[i] /\ ask'[i] = ask[i]
    BY <1>2, <2>1, ServeTouches DEF OnlyTouches
  <2>2. CASE \/ Mine \/ Reorg \/ Tick \/ UNCHANGED vars
             \/ \E q \in QuoteIds : SearchStarts(q) \/ SearchEnds(q)
    BY <2>2 DEF Mine, Reorg, Tick, SearchStarts, SearchEnds, vars, locals
  <2>. QED
    BY <2>1, <2>2 DEF Next
<1>. QED
  BY <1>3 DEF Answered, Ready, Approving, Origin

(* So what the Store keeps stays faithful, and so does a request whose own *)
(* locals a step leaves alone.                                             *)
LEMMA KeptFaithful ==
    ASSUME TypeOK, VerdictInv, [Next]_vars, Within(preparations', preparations)
    PROVE  StoredFaithful(preparations)'
<1>. SUFFICES ASSUME NEW i \in DOMAIN preparations'
              PROVE  Origin(i)' /\ (preparations'[i].approval = TRUE <=> Approving(i)')
  BY DEF StoredFaithful
<1>1. /\ i \in DOMAIN preparations /\ preparations'[i] = preparations[i]
      /\ Origin(i) /\ (preparations[i].approval = TRUE <=> Approving(i))
  BY DEF Within, VerdictInv, StoredFaithful
<1>2. i \in Requests /\ Answered(i)
  BY <1>1 DEF Origin
<1>. QED
  BY <1>1, <1>2, AnswerFinal

LEMMA OthersFaithful ==
    ASSUME TypeOK, [Next]_vars, NEW s \in Requests, Faithful(s),
           pc'[s] = pc[s], ask'[s] = ask[s], plan'[s] = plan[s], answer'[s] = answer[s]
    PROVE  Faithful(s)'
<1>1. /\ Answered(s)' <=> Answered(s)
      /\ Approving(s)' <=> Approving(s)
      /\ Recheck(s)' <=> Recheck(s)
  BY DEF Answered, Ready, Approving, Recheck
<1>2. Origin(ask[s].id) =>
        Origin(ask[s].id)' /\ (Approving(ask[s].id)' <=> Approving(ask[s].id))
  BY AnswerFinal DEF Origin
<1>. DEFINE i == ask[s].id
<1>3. (ask[s].id)' = i
  OBVIOUS
<1>4. Origin(i) => Origin(ask[s].id)' /\ (Approving(ask[s].id)' <=> Approving(i))
  BY <1>2, <1>3 DEF Origin, Answered, Ready, Approving
<1>. QED
  BY <1>1, <1>4 DEF Faithful

LEMMA RefuseFaithful ==
    ASSUME TypeOK, NEW r \in Requests, Refuse(r)
    PROVE  Faithful(r)'
<1>1. pc'[r] = "done" /\ answer'[r] = [status |-> "REFUSED"]
  BY DEF Refuse, TypeOK
<1>. QED
  BY <1>1 DEF Faithful, Working, Checking, Answered, Ready, Approving

(* The request that moves on keeps its message and has no answer yet.      *)
LEMMA UnansweredYet ==
    ASSUME TypeOK, NEW r \in Requests, pc'[r] \in Working, answer'[r] = answer[r],
           pc[r] # "done"
    PROVE  ~Answered(r)' /\ ~Answered(r)
BY DEF TypeOK, LocalsOK, Answered, Ready, Approving, Working, Checking

(* A recheck that moves on owes to its preparation what it owed before.    *)
LEMMA RecheckMovesOn ==
    ASSUME TypeOK, [Next]_vars, NEW r \in Requests, Faithful(r),
           pc[r] \in Working \ {"lookup"}, ask'[r] = ask[r], Recheck(r),
           plan'[r].approval = plan[r].approval
    PROVE  Origin(ask[r].id)' /\ (plan'[r].approval = TRUE <=> Approving(ask[r].id)')
<1>. DEFINE i == ask[r].id
<1>1. Origin(i) /\ (plan[r].approval = TRUE <=> Approving(i))
  BY DEF Faithful
<1>2. Origin(i)' /\ (Approving(i)' <=> Approving(i))
  <2>1. i \in Requests /\ Answered(i)
    BY <1>1 DEF Origin
  <2>. HIDE DEF i
  <2>2. i' = i
    BY DEF i
  <2>. QED
    BY <1>1, <2>1, <2>2, AnswerFinal DEF Origin, Answered, Ready, Approving
<1>. QED
  BY <1>1, <1>2

LEMMA ContinueFaithful ==
    ASSUME TypeOK, [Next]_vars, NEW r \in Requests, Faithful(r), pc[r] \in Checking,
           NEW label \in {"requote"} \cup Checking, NEW flag \in BOOLEAN,
           Continue(r, label, flag),
           Recheck(r) => flag = plan[r].approval,
           label = "simulate" => flag = FALSE,
           (label \in {"approve", "permit"} /\ Recheck(r)) => flag = TRUE
    PROVE  Faithful(r)'
<1>1. CASE label = "requote"
  BY <1>1, RefuseFaithful DEF Continue
<1>2. CASE label # "requote"
  <2>1. plan[r] \in Plan
    BY DEF TypeOK, LocalsOK
  <2>2. plan'[r].approval = flag /\ pc'[r] = label /\ ask' = ask /\ answer' = answer
    BY <1>2, <2>1 DEF Continue, Goto, TypeOK, Plan
  <2>3. label \in Working /\ pc[r] \in Working \ {"lookup"} /\ pc[r] # "done"
    BY <1>2 DEF Working, Checking
  <2>4. ~Answered(r)'
    BY <2>2, <2>3, UnansweredYet
  <2>5. Recheck(r)' <=> Recheck(r)
    BY <2>2 DEF Recheck
  <2>6. CASE Recheck(r)
    <3>1. Origin(ask[r].id)' /\ (plan'[r].approval = TRUE <=> Approving(ask[r].id)')
      BY <2>2, <2>3, <2>6, RecheckMovesOn
    <3>. QED
      BY <2>2, <2>4, <2>5, <2>6, <3>1 DEF Faithful
  <2>7. CASE ~Recheck(r)
    BY <2>2, <2>3, <2>4, <2>5, <2>7 DEF Faithful
  <2>. QED
    BY <2>6, <2>7
<1>. QED
  BY <1>1, <1>2

LEMMA EarlyFaithful ==
    ASSUME TypeOK, VerdictInv, [Next]_vars, NEW r \in Requests,
           Arrive(r) \/ Lookup(r) \/ Snapshot(r) \/ Build(r) \/ Verify(r)
    PROVE  StoredFaithful(preparations)' /\ Faithful(r)'
<1>1. StoredFaithful(preparations)'
  <2>1. Within(preparations', preparations)
    BY LookupKeeps DEF Arrive, Lookup, Snapshot, Build, Verify, storeVars, Within
  <2>. QED
    BY <2>1, KeptFaithful
<1>2. Faithful(r) /\ LocalsOK(r)
  BY DEF VerdictInv, TypeOK
<1>3. CASE Refuse(r)
  BY <1>1, <1>3, RefuseFaithful
<1>4. CASE Arrive(r)
  <2>1. pc'[r] = "lookup" /\ answer'[r] = answer[r] /\ pc[r] = "idle"
    BY <1>4 DEF Arrive, Goto, TypeOK
  <2>2. ~Answered(r)'
    BY <2>1, UnansweredYet DEF Working
  <2>3. ~ask'[r].recheck => ask'[r].id = r
    BY <1>4 DEF Arrive, TypeOK
  <2>. QED
    BY <1>1, <2>1, <2>2, <2>3 DEF Faithful, Recheck
<1>5. CASE Lookup(r) /\ ~Refuse(r)
  <2>1. /\ pc'[r] = "snapshot" /\ answer'[r] = answer[r] /\ pc[r] = "lookup"
        /\ ask'[r] = ask[r]
    BY <1>5 DEF Lookup, Goto, TypeOK
  <2>2. ~Answered(r)'
    BY <2>1, UnansweredYet DEF Working
  <2>3. CASE Recheck(r)
    <3>1. ask[r].id \in DOMAIN preparations' /\ plan'[r] = preparations'[ask[r].id]
      BY <1>5, <2>3 DEF Lookup, TypeOK
    <3>. QED
      BY <1>1, <2>1, <2>2, <2>3, <3>1 DEF StoredFaithful, Faithful, Recheck
  <2>4. CASE ~Recheck(r)
    BY <1>1, <1>2, <2>1, <2>2, <2>4 DEF Faithful, Recheck, Working
  <2>. QED
    BY <2>3, <2>4
<1>6. CASE (Snapshot(r) \/ Build(r) \/ Verify(r)) /\ ~Refuse(r)
  <2>1. /\ pc'[r] \in {"build", "verify", "allowance"} /\ answer'[r] = answer[r]
        /\ pc[r] \in {"snapshot", "build", "verify"} /\ ask'[r] = ask[r]
    BY <1>6 DEF Snapshot, Build, Verify, Goto, TypeOK, locals
  <2>2. Recheck(r) => plan'[r] = plan[r]
    BY <1>2, <1>6 DEF Snapshot, Build, Verify, Goto, LocalsOK, locals
  <2>3. ~Answered(r)'
    BY <2>1, UnansweredYet DEF Working, Checking
  <2>4. pc[r] \in Working \ {"lookup"} /\ (Recheck(r)' <=> Recheck(r))
    BY <2>1 DEF Working, Checking, Recheck
  <2>5. CASE Recheck(r)
    <3>1. Origin(ask[r].id)' /\ (plan'[r].approval = TRUE <=> Approving(ask[r].id)')
      BY <1>2, <2>1, <2>2, <2>4, <2>5, RecheckMovesOn
    <3>. QED
      BY <1>1, <2>1, <2>3, <2>4, <2>5, <3>1 DEF Faithful
  <2>6. CASE ~Recheck(r)
    BY <1>1, <1>2, <2>1, <2>3, <2>4, <2>6 DEF Faithful
  <2>. QED
    BY <2>5, <2>6
<1>. QED
  BY <1>3, <1>4, <1>5, <1>6

LEMMA CheckFaithful ==
    ASSUME TypeOK, VerdictInv, [Next]_vars, NEW r \in Requests,
           Allowance(r) \/ Permission(r)
    PROVE  StoredFaithful(preparations)' /\ Faithful(r)'
<1>1. pc[r] \in Checking /\ LocalsOK(r) /\ Faithful(r)
  BY DEF Allowance, Permission, Checking, TypeOK, VerdictInv
<1>2. plan[r] \in Plan /\ plan[r].key \in Keys /\ plan[r].approval \in BOOLEAN
  BY <1>1 DEF LocalsOK, Plan
<1>3. \A flag \in BOOLEAN :
        /\ AfterAllowance(r, flag) \in {"requote"} \cup Checking
        /\ AfterAllowance(r, flag) = "simulate" => flag = FALSE
        /\ AfterAllowance(r, flag) # "permit"
        /\ (AfterAllowance(r, flag) = "approve" /\ Recheck(r)) => flag = TRUE
  BY DEF AfterAllowance, Checking
<1>4. \A flag \in BOOLEAN :
        /\ AfterPermission(r, flag) \in {"requote"} \cup Checking
        /\ AfterPermission(r, flag) = "simulate" => flag = FALSE
        /\ AfterPermission(r, flag) # "approve"
        /\ (AfterPermission(r, flag) = "permit" /\ Recheck(r)) => flag = TRUE
  BY DEF AfterPermission, Checking
<1>5. CASE Recheck(r)
  <2>1. \/ Continue(r, AfterAllowance(r, plan[r].approval), plan[r].approval)
        \/ Continue(r, AfterPermission(r, plan[r].approval), plan[r].approval)
    BY <1>5 DEF Allowance, Permission
  <2>2. Faithful(r)'
    BY <1>1, <1>2, <1>3, <1>4, <2>1, ContinueFaithful
  <2>3. Within(preparations', preparations)
    BY <1>5 DEF Allowance, Permission, storeVars, Within
  <2>. QED
    BY <2>2, <2>3, KeptFaithful
<1>6. CASE ~Recheck(r) /\ Allowance(r)
  <2>0. PICK t \in began[r]..now :
          LET before == Store!Marked(plan[r].quote, <<plan[r].key, "erc20">>, t)
          IN  /\ Store!MarkApproval(plan[r].quote, <<plan[r].key, "erc20">>, ~Covered(r), t)
              /\ Continue(r, IF QuoteLost(r, t) THEN "requote" ELSE AfterAllowance(r, before), before)
    BY <1>6 DEF Allowance
  <2>. DEFINE before == Store!Marked(plan[r].quote, <<plan[r].key, "erc20">>, t)
              label == IF QuoteLost(r, t) THEN "requote" ELSE AfterAllowance(r, before)
  <2>1. /\ Store!MarkApproval(plan[r].quote, <<plan[r].key, "erc20">>, ~Covered(r), t)
        /\ Continue(r, label, before)
    BY <2>0
  <2>2. before \in BOOLEAN
    BY DEF Store!Marked, Store!Live
  <2>. HIDE DEF before
  <2>3. label \in {"requote"} \cup Checking /\ (label = "simulate" => before = FALSE)
    BY <1>3, <2>2
  <2>. HIDE DEF label
  <2>4. Faithful(r)'
    BY <1>1, <1>6, <2>1, <2>2, <2>3, ContinueFaithful
  <2>5. Within(preparations', preparations)
    BY <1>2, <2>1, MarkKeeps DEF TypeOK
  <2>. QED
    BY <2>4, <2>5, KeptFaithful
<1>7. CASE ~Recheck(r) /\ Permission(r)
  <2>0. PICK t \in began[r]..now :
          LET before == plan[r].approval \/ Store!Marked(plan[r].quote, <<plan[r].key, "permit2">>, t)
          IN  /\ Store!MarkApproval(plan[r].quote, <<plan[r].key, "permit2">>, PermitShort(r), t)
              /\ Continue(r, IF QuoteLost(r, t) THEN "requote" ELSE AfterPermission(r, before), before)
    BY <1>7 DEF Permission
  <2>. DEFINE before == plan[r].approval
                        \/ Store!Marked(plan[r].quote, <<plan[r].key, "permit2">>, t)
              label == IF QuoteLost(r, t) THEN "requote" ELSE AfterPermission(r, before)
  <2>1. /\ Store!MarkApproval(plan[r].quote, <<plan[r].key, "permit2">>, PermitShort(r), t)
        /\ Continue(r, label, before)
    BY <2>0
  <2>2. before \in BOOLEAN
    BY DEF Store!Marked, Store!Live
  <2>. HIDE DEF before
  <2>3. label \in {"requote"} \cup Checking /\ (label = "simulate" => before = FALSE)
    BY <1>4, <2>2
  <2>. HIDE DEF label
  <2>4. Faithful(r)'
    BY <1>1, <1>7, <2>1, <2>2, <2>3, ContinueFaithful
  <2>5. Within(preparations', preparations)
    BY <1>2, <2>1, MarkKeeps DEF TypeOK
  <2>. QED
    BY <2>4, <2>5, KeptFaithful
<1>. QED
  BY <1>5, <1>6, <1>7

(* The two answers with terms.  verdict says which of them it is.          *)
LEMMA AcceptFaithful ==
    ASSUME TypeOK, VerdictInv, [Next]_vars, NEW r \in Requests, NEW p \in Plan,
           pc[r] \in Working \ {"lookup"},
           NEW status \in {"READY", "APPROVAL_REQUIRED"}, NEW offer,
           p.approval = TRUE <=> status = "APPROVAL_REQUIRED",
           Recheck(r) => p.approval = plan[r].approval,
           Store!SavePreparation(ask[r].id, p),
           Accept(r, status, offer)
    PROVE  StoredFaithful(preparations)' /\ Faithful(r)'
<1>. DEFINE i == ask[r].id
<1>1. /\ pc'[r] = "done" /\ ask' = ask
      /\ answer'[r] = [status |-> status, offer |-> offer, at |-> now]
      /\ \A s \in Requests \ {r} : answer'[s] = answer[s]
  BY DEF Accept, TypeOK
<1>2. Answered(r)' /\ (Approving(r)' <=> p.approval = TRUE)
  <2>1. answer'[r] # None
    <3>1. TypeOK' /\ r \in Requests
      BY TypeStep, PrepareAssumption
    <3>. QED
      BY <1>1, <3>1 DEF TypeOK, LocalsOK
  <2>. QED
    BY <1>1, <2>1 DEF Answered, Ready, Approving
<1>3. ~Answered(r) /\ Faithful(r) /\ LocalsOK(r)
  BY DEF TypeOK, LocalsOK, Answered, Ready, Approving, Working, Checking, VerdictInv
<1>4. Origin(i)' /\ (Approving(i)' <=> p.approval = TRUE)
  <2>1. CASE Recheck(r)
    <3>1. Origin(i) /\ (p.approval = TRUE <=> Approving(i))
      BY <1>3, <2>1 DEF Faithful
    <3>2. i \in Requests /\ Answered(i) /\ i # r
      BY <1>3, <3>1 DEF Origin
    <3>3. answer'[i] = answer[i] /\ ask'[i] = ask[i] /\ ask'[r] = ask[r]
      BY <1>1, <3>2
    <3>. QED
      BY <3>1, <3>2, <3>3 DEF Origin, Answered, Ready, Approving
  <2>2. CASE ~Recheck(r)
    BY <1>1, <1>2, <1>3, <2>2 DEF Faithful, Origin
  <2>. QED
    BY <2>1, <2>2
<1>5. Faithful(r)'
  BY <1>1, <1>2, <1>4 DEF Faithful, Working, Checking
<1>6. ASSUME NEW j \in DOMAIN preparations'
      PROVE  Origin(j)' /\ (preparations'[j].approval = TRUE <=> Approving(j)')
  <2>1. CASE j = i
    <3>1. preparations'[j] = p
      BY <1>6, <2>1, SavePreparationKeeps
    <3>2. j' = i'
      BY <1>1, <2>1
    <3>. QED
      BY <1>1, <1>4, <2>1, <3>1 DEF Origin, Answered, Ready, Approving
  <2>2. CASE j # i
    <3>1. j \in DOMAIN preparations /\ preparations'[j] = preparations[j]
      BY <1>6, <2>2, SavePreparationKeeps
    <3>2. Origin(j) /\ (preparations[j].approval = TRUE <=> Approving(j))
      BY <3>1 DEF VerdictInv, StoredFaithful
    <3>. QED
      BY <3>1, <3>2, AnswerFinal DEF Origin
  <2>. QED
    BY <2>1, <2>2
<1>. QED
  BY <1>5, <1>6 DEF StoredFaithful

LEMMA LateFaithful ==
    ASSUME TypeOK, VerdictInv, [Next]_vars, NEW r \in Requests,
           Grant(r) \/ Simulate(r) \/ Fail(r)
    PROVE  StoredFaithful(preparations)' /\ Faithful(r)'
<1>1. pc[r] \in Working \ {"lookup"} /\ LocalsOK(r) /\ Faithful(r)
  BY DEF Grant, Simulate, Fail, Working, Checking, TypeOK, VerdictInv
<1>2. CASE Refuse(r) /\ UNCHANGED storeVars
  <2>1. Within(preparations', preparations)
    BY <1>2 DEF storeVars, Within
  <2>. QED
    BY <1>2, <2>1, RefuseFaithful, KeptFaithful
<1>3. CASE Grant(r) /\ ~(Refuse(r) /\ UNCHANGED storeVars)
  <2>. DEFINE granted == [plan[r] EXCEPT !.approval = TRUE, !.offer = @ \cup {pc[r]}]
  <2>1. pc[r] \in {"approve", "permit"} /\ plan[r] \in Plan
    BY <1>1, <1>3 DEF Grant, LocalsOK, Checking
  <2>2. granted \in Plan /\ granted.approval = TRUE
    BY <2>1 DEF Plan
  <2>3. Recheck(r) => granted.approval = plan[r].approval
    BY <1>1, <2>1, <2>2 DEF Faithful
  <2>4. /\ Store!SavePreparation(ask[r].id, granted)
        /\ Accept(r, "APPROVAL_REQUIRED", granted.offer)
    BY <1>3 DEF Grant
  <2>. HIDE DEF granted
  <2>. QED
    BY <1>1, <2>2, <2>3, <2>4, AcceptFaithful
<1>4. CASE Simulate(r) /\ ~(Refuse(r) /\ UNCHANGED storeVars)
  <2>1. pc[r] = "simulate" /\ plan[r] \in Plan
    BY <1>1, <1>4 DEF Simulate, LocalsOK, Checking
  <2>2. plan[r].approval = FALSE
    BY <1>1, <2>1 DEF Faithful
  <2>3. /\ Store!SavePreparation(ask[r].id, plan[r])
        /\ Accept(r, "READY", plan[r].offer \cup {"swap"})
    BY <1>4 DEF Simulate
  <2>. QED
    BY <1>1, <2>1, <2>2, <2>3, AcceptFaithful
<1>. QED
  BY <1>2, <1>3, <1>4 DEF Grant, Simulate, Fail

LEMMA VerdictStep ==
    TypeOK /\ VerdictInv /\ [Next]_vars => VerdictInv'
<1>. SUFFICES ASSUME TypeOK, VerdictInv, [Next]_vars PROVE VerdictInv'
  OBVIOUS
<1>1. ASSUME NEW r \in Requests, Serve(r) PROVE VerdictInv'
  <2>1. StoredFaithful(preparations)' /\ Faithful(r)'
    BY <1>1, EarlyFaithful, CheckFaithful, LateFaithful DEF Serve
  <2>2. ASSUME NEW s \in Requests \ {r} PROVE Faithful(s)'
    BY <1>1, ServeTouches, OthersFaithful DEF OnlyTouches, VerdictInv
  <2>. QED
    BY <2>1, <2>2 DEF VerdictInv
<1>2. CASE \/ Mine \/ Reorg \/ Tick \/ UNCHANGED vars
           \/ \E q \in QuoteIds : SearchStarts(q) \/ SearchEnds(q)
  <2>1. UNCHANGED <<pc, ask, plan, answer>>
    BY <1>2 DEF Mine, Reorg, Tick, SearchStarts, SearchEnds, vars, locals
  <2>2. Within(preparations', preparations)
    <3>1. CASE UNCHANGED storeVars
      BY <3>1 DEF storeVars, Within
    <3>2. ASSUME NEW q \in QuoteIds, SearchEnds(q)
          PROVE  Within(preparations', preparations)
      BY <3>2, PruneWithin DEF SearchEnds, Store!SaveQuote
    <3>. QED
      BY <1>2, <3>1, <3>2 DEF Mine, Reorg, Tick, SearchStarts, vars, storeVars
  <2>3. \A s \in Requests : Faithful(s)'
    BY <2>1, OthersFaithful DEF VerdictInv
  <2>. QED
    BY <2>2, <2>3, KeptFaithful DEF VerdictInv
<1>. QED
  BY <1>1, <1>2 DEF Next

(* A preparation that was once READY is never answered with a request for  *)
(* an approval, nor the other way round, whatever is rechecked when.       *)
THEOREM VerdictIsFinal == Spec => []OneVerdict
<1>1. VerdictInv => OneVerdict
  <2>. SUFFICES ASSUME VerdictInv, NEW r \in Requests, NEW s \in Requests,
                       Ready(r), Approving(s), ask[r].id = ask[s].id
                PROVE  FALSE
    BY DEF OneVerdict
  <2>1. Answered(r) /\ ~Approving(r) /\ Answered(s)
    BY DEF Answered, Ready, Approving
  <2>. QED
    BY <2>1 DEF VerdictInv, Faithful
<1>. QED
  BY <1>1, InitVerdict, VerdictStep, TypeCorrect, PTL DEF Spec

-----------------------------------------------------------------------------
(* One decision per preparation: what its copies owe to the creator.       *)

SameTerms(p, q) ==
    /\ p.quote = q.quote /\ p.key = q.key
    /\ p.expires = q.expires /\ p.deadline = q.deadline

(* What the locals of a request owe to the terms of its preparation.       *)
Kept(r) ==
    /\ (pc[r] \in Working \ {"lookup"} /\ Recheck(r)) =>
          SameTerms(plan[r], plan[ask[r].id])
    /\ Answered(r) =>
          /\ SameTerms(plan[r], plan[ask[r].id])
          /\ plan[r].approval = TRUE <=> Approving(r)

StoredKept(map) == \A i \in DOMAIN map : SameTerms(map[i], plan[i])

TermsInv == StoredKept(preparations) /\ \A r \in Requests : Kept(r)

LEMMA InitTerms == Init => TermsInv
<1>. SUFFICES ASSUME Init PROVE TermsInv
  OBVIOUS
<1>1. DOMAIN preparations = {}
  BY DEF Init
<1>. QED
  BY <1>1 DEF Init, TermsInv, StoredKept, Kept, Working, Checking,
              Answered, Ready, Approving

-----------------------------------------------------------------------------
(* The three ways a step of a request can go.                              *)

(* It starts, or it ends with a refusal: it holds nothing.                 *)
Unbound(r) ==
    /\ pc'[r] \in {"lookup", "done"} /\ ~Answered(r)'
    /\ Within(preparations', preparations)

(* It goes on; a recheck has just copied the stored entry, or keeps terms. *)
Proceeds(r) ==
    /\ pc[r] \in Working /\ pc'[r] \in Working \ {"lookup"} /\ ~Answered(r)'
    /\ ask'[r] = ask[r]
    /\ Within(preparations', preparations)
    /\ Recheck(r) =>
          \/ ask[r].id \in DOMAIN preparations' /\ plan'[r] = preparations'[ask[r].id]
          \/ pc[r] # "lookup" /\ SameTerms(plan'[r], plan[r])

(* It is answered with terms, and they are saved.                          *)
Accepts(r) ==
    /\ pc[r] \in Working \ {"lookup"} /\ pc'[r] = "done" /\ Answered(r)'
    /\ ask'[r] = ask[r]
    /\ plan'[r] \in Plan /\ SameTerms(plan'[r], plan[r])
    /\ plan'[r].approval = TRUE <=> Approving(r)'
    /\ Store!SavePreparation(ask[r].id, plan'[r])

LEMMA RefuseUnbound ==
    ASSUME TypeOK, NEW r \in Requests, Refuse(r), Within(preparations', preparations)
    PROVE  Unbound(r)
<1>1. pc'[r] = "done" /\ answer'[r] = [status |-> "REFUSED"]
  BY DEF Refuse, TypeOK
<1>. QED
  BY <1>1 DEF Unbound, Answered, Ready, Approving

LEMMA ContinueShape ==
    ASSUME TypeOK, NEW r \in Requests, pc[r] \in Checking,
           NEW label \in {"requote"} \cup Checking, NEW flag \in BOOLEAN,
           Continue(r, label, flag), Within(preparations', preparations)
    PROVE  Unbound(r) \/ Proceeds(r)
<1>1. CASE label = "requote"
  BY <1>1, RefuseUnbound DEF Continue
<1>2. CASE label # "requote"
  <2>1. plan[r] \in Plan
    BY DEF TypeOK, LocalsOK
  <2>2. plan' = [plan EXCEPT ![r] = [plan[r] EXCEPT !.approval = flag]]
    BY <1>2 DEF Continue
  <2>3. SameTerms(plan'[r], plan[r])
    BY <2>1, <2>2 DEF TypeOK, Plan, SameTerms
  <2>4. pc'[r] = label /\ ask' = ask /\ answer' = answer
    BY <1>2 DEF Continue, Goto, TypeOK
  <2>5. /\ pc[r] \in Working \ {"lookup"} /\ pc'[r] \in Working \ {"lookup"}
        /\ pc[r] # "done"
    BY <1>2, <2>4 DEF Working, Checking
  <2>6. ~Answered(r)'
    BY <2>4, <2>5, UnansweredYet
  <2>. QED
    BY <2>3, <2>4, <2>5, <2>6 DEF Proceeds
<1>. QED
  BY <1>1, <1>2

LEMMA EarlyShape ==
    ASSUME TypeOK, NEW r \in Requests,
           Arrive(r) \/ Lookup(r) \/ Snapshot(r) \/ Build(r) \/ Verify(r)
    PROVE  Unbound(r) \/ Proceeds(r)
<1>1. Within(preparations', preparations)
  BY LookupKeeps DEF Arrive, Lookup, Snapshot, Build, Verify, storeVars, Within
<1>2. CASE Refuse(r)
  BY <1>1, <1>2, RefuseUnbound
<1>3. CASE Arrive(r)
  <2>1. pc'[r] = "lookup" /\ answer'[r] = answer[r] /\ pc[r] = "idle"
    BY <1>3 DEF Arrive, Goto, TypeOK
  <2>2. ~Answered(r)'
    BY <2>1, UnansweredYet DEF Working
  <2>. QED
    BY <1>1, <2>1, <2>2 DEF Unbound
<1>4. CASE Lookup(r) /\ ~Refuse(r)
  <2>1. /\ pc'[r] = "snapshot" /\ answer'[r] = answer[r] /\ pc[r] = "lookup"
        /\ ask'[r] = ask[r]
    BY <1>4 DEF Lookup, Goto, TypeOK
  <2>2. ~Answered(r)'
    BY <2>1, UnansweredYet DEF Working
  <2>3. Recheck(r) =>
          ask[r].id \in DOMAIN preparations' /\ plan'[r] = preparations'[ask[r].id]
    BY <1>4 DEF Lookup, TypeOK
  <2>. QED
    BY <1>1, <2>1, <2>2, <2>3 DEF Proceeds, Working
<1>5. CASE (Snapshot(r) \/ Build(r) \/ Verify(r)) /\ ~Refuse(r)
  <2>1. /\ pc'[r] \in {"build", "verify", "allowance"} /\ answer'[r] = answer[r]
        /\ pc[r] \in {"snapshot", "build", "verify"} /\ ask'[r] = ask[r]
    BY <1>5 DEF Snapshot, Build, Verify, Goto, TypeOK, locals
  <2>2. LocalsOK(r)
    BY DEF TypeOK
  <2>3. Recheck(r) => plan'[r] = plan[r]
    BY <1>5, <2>2 DEF Snapshot, Build, Verify, Goto, LocalsOK, locals
  <2>4. ~Answered(r)'
    BY <2>1, UnansweredYet DEF Working, Checking
  <2>. QED
    BY <1>1, <2>1, <2>3, <2>4 DEF Proceeds, Working, Checking, SameTerms
<1>. QED
  BY <1>2, <1>3, <1>4, <1>5

LEMMA CheckShape ==
    ASSUME TypeOK, NEW r \in Requests, Allowance(r) \/ Permission(r)
    PROVE  Unbound(r) \/ Proceeds(r)
<1>1. pc[r] \in Checking /\ LocalsOK(r)
  BY DEF Allowance, Permission, Checking, TypeOK
<1>2. plan[r] \in Plan /\ plan[r].key \in Keys /\ plan[r].approval \in BOOLEAN
  BY <1>1 DEF LocalsOK, Plan
<1>3. \A flag \in BOOLEAN :
        /\ AfterAllowance(r, flag) \in {"requote"} \cup Checking
        /\ AfterPermission(r, flag) \in {"requote"} \cup Checking
  BY DEF AfterAllowance, AfterPermission, Checking
<1>4. Within(preparations', preparations)
  <2>1. CASE UNCHANGED storeVars
    BY <2>1 DEF storeVars, Within
  <2>2. CASE \E t : \/ Store!MarkApproval(plan[r].quote, <<plan[r].key, "erc20">>, ~Covered(r), t)
                   \/ Store!MarkApproval(plan[r].quote, <<plan[r].key, "permit2">>,
                                         PermitShort(r), t)
    BY <1>2, <2>2, MarkKeeps DEF TypeOK
  <2>. QED
    BY <2>1, <2>2 DEF Allowance, Permission
<1>5. \E label \in {"requote"} \cup Checking, flag \in BOOLEAN : Continue(r, label, flag)
  <2>1. CASE Recheck(r)
    <3>1. \/ Continue(r, AfterAllowance(r, plan[r].approval), plan[r].approval)
          \/ Continue(r, AfterPermission(r, plan[r].approval), plan[r].approval)
      BY <2>1 DEF Allowance, Permission
    <3>. QED
      BY <1>2, <1>3, <3>1
  <2>2. CASE ~Recheck(r) /\ Allowance(r)
    <3>0. PICK t \in began[r]..now :
            LET before == Store!Marked(plan[r].quote, <<plan[r].key, "erc20">>, t)
            IN  Continue(r, IF QuoteLost(r, t) THEN "requote" ELSE AfterAllowance(r, before), before)
      BY <2>2 DEF Allowance
    <3>. DEFINE before == Store!Marked(plan[r].quote, <<plan[r].key, "erc20">>, t)
                label == IF QuoteLost(r, t) THEN "requote" ELSE AfterAllowance(r, before)
    <3>1. Continue(r, label, before) /\ before \in BOOLEAN
      BY <3>0 DEF Store!Marked, Store!Live
    <3>. HIDE DEF before
    <3>2. label \in {"requote"} \cup Checking
      BY <1>3, <3>1
    <3>. HIDE DEF label
    <3>. QED
      BY <3>1, <3>2
  <2>3. CASE ~Recheck(r) /\ Permission(r)
    <3>0. PICK t \in began[r]..now :
            LET before == plan[r].approval \/ Store!Marked(plan[r].quote, <<plan[r].key, "permit2">>, t)
            IN  Continue(r, IF QuoteLost(r, t) THEN "requote" ELSE AfterPermission(r, before), before)
      BY <2>3 DEF Permission
    <3>. DEFINE before == plan[r].approval
                          \/ Store!Marked(plan[r].quote, <<plan[r].key, "permit2">>, t)
                label == IF QuoteLost(r, t) THEN "requote" ELSE AfterPermission(r, before)
    <3>1. Continue(r, label, before)
      BY <3>0
    <3>2. before \in BOOLEAN
      BY DEF Store!Marked, Store!Live
    <3>. HIDE DEF before
    <3>3. label \in {"requote"} \cup Checking
      BY <1>3, <3>2
    <3>. HIDE DEF label
    <3>. QED
      BY <3>1, <3>2, <3>3
  <2>. QED
    BY <2>1, <2>2, <2>3
<1>. QED
  BY <1>1, <1>4, <1>5, ContinueShape

LEMMA LateShape ==
    ASSUME TypeOK, VerdictInv, [Next]_vars, NEW r \in Requests,
           Grant(r) \/ Simulate(r) \/ Fail(r)
    PROVE  Unbound(r) \/ Accepts(r)
<1>1. /\ pc[r] \in Working \ {"lookup"} /\ LocalsOK(r) /\ Faithful(r)
      /\ LocalsOK(r)'
  <2>1. TypeOK'
    BY TypeStep, PrepareAssumption
  <2>. QED
    BY <2>1 DEF Grant, Simulate, Fail, Working, Checking, TypeOK, VerdictInv
<1>2. CASE Refuse(r) /\ UNCHANGED storeVars
  BY <1>2, RefuseUnbound DEF storeVars, Within
<1>3. CASE Grant(r) /\ ~(Refuse(r) /\ UNCHANGED storeVars)
  <2>. DEFINE granted == [plan[r] EXCEPT !.approval = TRUE, !.offer = @ \cup {pc[r]}]
  <2>1. pc[r] \in {"approve", "permit"} /\ plan[r] \in Plan
    BY <1>1, <1>3 DEF Grant, LocalsOK, Checking
  <2>2. granted \in Plan /\ granted.approval = TRUE /\ SameTerms(granted, plan[r])
    BY <2>1 DEF Plan, SameTerms
  <2>3. /\ Store!SavePreparation(ask[r].id, granted)
        /\ Accept(r, "APPROVAL_REQUIRED", granted.offer)
        /\ plan' = [plan EXCEPT ![r] = granted]
    BY <1>3 DEF Grant
  <2>. HIDE DEF granted
  <2>4. /\ pc'[r] = "done" /\ ask'[r] = ask[r] /\ plan'[r] = granted
        /\ answer'[r].status = "APPROVAL_REQUIRED"
    BY <2>3 DEF Accept, TypeOK
  <2>5. Answered(r)' /\ Approving(r)'
    BY <1>1, <2>4 DEF LocalsOK, Answered, Approving
  <2>. QED
    BY <1>1, <2>2, <2>3, <2>4, <2>5 DEF Accepts
<1>4. CASE Simulate(r) /\ ~(Refuse(r) /\ UNCHANGED storeVars)
  <2>1. pc[r] = "simulate" /\ plan[r] \in Plan
    BY <1>1, <1>4 DEF Simulate, LocalsOK, Checking
  <2>2. plan[r].approval = FALSE
    BY <1>1, <2>1 DEF Faithful
  <2>3. /\ Store!SavePreparation(ask[r].id, plan[r])
        /\ Accept(r, "READY", plan[r].offer \cup {"swap"})
        /\ plan' = plan
    BY <1>4 DEF Simulate
  <2>4. pc'[r] = "done" /\ ask'[r] = ask[r] /\ answer'[r].status = "READY"
    BY <2>3 DEF Accept, TypeOK
  <2>5. Answered(r)' /\ ~Approving(r)'
    BY <1>1, <2>4 DEF LocalsOK, Answered, Ready, Approving
  <2>. QED
    BY <1>1, <2>1, <2>2, <2>3, <2>4, <2>5 DEF Accepts, SameTerms
<1>. QED
  BY <1>2, <1>3, <1>4 DEF Grant, Simulate, Fail

LEMMA StepShape ==
    ASSUME TypeOK, VerdictInv, [Next]_vars, NEW r \in Requests, Serve(r)
    PROVE  Unbound(r) \/ Proceeds(r) \/ Accepts(r)
BY EarlyShape, CheckShape, LateShape DEF Serve

-----------------------------------------------------------------------------
(* The terms of a preparation are those its creator answered with.         *)

(* The plan of a request that has answered is never touched again.         *)
LEMMA PlanFinal ==
    ASSUME TypeOK, [Next]_vars, NEW i \in Requests, Answered(i)
    PROVE  plan'[i] = plan[i]
<1>1. pc[i] = "done"
  BY DEF TypeOK, LocalsOK, Answered, Ready, Approving
<1>2. ~Serve(i)
  BY <1>1 DEF Serve, Arrive, Lookup, Snapshot, Build, Verify, Allowance, Permission,
              Grant, Simulate, Fail
<1>3. ASSUME NEW r \in Requests, Serve(r) PROVE plan'[i] = plan[i]
  BY <1>2, <1>3, ServeTouches DEF OnlyTouches
<1>4. CASE \/ Mine \/ Reorg \/ Tick \/ UNCHANGED vars
           \/ \E q \in QuoteIds : SearchStarts(q) \/ SearchEnds(q)
  BY <1>4 DEF Mine, Reorg, Tick, SearchStarts, SearchEnds, vars, locals
<1>. QED
  BY <1>3, <1>4 DEF Next

LEMMA OriginFinal ==
    ASSUME TypeOK, [Next]_vars, NEW i, Origin(i)
    PROVE  plan'[i] = plan[i]
BY PlanFinal DEF Origin

LEMMA StoreKeepsTerms ==
    ASSUME TypeOK, VerdictInv, TermsInv, [Next]_vars, Within(preparations', preparations)
    PROVE  StoredKept(preparations)'
<1>. SUFFICES ASSUME NEW i \in DOMAIN preparations'
              PROVE  SameTerms(preparations'[i], plan'[i])
  BY DEF StoredKept, SameTerms
<1>1. /\ i \in DOMAIN preparations /\ preparations'[i] = preparations[i]
      /\ Origin(i) /\ SameTerms(preparations[i], plan[i])
  BY DEF Within, VerdictInv, StoredFaithful, TermsInv, StoredKept
<1>. QED
  BY <1>1, OriginFinal

LEMMA OthersKeepTerms ==
    ASSUME TypeOK, VerdictInv, TermsInv, [Next]_vars, NEW s \in Requests,
           pc'[s] = pc[s], ask'[s] = ask[s], plan'[s] = plan[s], answer'[s] = answer[s]
    PROVE  Kept(s)'
<1>. DEFINE i == ask[s].id
<1>1. /\ Answered(s)' <=> Answered(s)
      /\ Approving(s)' <=> Approving(s)
      /\ Recheck(s)' <=> Recheck(s)
  BY DEF Answered, Ready, Approving, Recheck
<1>2. Origin(i) => plan'[i] = plan[i]
  BY OriginFinal
<1>3. (plan[ask[s].id])' = plan'[i]
  OBVIOUS
<1>4. Kept(s) /\ Faithful(s)
  BY DEF TermsInv, VerdictInv
<1>. QED
  BY <1>1, <1>2, <1>3, <1>4 DEF Kept, Faithful, SameTerms

(* What an accepted request answers and saves are its creator's terms.     *)
LEMMA AcceptsKeepTerms ==
    ASSUME TypeOK, VerdictInv, TermsInv, [Next]_vars, NEW r \in Requests, Accepts(r)
    PROVE  SameTerms(plan'[r], plan'[ask[r].id])
<1>. DEFINE i == ask[r].id
<1>1. Kept(r) /\ Faithful(r)
  BY DEF TermsInv, VerdictInv
<1>2. CASE Recheck(r)
  <2>1. Origin(i) /\ SameTerms(plan[r], plan[i])
    BY <1>1, <1>2 DEF Kept, Faithful, Accepts
  <2>2. plan'[i] = plan[i]
    BY <2>1, OriginFinal
  <2>. QED
    BY <2>1, <2>2 DEF Accepts, SameTerms
<1>3. CASE ~Recheck(r)
  BY <1>1, <1>3 DEF Faithful, Accepts, SameTerms
<1>. QED
  BY <1>2, <1>3

LEMMA ServeKeepsTerms ==
    ASSUME TypeOK, VerdictInv, TermsInv, [Next]_vars, NEW r \in Requests, Serve(r)
    PROVE  StoredKept(preparations)' /\ Kept(r)'
<1>. DEFINE i == ask[r].id
<1>1. Kept(r) /\ Faithful(r)
  BY DEF TermsInv, VerdictInv
<1>2. CASE Unbound(r)
  BY <1>2, StoreKeepsTerms DEF Unbound, Kept, Working, Checking
<1>3. CASE Proceeds(r)
  <2>1. (Recheck(r)' <=> Recheck(r)) /\ (plan[ask[r].id])' = plan'[i]
    BY <1>3 DEF Proceeds, Recheck
  <2>2. ASSUME Recheck(r) PROVE SameTerms(plan'[r], plan'[i])
    <3>1. CASE i \in DOMAIN preparations' /\ plan'[r] = preparations'[i]
      <4>1. /\ i \in DOMAIN preparations /\ preparations'[i] = preparations[i]
        BY <1>3, <3>1 DEF Proceeds, Within
      <4>2. Origin(i) /\ SameTerms(preparations[i], plan[i])
        BY <4>1 DEF VerdictInv, StoredFaithful, TermsInv, StoredKept
      <4>. QED
        BY <3>1, <4>1, <4>2, OriginFinal
    <3>2. CASE pc[r] # "lookup" /\ SameTerms(plan'[r], plan[r])
      <4>1. Origin(i) /\ SameTerms(plan[r], plan[i])
        BY <1>1, <1>3, <2>2, <3>2 DEF Proceeds, Kept, Faithful
      <4>2. plan'[i] = plan[i]
        BY <4>1, OriginFinal
      <4>. QED
        BY <3>2, <4>1, <4>2 DEF SameTerms
    <3>. QED
      BY <1>3, <2>2, <3>1, <3>2 DEF Proceeds
  <2>3. StoredKept(preparations)'
    BY <1>3, StoreKeepsTerms DEF Proceeds
  <2>. QED
    BY <1>3, <2>1, <2>2, <2>3 DEF Proceeds, Kept, SameTerms
<1>4. CASE Accepts(r)
  <2>1. SameTerms(plan'[r], plan'[i]) /\ (plan[ask[r].id])' = plan'[i]
    BY <1>4, AcceptsKeepTerms DEF Accepts
  <2>2. Kept(r)'
    BY <1>4, <2>1 DEF Accepts, Kept, SameTerms, Working, Checking
  <2>3. ASSUME NEW j \in DOMAIN preparations'
        PROVE  SameTerms(preparations'[j], plan'[j])
    <3>1. CASE j = i
      BY <1>4, <2>1, <2>3, <3>1, SavePreparationKeeps DEF Accepts
    <3>2. CASE j # i
      <4>1. j \in DOMAIN preparations /\ preparations'[j] = preparations[j]
        BY <1>4, <2>3, <3>2, SavePreparationKeeps DEF Accepts
      <4>2. Origin(j) /\ SameTerms(preparations[j], plan[j])
        BY <4>1 DEF VerdictInv, StoredFaithful, TermsInv, StoredKept
      <4>. QED
        BY <4>1, <4>2, OriginFinal
    <3>. QED
      BY <3>1, <3>2
  <2>. QED
    BY <2>2, <2>3 DEF StoredKept, SameTerms
<1>. QED
  BY <1>2, <1>3, <1>4, StepShape

(* The steps that serve no request.                                        *)
LEMMA WorldKeeps ==
    ASSUME \/ Mine \/ Reorg \/ Tick \/ UNCHANGED vars
           \/ \E q \in QuoteIds : SearchStarts(q) \/ SearchEnds(q)
    PROVE  UNCHANGED <<pc, ask, plan, answer>> /\ Within(preparations', preparations)
<1>1. UNCHANGED <<pc, ask, plan, answer>>
  BY DEF Mine, Reorg, Tick, SearchStarts, SearchEnds, vars, locals
<1>2. CASE UNCHANGED storeVars
  BY <1>1, <1>2 DEF storeVars, Within
<1>3. ASSUME NEW q \in QuoteIds, SearchEnds(q)
      PROVE  Within(preparations', preparations)
  BY <1>3, PruneWithin DEF SearchEnds, Store!SaveQuote
<1>. QED
  BY <1>1, <1>2, <1>3 DEF Mine, Reorg, Tick, SearchStarts, vars, storeVars

LEMMA TermsStep ==
    TypeOK /\ VerdictInv /\ TermsInv /\ [Next]_vars => TermsInv'
<1>. SUFFICES ASSUME TypeOK, VerdictInv, TermsInv, [Next]_vars PROVE TermsInv'
  OBVIOUS
<1>1. ASSUME NEW r \in Requests, Serve(r) PROVE TermsInv'
  <2>1. StoredKept(preparations)' /\ Kept(r)'
    BY <1>1, ServeKeepsTerms
  <2>2. ASSUME NEW s \in Requests \ {r} PROVE Kept(s)'
    BY <1>1, ServeTouches, OthersKeepTerms DEF OnlyTouches
  <2>. QED
    BY <2>1, <2>2 DEF TermsInv
<1>2. CASE \/ Mine \/ Reorg \/ Tick \/ UNCHANGED vars
           \/ \E q \in QuoteIds : SearchStarts(q) \/ SearchEnds(q)
  <2>1. UNCHANGED <<pc, ask, plan, answer>> /\ Within(preparations', preparations)
    BY <1>2, WorldKeeps
  <2>2. \A s \in Requests : Kept(s)'
    BY <2>1, OthersKeepTerms
  <2>. QED
    BY <2>1, <2>2, StoreKeepsTerms DEF TermsInv
<1>. QED
  BY <1>1, <1>2 DEF Next

-----------------------------------------------------------------------------
(* The refinement.                                                         *)

Decision(r) == [verdict |-> answer[r].status, terms |-> [plan[r] EXCEPT !.offer = {}]]

Deciders(i) == {s \in Requests : Answered(s) /\ ask[s].id = i}

DecisionsOn(i) == {Decision(r) : r \in Deciders(i)}

LEMMA DecisionsByRequest ==
    Decisions = [i \in Requests |-> DecisionsOn(i)]
BY DEF Decisions, Decision, Deciders, DecisionsOn

LEMMA DecisionsByRequestNext ==
    Decisions' = [i \in Requests |-> DecisionsOn(i)']
BY DEF Decisions, Decision, Deciders, DecisionsOn, Answered, Ready, Approving

(* Equal terms and equal verdicts make equal decisions.                    *)
LEMMA SameDecision ==
    ASSUME NEW p \in Plan, NEW q \in Plan, SameTerms(p, q), p.approval = q.approval
    PROVE  [p EXCEPT !.offer = {}] = [q EXCEPT !.offer = {}]
BY DEF SameTerms, Plan

(* Unless a request is accepted, nothing is decided.                       *)
LEMMA NothingDecided ==
    ASSUME TypeOK, [Next]_vars,
           \A s \in Requests : ~Answered(s) => ~Answered(s)'
    PROVE  Decisions' = Decisions
<1>1. ASSUME NEW s \in Requests
      PROVE  /\ Answered(s)' <=> Answered(s)
             /\ Answered(s) => ask'[s] = ask[s] /\ Decision(s)' = Decision(s)
  BY AnswerFinal, PlanFinal DEF Decision
<1>2. ASSUME NEW i \in Requests PROVE Deciders(i)' = Deciders(i)
  BY <1>1 DEF Deciders
<1>3. ASSUME NEW i \in Requests PROVE DecisionsOn(i)' = DecisionsOn(i)
  BY <1>1, <1>2 DEF Deciders, DecisionsOn
<1>. QED
  BY <1>3, DecisionsByRequest, DecisionsByRequestNext

LEMMA AcceptDecides ==
    ASSUME TypeOK, VerdictInv, TermsInv, [Next]_vars, NEW r \in Requests,
           Serve(r), Accepts(r)
    PROVE  Decisions' = Decisions \/ Contract!Decide(ask[r].id)
<1>1. /\ ~Answered(r) /\ Faithful(r) /\ LocalsOK(r)
      /\ pc[r] \in Working \ {"lookup"}
  BY DEF Accepts, TypeOK, LocalsOK, Answered, Ready, Approving, Working, Checking,
         VerdictInv
<1>2. ASSUME NEW s \in Requests \ {r}
      PROVE  /\ Answered(s)' <=> Answered(s)
             /\ ask'[s] = ask[s] /\ Decision(s)' = Decision(s)
  BY <1>2, ServeTouches DEF OnlyTouches, Answered, Ready, Approving, Decision
<1>3. Answered(r)' /\ ask'[r] = ask[r]
  BY DEF Accepts
<1>4. PICK i \in Requests : i = ask[r].id
  BY <1>1 DEF LocalsOK, Message
<1>5. ASSUME NEW j \in Requests
      PROVE  Deciders(j)' = IF j = i THEN Deciders(j) \cup {r} ELSE Deciders(j)
  BY <1>1, <1>2, <1>3, <1>4 DEF Deciders
<1>6. r \notin Deciders(i)
  BY <1>1 DEF Deciders
<1>7. ASSUME NEW j \in Requests
      PROVE  DecisionsOn(j)' = IF j = i THEN DecisionsOn(j) \cup {Decision(r)'}
                                        ELSE DecisionsOn(j)
  <2>1. \A s \in Deciders(j) : s # r /\ Decision(s)' = Decision(s)
    BY <1>1, <1>2 DEF Deciders
  <2>2. CASE j = i
    BY <1>5, <2>1, <2>2 DEF DecisionsOn
  <2>3. CASE j # i
    BY <1>5, <2>1, <2>3 DEF DecisionsOn
  <2>. QED
    BY <2>2, <2>3
<1>8. CASE Recheck(r)
  <2>1. Origin(i) /\ (plan[r].approval = TRUE <=> Approving(i))
    BY <1>1, <1>4, <1>8 DEF Faithful
  <2>2. i # r /\ i \in Deciders(i)
    BY <1>1, <1>4, <2>1 DEF Origin, Deciders
  <2>3. plan[i] \in Plan /\ (plan[i].approval = TRUE <=> Approving(i)) /\ plan'[i] = plan[i]
    <3>1. LocalsOK(i) /\ Kept(i) /\ Answered(i)
      BY <1>4, <2>1 DEF TypeOK, TermsInv, Origin
    <3>. QED
      BY <2>1, <3>1, OriginFinal DEF LocalsOK, Kept
  <2>4. plan'[r] \in Plan /\ (plan'[r].approval = TRUE <=> Approving(r)')
    BY DEF Accepts
  <2>5. Approving(r)' <=> Approving(i)
    <3>1. VerdictInv'
      BY VerdictStep
    <3>2. Faithful(r)'
      BY <3>1 DEF VerdictInv
    <3>3. Approving(i)' <=> Approving(i)
      BY <1>4, <2>1, AnswerFinal DEF Origin
    <3>. QED
      BY <1>3, <1>4, <3>2, <3>3 DEF Faithful, Approving
  <2>6. answer'[r].status = answer[i].status
    BY <1>3, <2>1, <2>5 DEF Origin, Answered, Ready, Approving
  <2>7. [plan'[r] EXCEPT !.offer = {}] = [plan[i] EXCEPT !.offer = {}]
    <3>1. SameTerms(plan'[r], plan[i])
      BY <1>4, <2>3, AcceptsKeepTerms
    <3>2. plan'[r].approval = plan[i].approval
      BY <2>3, <2>4, <2>5 DEF Plan
    <3>. QED
      BY <2>3, <2>4, <3>1, <3>2, SameDecision
  <2>8. Decision(r)' = Decision(i) /\ Decision(i) \in DecisionsOn(i)
    BY <2>2, <2>6, <2>7 DEF Decision, DecisionsOn
  <2>. QED
    <3>1. \A j \in Requests : DecisionsOn(j)' = DecisionsOn(j)
      BY <1>7, <2>8
    <3>. QED
      BY <3>1, DecisionsByRequest, DecisionsByRequestNext
<1>9. CASE ~Recheck(r)
  <2>1. i = r
    BY <1>1, <1>4, <1>9 DEF Faithful
  <2>2. Deciders(i) = {}
    <3>1. ASSUME NEW s \in Deciders(i) PROVE FALSE
      <4>1. Faithful(s) /\ Answered(s) /\ ask[s].id = r
        BY <2>1, <3>1 DEF Deciders, VerdictInv
      <4>. QED
        BY <1>1, <4>1 DEF Faithful, Origin
    <3>. QED
      BY <3>1
  <2>3. DecisionsOn(i) = {} /\ DecisionsOn(i)' = {Decision(r)'}
    BY <1>4, <1>7, <2>2 DEF DecisionsOn
  <2>4. Decisions[i] = {} /\ Decisions'[i] = {Decision(r)'}
    BY <1>4, <2>3, DecisionsByRequest, DecisionsByRequestNext
  <2>5. Decisions' = [Decisions EXCEPT ![i] = {Decision(r)'}]
    BY <1>4, <1>7, <2>3, DecisionsByRequest, DecisionsByRequestNext
  <2>. QED
    BY <1>4, <2>4, <2>5 DEF Contract!Decide
<1>. QED
  BY <1>8, <1>9

LEMMA RefinementInit == Init => Contract!Init
<1>. SUFFICES ASSUME Init PROVE Contract!Init
  OBVIOUS
<1>1. \A s \in Requests : ~Answered(s)
  BY DEF Init, Answered, Ready, Approving
<1>2. \A i \in Requests : DecisionsOn(i) = {}
  BY <1>1 DEF DecisionsOn, Deciders
<1>. QED
  BY <1>2, DecisionsByRequest DEF Contract!Init

LEMMA RefinementStep ==
    TypeOK /\ VerdictInv /\ TermsInv /\ [Next]_vars => [Contract!Next]_Decisions
<1>. SUFFICES ASSUME TypeOK, VerdictInv, TermsInv, [Next]_vars
              PROVE  Contract!Next \/ Decisions' = Decisions
  OBVIOUS
<1>1. ASSUME NEW r \in Requests, Serve(r)
      PROVE  Contract!Next \/ Decisions' = Decisions
  <2>1. CASE Accepts(r)
    <3>1. ask[r].id \in Requests
      BY <2>1 DEF TypeOK, LocalsOK, Message, Accepts, Working
    <3>. QED
      BY <1>1, <2>1, <3>1, AcceptDecides DEF Contract!Next
  <2>2. CASE ~Accepts(r)
    <3>1. ~Answered(r)'
      BY <1>1, <2>2, StepShape DEF Unbound, Proceeds
    <3>2. \A s \in Requests : ~Answered(s) => ~Answered(s)'
      BY <1>1, <3>1, ServeTouches DEF OnlyTouches, Answered, Ready, Approving
    <3>. QED
      BY <3>2, NothingDecided
  <2>. QED
    BY <2>1, <2>2
<1>2. CASE \/ Mine \/ Reorg \/ Tick \/ UNCHANGED vars
           \/ \E q \in QuoteIds : SearchStarts(q) \/ SearchEnds(q)
  <2>1. \A s \in Requests : ~Answered(s) => ~Answered(s)'
    BY <1>2, WorldKeeps DEF Answered, Ready, Approving
  <2>. QED
    BY <2>1, NothingDecided
<1>. QED
  BY <1>1, <1>2 DEF Next

(* Whatever is asked concurrently or again, and whatever the chain, the    *)
(* clock and the Store's limit do meanwhile, an id has one decision: one   *)
(* verdict on one account, spender, expiry and deadline.                   *)
THEOREM PrepareKeepsContract == Spec => ImplementsContract
<1>1. Spec => [](TypeOK /\ VerdictInv /\ TermsInv)
  BY InitType, TypeStep, InitVerdict, VerdictStep, InitTerms, TermsStep,
     PrepareAssumption, PTL DEF Spec
<1>. QED
  BY <1>1, RefinementInit, RefinementStep, PTL DEF Spec, ImplementsContract, Contract!Spec

-----------------------------------------------------------------------------
(* What becomes of the stored quotes and of the searches.                  *)

(* Entries are dropped, and marks may be added; nothing else.              *)
Grown(new, old, marks) ==
    /\ DOMAIN new \subseteq DOMAIN old
    /\ \A q \in DOMAIN new :
          /\ new[q].expires = old[q].expires
          /\ old[q].approvals \subseteq new[q].approvals
          /\ new[q].approvals \subseteq old[q].approvals \cup marks

LEMMA WithinGrown ==
    ASSUME NEW new, NEW old, NEW marks, Within(new, old)
    PROVE  Grown(new, old, marks)
BY DEF Within, Grown

LEMMA MarkGrows ==
    ASSUME QuotesOK(quotes), NEW id, NEW mark, NEW required, NEW t,
           Store!MarkApproval(id, mark, required, t)
    PROVE  Grown(quotes', quotes, {mark})
<1>. DEFINE live == Store!Prune(quotes, t)
            marked == [live[id] EXCEPT !.approvals = @ \cup {mark}]
<1>1. Within(live, quotes)
  BY PruneWithin
<1>2. CASE quotes' = live
  BY <1>1, <1>2, WithinGrown
<1>3. CASE quotes' = [live EXCEPT ![id].approvals = @ \cup {mark}] /\ id \in DOMAIN live
  <2>1. live[id] \in Store!StoredQuote
    BY <1>1, <1>3 DEF Within, QuotesOK
  <2>. HIDE DEF live
  <2>2. marked.expires = live[id].expires /\ marked.approvals = live[id].approvals \cup {mark}
    BY <2>1 DEF Store!StoredQuote
  <2>3. quotes' = [q \in DOMAIN live |-> IF q = id THEN marked ELSE live[q]]
    BY <1>3
  <2>. HIDE DEF marked
  <2>. QED
    BY <1>1, <2>2, <2>3 DEF Within, Grown
<1>. QED
  BY <1>2, <1>3 DEF Store!MarkApproval

LEMMA SaveQuoteAdds ==
    ASSUME NEW id, NEW terms, NEW started, Store!SaveQuote(id, terms, started)
    PROVE  \A q \in DOMAIN quotes' :
              IF q = id
              THEN quotes'[q] = [expires |-> started + Retention, approvals |-> {},
                                 terms |-> terms]
              ELSE q \in DOMAIN quotes /\ quotes'[q] = quotes[q]
<1>. DEFINE entry == [expires |-> started + Retention, approvals |-> {}, terms |-> terms]
<1>1. PICK kept \in Store!Evicted(Store!Prune(quotes, now)) :
        quotes' = Store!Put(kept, id, entry)
  BY DEF Store!SaveQuote
<1>2. Within(kept, quotes)
  BY EvictedWithin
<1>. HIDE DEF entry
<1>3. \A q \in DOMAIN quotes' :
        IF q = id THEN quotes'[q] = entry ELSE q \in DOMAIN quotes /\ quotes'[q] = quotes[q]
  BY <1>1, <1>2, PutMember DEF Within
<1>. QED
  BY <1>3 DEF entry

(* The marks a request may leave: for its own key, and that of a           *)
(* permission only where one is due.                                       *)
MarksOf(r) ==
    {<<plan[r].key, "erc20">>} \cup {m \in {<<plan[r].key, "permit2">>} : pc[r] = "permission"}

LEMMA ServeGrows ==
    ASSUME TypeOK, NEW r \in Requests, Serve(r)
    PROVE  Grown(quotes', quotes, MarksOf(r))
<1>1. CASE Within(quotes', quotes)
  BY <1>1, WithinGrown
<1>2. ASSUME NEW required, NEW t,
             Store!MarkApproval(plan[r].quote, <<plan[r].key, "erc20">>, required, t)
      PROVE  Grown(quotes', quotes, MarksOf(r))
  <2>1. Grown(quotes', quotes, {<<plan[r].key, "erc20">>})
    BY <1>2, MarkGrows DEF TypeOK
  <2>. QED
    BY <2>1 DEF Grown, MarksOf
<1>3. ASSUME NEW required, NEW t, pc[r] = "permission",
             Store!MarkApproval(plan[r].quote, <<plan[r].key, "permit2">>, required, t)
      PROVE  Grown(quotes', quotes, MarksOf(r))
  <2>1. Grown(quotes', quotes, {<<plan[r].key, "permit2">>})
    BY <1>3, MarkGrows DEF TypeOK
  <2>. QED
    BY <1>3, <2>1 DEF Grown, MarksOf
<1>4. CASE UNCHANGED storeVars
  BY <1>1, <1>4 DEF storeVars, Within
<1>5. CASE Lookup(r)
  BY <1>1, <1>5, LookupKeeps DEF Lookup
<1>6. CASE Grant(r) \/ Simulate(r)
  <2>1. UNCHANGED storeVars \/ \E id, p : Store!SavePreparation(id, p)
    BY <1>6 DEF Grant, Simulate
  <2>. QED
    BY <1>1, <1>4, <2>1, SavePreparationKeeps
<1>7. CASE Allowance(r)
  BY <1>2, <1>4, <1>7 DEF Allowance
<1>8. CASE Permission(r)
  BY <1>3, <1>4, <1>8 DEF Permission
<1>. QED
  BY <1>4, <1>5, <1>6, <1>7, <1>8
  DEF Serve, Arrive, Snapshot, Build, Verify, Fail

(* A search keeps its start, and once it has ended it has ended.           *)
SearchesGoOn ==
    \A q \in QuoteIds : search[q] # None =>
        /\ search'[q] # None /\ search'[q].started = search[q].started
        /\ search[q].ended => search'[q].ended

LEMMA SearchSteps ==
    ASSUME TypeOK, [Next]_vars
    PROVE  SearchesGoOn
<1>1. CASE UNCHANGED search
  BY <1>1 DEF SearchesGoOn
<1>2. ASSUME NEW q \in QuoteIds, SearchStarts(q) PROVE SearchesGoOn
  BY <1>2 DEF SearchStarts, SearchesGoOn, TypeOK
<1>3. ASSUME NEW q \in QuoteIds, SearchEnds(q) PROVE SearchesGoOn
  <2>1. search[q] \in Search
    BY <1>3 DEF SearchEnds, TypeOK
  <2>. DEFINE ended == [search[q] EXCEPT !.ended = TRUE]
  <2>2. ended.started = search[q].started /\ ended.ended /\ search' = [search EXCEPT ![q] = ended]
    BY <1>3, <2>1 DEF SearchEnds, Search
  <2>3. ended # None
    BY <2>1, NoneAssumption DEF Search
  <2>. QED
    BY <2>1, <2>2, <2>3 DEF SearchesGoOn, TypeOK
<1>4. ASSUME NEW r \in Requests, Serve(r) PROVE UNCHANGED search
  BY <1>4, ServeTouches DEF world
<1>. QED
  BY <1>1, <1>2, <1>3, <1>4 DEF Next, Mine, Reorg, Tick, vars, world

-----------------------------------------------------------------------------
(* The age of a price.                                                     *)

(* A quote expires one retention period after its search started.          *)
Dated(q, entry) ==
    /\ search[q] # None /\ search[q].ended
    /\ entry.expires = search[q].started + Retention

(* A plan expires before the second one is over.                           *)
Aged(p) ==
    /\ search[p.quote] # None
    /\ p.expires < search[p.quote].started + 2 * Retention

Fetched(r) == pc[r] \in Working \ {"lookup"}

AgedLocals(r) ==
    /\ (Fetched(r) /\ ~Recheck(r)) =>
          Dated(ask[r].quote, saved[r]) /\ began[r] < saved[r].expires
    /\ (Fetched(r) /\ Recheck(r)) \/ pc[r] \in Checking \/ Answered(r) => Aged(plan[r])
    /\ Answered(r) => answer[r].at < plan[r].expires

AgeInv ==
    /\ \A q \in DOMAIN quotes : Dated(q, quotes[q])
    /\ \A i \in DOMAIN preparations : Aged(preparations[i])
    /\ \A r \in Requests : AgedLocals(r)

(* The conditions of a swap.                                               *)

(* Terms without an approval have not offered one.                         *)
Unoffered(p) == p.approval = FALSE => p.offer = {}

CoveredLocals(r) ==
    /\ (Fetched(r) /\ Recheck(r)) \/ pc[r] \in Checking \/ Answered(r) => Unoffered(plan[r])
    /\ pc[r] \in Checking /\ ~Recheck(r) => plan[r].offer = {}
    /\ pc[r] \in Checking \ {"verify"} => snap[r].time < plan[r].deadline
    /\ pc[r] = "permission" => plan[r].key \in PermitKeys
    /\ pc[r] \in {"permission", "permit", "simulate"} => Covered(r)
    /\ pc[r] = "simulate" /\ plan[r].key \in PermitKeys => ~PermitShort(r)
    /\ Ready(r) =>
          /\ Covered(r)
          /\ plan[r].key \in PermitKeys => ~PermitShort(r)
          /\ snap[r].time < plan[r].deadline
          /\ answer[r].offer = {"swap"}

CoverInv ==
    /\ \A i \in DOMAIN preparations : Unoffered(preparations[i])
    /\ \A r \in Requests : CoveredLocals(r)

(* The marks.                                                              *)

Unmarked(r, kind) == <<plan[r].key, kind>> \notin saved[r].approvals

(* While the quote is there, it has the marks it was looked up with.       *)
Remembers(r) ==
    ask[r].quote \in DOMAIN quotes =>
        saved[r].approvals \subseteq quotes[ask[r].quote].approvals

MarkedLocals(r) ==
    /\ (Fetched(r) /\ ~Recheck(r)) =>
          /\ search[ask[r].quote] # None /\ search[ask[r].quote].ended
          /\ Remembers(r)
          /\ \A mark \in saved[r].approvals : mark[2] = "permit2" => mark[1] \in PermitKeys
          /\ pc[r] \in Checking => plan[r].quote = ask[r].quote
          /\ pc[r] = "permission" => Unmarked(r, "erc20") \/ plan[r].approval = TRUE
          /\ pc[r] = "simulate" => Unmarked(r, "erc20") /\ Unmarked(r, "permit2")
    /\ Answered(r) /\ Recheck(r) => ask[r].id # r
    /\ Ready(r) /\ ~Recheck(r) =>
          /\ saved[r] \in Store!StoredQuote
          /\ Unmarked(r, "erc20") /\ Unmarked(r, "permit2")

MarkInv ==
    /\ \A q \in DOMAIN quotes : search[q] # None /\ search[q].ended
    /\ \A q \in DOMAIN quotes : \A mark \in quotes[q].approvals :
          mark[2] = "permit2" => mark[1] \in PermitKeys
    /\ \A r \in Requests : MarkedLocals(r)

LocalsSafe(r) == AgedLocals(r) /\ CoveredLocals(r) /\ MarkedLocals(r)

SafeInv == AgeInv /\ CoverInv /\ MarkInv

LEMMA InitSafe == Init => SafeInv
<1>. SUFFICES ASSUME Init PROVE SafeInv
  OBVIOUS
<1>1. DOMAIN preparations = {} /\ DOMAIN quotes = {}
  BY DEF Init
<1>2. ASSUME NEW r \in Requests PROVE pc[r] = "idle" /\ ~Answered(r) /\ ~Ready(r)
  BY DEF Init, Answered, Ready, Approving
<1>. QED
  BY <1>1, <1>2 DEF SafeInv, AgeInv, CoverInv, MarkInv, AgedLocals, CoveredLocals,
                    MarkedLocals, Fetched, Working, Checking

(* A stored quote was there before, with fewer marks, or it is that of a   *)
(* search that ends now.                                                   *)
QuotesGoOn ==
    \A q \in DOMAIN quotes' :
        \/ /\ q \in DOMAIN quotes /\ quotes'[q].expires = quotes[q].expires
           /\ quotes[q].approvals \subseteq quotes'[q].approvals
        \/ q \in QuoteIds /\ search[q] # None /\ ~search[q].ended

LEMMA QuotesSteps ==
    ASSUME TypeOK, [Next]_vars
    PROVE  QuotesGoOn
<1>1. ASSUME NEW r \in Requests, Serve(r) PROVE QuotesGoOn
  BY <1>1, ServeGrows DEF Grown, QuotesGoOn
<1>2. ASSUME NEW q \in QuoteIds, SearchEnds(q) PROVE QuotesGoOn
  BY <1>2, SaveQuoteAdds DEF SearchEnds, QuotesGoOn
<1>3. CASE UNCHANGED quotes
  BY <1>3 DEF QuotesGoOn
<1>. QED
  BY <1>1, <1>2, <1>3 DEF Next, Mine, Reorg, Tick, SearchStarts, vars, storeVars

(* What a step leaves alone stays safe.                                    *)
Same(s) ==
    /\ pc'[s] = pc[s] /\ answer'[s] = answer[s]
    /\ ask'[s] = ask[s] /\ began'[s] = began[s]
    /\ saved'[s] = saved[s] /\ snap'[s] = snap[s] /\ plan'[s] = plan[s]

LEMMA AgedStays ==
    ASSUME SearchesGoOn, NEW p \in Plan, Aged(p)
    PROVE  /\ search'[p.quote] # None
           /\ p.expires < search'[p.quote].started + 2 * Retention
BY DEF SearchesGoOn, Aged, Plan

LEMMA DatedStays ==
    ASSUME SearchesGoOn, NEW q \in QuoteIds, NEW entry, Dated(q, entry)
    PROVE  /\ search'[q] # None /\ search'[q].ended
           /\ entry.expires = search'[q].started + Retention
BY DEF SearchesGoOn, Dated

LEMMA RemembersStays ==
    ASSUME TypeOK, QuotesGoOn, NEW r \in Requests, Remembers(r),
           ask'[r] = ask[r], saved'[r] = saved[r], search[ask[r].quote].ended
    PROVE  Remembers(r)'
BY DEF QuotesGoOn, Remembers

LEMMA SameSafe ==
    ASSUME TypeOK, [Next]_vars, NEW s \in Requests, LocalsSafe(s), Same(s)
    PROVE  LocalsSafe(s)'
<1>1. SearchesGoOn /\ QuotesGoOn /\ LocalsOK(s)
  BY SearchSteps, QuotesSteps DEF TypeOK
<1>2. /\ Recheck(s)' <=> Recheck(s)
      /\ Answered(s)' <=> Answered(s)
      /\ Ready(s)' <=> Ready(s)
      /\ Fetched(s)' <=> Fetched(s)
  BY DEF Same, Recheck, Answered, Ready, Approving, Fetched
<1>3. /\ Fetched(s) /\ ~Recheck(s) => ask[s].quote \in QuoteIds
      /\ (Fetched(s) /\ Recheck(s)) \/ pc[s] \in Checking \/ Answered(s) => plan[s] \in Plan
  BY <1>1 DEF LocalsOK, Fetched, Working, Message, Recheck
<1>4. AgedLocals(s)'
  <2>1. Fetched(s) /\ ~Recheck(s) =>
          Dated(ask[s].quote, saved[s])' /\ began[s] < saved[s].expires
    <3>. SUFFICES ASSUME Fetched(s), ~Recheck(s)
                  PROVE  Dated(ask[s].quote, saved[s])' /\ began[s] < saved[s].expires
      OBVIOUS
    <3>1. Dated(ask[s].quote, saved[s]) /\ began[s] < saved[s].expires
      BY DEF LocalsSafe, AgedLocals
    <3>. QED
      BY <1>1, <1>3, <3>1, DatedStays DEF Dated, Same
  <2>2. (Fetched(s) /\ Recheck(s)) \/ pc[s] \in Checking \/ Answered(s) => Aged(plan[s])'
    <3>. SUFFICES ASSUME (Fetched(s) /\ Recheck(s)) \/ pc[s] \in Checking \/ Answered(s)
                  PROVE  Aged(plan[s])'
      OBVIOUS
    <3>1. Aged(plan[s])
      BY DEF LocalsSafe, AgedLocals
    <3>. QED
      BY <1>1, <1>3, <3>1, AgedStays DEF Aged, Same
  <2>. QED
    BY <1>2, <2>1, <2>2 DEF LocalsSafe, AgedLocals, Same
<1>5. CoveredLocals(s)'
  BY <1>2 DEF LocalsSafe, CoveredLocals, Same, Unoffered, Covered, PermitShort
<1>6. MarkedLocals(s)'
  <2>1. \A kind : Unmarked(s, kind)' <=> Unmarked(s, kind)
    BY DEF Same, Unmarked
  <2>2. Fetched(s) /\ ~Recheck(s) =>
          /\ search'[ask[s].quote] # None /\ search'[ask[s].quote].ended
          /\ Remembers(s)'
    BY <1>1, <1>3, RemembersStays DEF LocalsSafe, MarkedLocals, SearchesGoOn, Same
  <2>. QED
    BY <1>2, <2>1, <2>2 DEF LocalsSafe, MarkedLocals, Same
<1>. QED
  BY <1>4, <1>5, <1>6 DEF LocalsSafe

LEMMA UnboundSafe ==
    ASSUME NEW r \in Requests, Unbound(r)
    PROVE  LocalsSafe(r)'
<1>1. pc'[r] \in {"lookup", "done"} /\ ~Answered(r)' /\ ~Ready(r)'
  BY DEF Unbound, Answered
<1>. QED
  BY <1>1 DEF LocalsSafe, AgedLocals, CoveredLocals, MarkedLocals, Fetched, Working, Checking

LEMMA LookupSafe ==
    ASSUME TypeOK, SafeInv, NEW r \in Requests, Lookup(r), ~Refuse(r)
    PROVE  LocalsSafe(r)'
<1>1. /\ pc'[r] = "snapshot" /\ answer'[r] = answer[r] /\ pc[r] = "lookup"
      /\ ask'[r] = ask[r] /\ began'[r] = began[r] /\ search' = search
  BY DEF Lookup, Goto, TypeOK, world
<1>2. ~Answered(r)' /\ ~Ready(r)' /\ (Recheck(r)' <=> Recheck(r))
  BY <1>1, UnansweredYet DEF Working, Answered, Recheck
<1>3. CASE Recheck(r)
  <2>1. ask[r].id \in DOMAIN preparations' /\ plan'[r] = preparations'[ask[r].id]
    BY <1>3 DEF Lookup, TypeOK
  <2>2. ask[r].id \in DOMAIN preparations /\ plan'[r] = preparations[ask[r].id]
    BY <2>1, LookupKeeps DEF Lookup, Within
  <2>3. Aged(plan[r])' /\ Unoffered(plan[r])'
    BY <1>1, <2>2 DEF SafeInv, AgeInv, CoverInv, Aged, Unoffered
  <2>. QED
    BY <1>1, <1>2, <1>3, <2>3
    DEF LocalsSafe, AgedLocals, CoveredLocals, MarkedLocals, Fetched, Working, Checking
<1>4. CASE ~Recheck(r)
  <2>. DEFINE q == ask[r].quote
  <2>1. q \in DOMAIN quotes' /\ saved'[r] = quotes'[q] /\ quotes' = Store!Prune(quotes, began[r])
    BY <1>4 DEF Lookup, TypeOK, Store!Lookup
  <2>2. q \in DOMAIN quotes /\ quotes'[q] = quotes[q] /\ began[r] < quotes[q].expires
    BY <2>1 DEF Store!Prune
  <2>3. Dated(ask[r].quote, saved[r])' /\ began'[r] < saved'[r].expires
    BY <1>1, <2>1, <2>2 DEF SafeInv, AgeInv, Dated
  <2>4. Remembers(r)'
    BY <1>1, <2>1 DEF Remembers
  <2>5. \A mark \in saved'[r].approvals : mark[2] = "permit2" => mark[1] \in PermitKeys
    BY <2>1, <2>2 DEF SafeInv, MarkInv
  <2>6. search'[ask'[r].quote] # None /\ search'[ask'[r].quote].ended
    BY <2>3 DEF Dated
  <2>. QED
    BY <1>1, <1>2, <1>4, <2>3, <2>4, <2>5, <2>6
    DEF LocalsSafe, AgedLocals, CoveredLocals, MarkedLocals, Fetched, Working, Checking
<1>. QED
  BY <1>3, <1>4

LEMMA SnapshotSafe ==
    ASSUME TypeOK, NEW r \in Requests, LocalsSafe(r), Snapshot(r)
    PROVE  LocalsSafe(r)'
<1>1. /\ pc[r] = "snapshot" /\ answer'[r] = answer[r] /\ UNCHANGED <<search, quotes>>
      /\ pc'[r] = IF Recheck(r) THEN "verify" ELSE "build"
      /\ ask'[r] = ask[r] /\ began'[r] = began[r] /\ saved'[r] = saved[r] /\ plan'[r] = plan[r]
  BY DEF Snapshot, Goto, TypeOK, world, storeVars
<1>2. ~Answered(r)' /\ ~Ready(r)' /\ (Recheck(r)' <=> Recheck(r)) /\ Fetched(r)
  BY <1>1, UnansweredYet DEF Working, Checking, Answered, Recheck, Fetched
<1>3. AgedLocals(r)'
  BY <1>1, <1>2 DEF LocalsSafe, AgedLocals, Dated, Aged, Checking
<1>4. CoveredLocals(r)'
  BY <1>1, <1>2 DEF LocalsSafe, CoveredLocals, Unoffered, Checking
<1>5. MarkedLocals(r)'
  BY <1>1, <1>2 DEF LocalsSafe, MarkedLocals, Remembers, Checking
<1>. QED
  BY <1>3, <1>4, <1>5 DEF LocalsSafe

(* The arithmetic of a new plan: the request arrived while its quote was   *)
(* alive, so the plan ends less than a retention period after the quote.   *)
LEMMA BuildSafe ==
    ASSUME TypeOK, PrepareAssumption, NEW r \in Requests, LocalsSafe(r), Build(r), ~Refuse(r)
    PROVE  LocalsSafe(r)'
<1>1. /\ pc[r] = "build" /\ answer'[r] = answer[r] /\ UNCHANGED <<search, quotes>>
      /\ pc'[r] = "verify"
      /\ ask'[r] = ask[r] /\ began'[r] = began[r] /\ saved'[r] = saved[r]
      /\ plan'[r] = [quote |-> ask[r].quote, key |-> ask[r].key,
                     expires |-> began[r] + Retention,
                     deadline |-> snap[r].time + DeadlineWindow,
                     approval |-> FALSE, offer |-> {}]
  BY DEF Build, Goto, TypeOK, world, storeVars
<1>2. /\ ~Answered(r)' /\ ~Ready(r)' /\ (Recheck(r)' <=> Recheck(r))
      /\ Fetched(r) /\ ~Recheck(r) /\ LocalsOK(r)
  BY <1>1, UnansweredYet DEF Working, Checking, Answered, Recheck, Fetched, TypeOK, LocalsOK
<1>3. /\ plan'[r].quote = ask[r].quote /\ plan'[r].expires = began[r] + Retention
      /\ plan'[r].offer = {}
  BY <1>1
<1>4. Dated(ask[r].quote, saved[r]) /\ began[r] < saved[r].expires
  BY <1>2 DEF LocalsSafe, AgedLocals
<1>5. Aged(plan[r])'
  <2>1. search[ask[r].quote] \in Search /\ began[r] \in Nat
    BY <1>2, <1>4 DEF Dated, TypeOK, LocalsOK, Fetched, Working, Message, Recheck
  <2>2. search[ask[r].quote].started \in Nat /\ Retention \in Nat
    BY <2>1 DEF Search, PrepareAssumption
  <2>. QED
    BY <1>1, <1>3, <1>4, <2>1, <2>2 DEF Dated, Aged
<1>6. AgedLocals(r)'
  BY <1>1, <1>2, <1>4, <1>5 DEF AgedLocals, Dated
<1>7. CoveredLocals(r)'
  BY <1>1, <1>2, <1>3 DEF CoveredLocals, Unoffered, Checking
<1>8. MarkedLocals(r)'
  BY <1>1, <1>2, <1>3 DEF LocalsSafe, MarkedLocals, Remembers, Checking
<1>. QED
  BY <1>6, <1>7, <1>8 DEF LocalsSafe

LEMMA VerifySafe ==
    ASSUME TypeOK, NEW r \in Requests, LocalsSafe(r), Verify(r), ~Refuse(r)
    PROVE  LocalsSafe(r)'
<1>1. /\ pc[r] = "verify" /\ answer'[r] = answer[r] /\ UNCHANGED <<search, quotes>>
      /\ pc'[r] = "allowance" /\ snap[r].time < plan[r].deadline
      /\ ask'[r] = ask[r] /\ began'[r] = began[r] /\ saved'[r] = saved[r]
      /\ plan'[r] = plan[r] /\ snap'[r] = snap[r]
  BY DEF Verify, Goto, TypeOK, world, storeVars, locals
<1>2. ~Answered(r)' /\ ~Ready(r)' /\ (Recheck(r)' <=> Recheck(r)) /\ Fetched(r)
  BY <1>1, UnansweredYet DEF Working, Checking, Answered, Recheck, Fetched
<1>3. AgedLocals(r)'
  BY <1>1, <1>2 DEF LocalsSafe, AgedLocals, Dated, Aged, Checking
<1>4. CoveredLocals(r)'
  BY <1>1, <1>2 DEF LocalsSafe, CoveredLocals, Unoffered, Checking
<1>5. MarkedLocals(r)'
  BY <1>1, <1>2 DEF LocalsSafe, MarkedLocals, Remembers, Checking
<1>. QED
  BY <1>3, <1>4, <1>5 DEF LocalsSafe

(* A check that goes on with the next one, and what it must have seen.     *)
Sees(r, label, flag) ==
    /\ Recheck(r) => flag = plan[r].approval
    /\ label = "permission" => plan[r].key \in PermitKeys
    /\ label \in {"permission", "permit", "simulate"} => Covered(r)
    /\ label = "simulate" /\ plan[r].key \in PermitKeys => ~PermitShort(r)
    /\ ~Recheck(r) =>
          /\ label = "permission" => Unmarked(r, "erc20") \/ flag = TRUE
          /\ label = "simulate" => Unmarked(r, "erc20") /\ Unmarked(r, "permit2")

LEMMA ContinueSafe ==
    ASSUME TypeOK, [Next]_vars, NEW r \in Requests, LocalsSafe(r),
           pc[r] \in {"allowance", "permission"}, UNCHANGED search,
           NEW label \in Checking \ {"verify"}, NEW flag \in BOOLEAN,
           Continue(r, label, flag), Sees(r, label, flag)
    PROVE  LocalsSafe(r)'
<1>. DEFINE flagged == [plan[r] EXCEPT !.approval = flag]
<1>1. plan[r] \in Plan /\ label # "requote"
  BY DEF TypeOK, LocalsOK, Checking
<1>2. /\ pc'[r] = label /\ answer'[r] = answer[r]
      /\ ask'[r] = ask[r] /\ began'[r] = began[r] /\ saved'[r] = saved[r]
      /\ snap'[r] = snap[r] /\ plan'[r] = flagged
  BY <1>1 DEF Continue, Goto, TypeOK
<1>3. /\ flagged.quote = plan[r].quote /\ flagged.key = plan[r].key
      /\ flagged.expires = plan[r].expires /\ flagged.deadline = plan[r].deadline
      /\ flagged.offer = plan[r].offer /\ flagged.approval = flag
  BY <1>1 DEF Plan
<1>. HIDE DEF flagged
<1>4. ~Answered(r)' /\ ~Ready(r)' /\ (Recheck(r)' <=> Recheck(r)) /\ Fetched(r) /\ Fetched(r)'
  BY <1>2, UnansweredYet DEF Working, Checking, Answered, Recheck, Fetched
<1>5. AgedLocals(r)'
  <2>1. pc[r] \in Checking
    BY DEF Checking
  <2>2. Aged(plan[r])'
    BY <1>2, <1>3, <2>1 DEF LocalsSafe, AgedLocals, Aged
  <2>3. Dated(ask[r].quote, saved[r])' <=> Dated(ask[r].quote, saved[r])
    BY <1>2 DEF Dated
  <2>. QED
    BY <1>2, <1>4, <2>2, <2>3 DEF LocalsSafe, AgedLocals
<1>6. CoveredLocals(r)'
  <2>1. /\ Unoffered(plan[r]) /\ snap[r].time < plan[r].deadline
        /\ ~Recheck(r) => plan[r].offer = {}
    BY DEF LocalsSafe, CoveredLocals, Checking
  <2>2. /\ Unoffered(plan[r])' /\ (snap'[r].time < plan'[r].deadline)
        /\ ~Recheck(r) => plan'[r].offer = {}
    BY <1>2, <1>3, <2>1 DEF Unoffered, Sees
  <2>3. (Covered(r)' <=> Covered(r)) /\ (PermitShort(r)' <=> PermitShort(r))
    BY <1>2, <1>3 DEF Covered, PermitShort
  <2>. QED
    BY <1>2, <1>3, <1>4, <2>2, <2>3 DEF Sees, CoveredLocals
<1>7. MarkedLocals(r)'
  <2>. SUFFICES ASSUME ~Recheck(r)
                PROVE  /\ search'[ask'[r].quote] # None /\ search'[ask'[r].quote].ended
                       /\ Remembers(r)'
                       /\ \A mark \in saved'[r].approvals :
                             mark[2] = "permit2" => mark[1] \in PermitKeys
                       /\ plan'[r].quote = ask'[r].quote
                       /\ label = "permission" => Unmarked(r, "erc20")' \/ plan'[r].approval = TRUE
                       /\ label = "simulate" => Unmarked(r, "erc20")' /\ Unmarked(r, "permit2")'
    BY <1>2, <1>4 DEF MarkedLocals
  <2>1. /\ search[ask[r].quote] # None /\ search[ask[r].quote].ended
        /\ Remembers(r) /\ plan[r].quote = ask[r].quote
        /\ \A mark \in saved[r].approvals : mark[2] = "permit2" => mark[1] \in PermitKeys
    BY <1>4 DEF LocalsSafe, MarkedLocals, Checking
  <2>2. Remembers(r)'
    BY <1>2, <2>1, QuotesSteps, RemembersStays
  <2>3. \A kind : Unmarked(r, kind)' <=> Unmarked(r, kind)
    BY <1>2, <1>3 DEF Unmarked
  <2>. QED
    BY <1>2, <1>3, <2>1, <2>2, <2>3 DEF Sees
<1>. QED
  BY <1>5, <1>6, <1>7 DEF LocalsSafe

(* While the quote is there, a mark it was looked up with is still seen.   *)
LEMMA MarkSeen ==
    ASSUME TypeOK, NEW r \in Requests, LocalsSafe(r), Fetched(r), ~Recheck(r),
           pc[r] \in Checking, NEW kind, NEW t, ~QuoteLost(r, t),
           ~Store!Marked(plan[r].quote, <<plan[r].key, kind>>, t)
    PROVE  Unmarked(r, kind)
<1>1. Remembers(r) /\ plan[r].quote = ask[r].quote
  BY DEF LocalsSafe, MarkedLocals
<1>2. ask[r].quote \in DOMAIN quotes /\ Store!Live(ask[r].quote, t)
  BY DEF QuoteLost, Store!Live, Store!Prune
<1>. QED
  BY <1>1, <1>2 DEF Store!Marked, Remembers, Unmarked

LEMMA AllowanceSafe ==
    ASSUME TypeOK, [Next]_vars, NEW r \in Requests, LocalsSafe(r), Allowance(r), ~Refuse(r)
    PROVE  LocalsSafe(r)'
<1>1. /\ pc[r] = "allowance" /\ pc[r] \in Checking /\ Fetched(r) /\ LocalsOK(r)
      /\ UNCHANGED search
  BY DEF Allowance, Checking, Fetched, Working, TypeOK, world
<1>2. plan[r].approval \in BOOLEAN
  BY <1>1 DEF LocalsOK, Plan
<1>3. ASSUME NEW flag \in BOOLEAN, AfterAllowance(r, flag) # "requote"
      PROVE  /\ AfterAllowance(r, flag) \in Checking \ {"verify"}
             /\ AfterAllowance(r, flag) \in {"approve", "permission", "simulate"}
             /\ AfterAllowance(r, flag) = "permission" => Covered(r) /\ plan[r].key \in PermitKeys
             /\ AfterAllowance(r, flag) = "simulate" =>
                   Covered(r) /\ plan[r].key \notin PermitKeys /\ flag = FALSE
  BY <1>3 DEF AfterAllowance, Checking
<1>4. CASE Recheck(r)
  <2>. DEFINE flag == plan[r].approval
              label == AfterAllowance(r, flag)
  <2>1. Continue(r, label, flag)
    BY <1>4 DEF Allowance
  <2>2. label # "requote"
    BY <2>1 DEF Continue
  <2>3. label \in Checking \ {"verify"} /\ Sees(r, label, flag)
    BY <1>2, <1>3, <1>4, <2>2 DEF Sees
  <2>. HIDE DEF label
  <2>. QED
    BY <1>1, <1>2, <2>1, <2>3, ContinueSafe
<1>5. CASE ~Recheck(r)
  <2>0. PICK t \in began[r]..now :
          LET flag == Store!Marked(plan[r].quote, <<plan[r].key, "erc20">>, t)
          IN  Continue(r, IF QuoteLost(r, t) THEN "requote" ELSE AfterAllowance(r, flag), flag)
    BY <1>5 DEF Allowance
  <2>. DEFINE flag == Store!Marked(plan[r].quote, <<plan[r].key, "erc20">>, t)
              label == AfterAllowance(r, flag)
  <2>1. Continue(r, IF QuoteLost(r, t) THEN "requote" ELSE label, flag)
    BY <2>0
  <2>2. ~QuoteLost(r, t) /\ label # "requote" /\ Continue(r, label, flag)
    BY <2>1 DEF Continue
  <2>3. flag \in BOOLEAN /\ (flag = FALSE => Unmarked(r, "erc20"))
    BY <1>1, <1>5, <2>2, MarkSeen DEF Store!Marked, Store!Live
  <2>. HIDE DEF flag
  <2>4. /\ label \in Checking \ {"verify"}
        /\ label \in {"approve", "permission", "simulate"}
        /\ label = "permission" => Covered(r) /\ plan[r].key \in PermitKeys
        /\ label = "simulate" => Covered(r) /\ plan[r].key \notin PermitKeys /\ flag = FALSE
    BY <1>3, <2>2, <2>3
  <2>5. plan[r].key \notin PermitKeys => Unmarked(r, "permit2")
    <3>1. \A mark \in saved[r].approvals : mark[2] = "permit2" => mark[1] \in PermitKeys
      BY <1>1, <1>5 DEF LocalsSafe, MarkedLocals
    <3>. QED
      BY <3>1 DEF Unmarked
  <2>6. Sees(r, label, flag)
    BY <1>5, <2>3, <2>4, <2>5 DEF Sees
  <2>. HIDE DEF label
  <2>. QED
    BY <1>1, <2>2, <2>3, <2>4, <2>6, ContinueSafe
<1>. QED
  BY <1>4, <1>5

LEMMA PermissionSafe ==
    ASSUME TypeOK, [Next]_vars, NEW r \in Requests, LocalsSafe(r), Permission(r), ~Refuse(r)
    PROVE  LocalsSafe(r)'
<1>1. /\ pc[r] = "permission" /\ pc[r] \in Checking /\ Fetched(r) /\ LocalsOK(r)
      /\ UNCHANGED search
  BY DEF Permission, Checking, Fetched, Working, TypeOK, world
<1>2. plan[r].approval \in BOOLEAN /\ Covered(r)
  BY <1>1 DEF LocalsOK, Plan, LocalsSafe, CoveredLocals
<1>3. ASSUME NEW flag \in BOOLEAN, AfterPermission(r, flag) # "requote"
      PROVE  /\ AfterPermission(r, flag) \in Checking \ {"verify"}
             /\ AfterPermission(r, flag) \in {"permit", "simulate"}
             /\ AfterPermission(r, flag) = "simulate" => ~PermitShort(r) /\ flag = FALSE
  BY <1>3 DEF AfterPermission, Checking
<1>4. CASE Recheck(r)
  <2>. DEFINE flag == plan[r].approval
              label == AfterPermission(r, flag)
  <2>1. Continue(r, label, flag)
    BY <1>4 DEF Permission
  <2>2. label # "requote"
    BY <2>1 DEF Continue
  <2>3. label \in Checking \ {"verify"} /\ Sees(r, label, flag)
    BY <1>2, <1>3, <1>4, <2>2 DEF Sees
  <2>. HIDE DEF label
  <2>. QED
    BY <1>1, <1>2, <2>1, <2>3, ContinueSafe
<1>5. CASE ~Recheck(r)
  <2>0. PICK t \in began[r]..now :
          LET flag == plan[r].approval \/ Store!Marked(plan[r].quote, <<plan[r].key, "permit2">>, t)
          IN  Continue(r, IF QuoteLost(r, t) THEN "requote" ELSE AfterPermission(r, flag), flag)
    BY <1>5 DEF Permission
  <2>. DEFINE seen == Store!Marked(plan[r].quote, <<plan[r].key, "permit2">>, t)
              flag == plan[r].approval \/ seen
              label == AfterPermission(r, flag)
  <2>1. Continue(r, IF QuoteLost(r, t) THEN "requote" ELSE label, flag)
    BY <2>0
  <2>2. ~QuoteLost(r, t) /\ label # "requote" /\ Continue(r, label, flag)
    BY <2>1 DEF Continue
  <2>3. seen \in BOOLEAN /\ (seen = FALSE => Unmarked(r, "permit2"))
    BY <1>1, <1>5, <2>2, MarkSeen DEF Store!Marked, Store!Live
  <2>. HIDE DEF seen
  <2>4. flag \in BOOLEAN /\ (flag = FALSE => plan[r].approval = FALSE /\ seen = FALSE)
    BY <1>2, <2>3
  <2>. HIDE DEF flag
  <2>5. /\ label \in Checking \ {"verify"}
        /\ label \in {"permit", "simulate"}
        /\ label = "simulate" => ~PermitShort(r) /\ flag = FALSE
    BY <1>3, <2>2, <2>4
  <2>6. Unmarked(r, "erc20") \/ plan[r].approval = TRUE
    BY <1>1, <1>5 DEF LocalsSafe, MarkedLocals
  <2>7. Sees(r, label, flag)
    BY <1>2, <1>5, <2>3, <2>4, <2>5, <2>6 DEF Sees
  <2>. HIDE DEF label
  <2>. QED
    BY <1>1, <2>2, <2>4, <2>5, <2>7, ContinueSafe
<1>. QED
  BY <1>4, <1>5

(* A recheck is about the preparation of somebody else.                    *)
LEMMA NotItself ==
    ASSUME TypeOK, VerdictInv, NEW r \in Requests,
           pc[r] \in Working \ {"lookup"}, Recheck(r)
    PROVE  ask[r].id # r
<1>1. Origin(ask[r].id) /\ ~Answered(r)
  BY DEF VerdictInv, Faithful, TypeOK, LocalsOK, Answered, Ready, Approving, Working, Checking
<1>. QED
  BY <1>1 DEF Origin

LEMMA GrantSafe ==
    ASSUME TypeOK, VerdictInv, NEW r \in Requests, LocalsSafe(r), Grant(r),
           ~(Refuse(r) /\ UNCHANGED storeVars)
    PROVE  LocalsSafe(r)'
<1>. DEFINE granted == [plan[r] EXCEPT !.approval = TRUE, !.offer = @ \cup {pc[r]}]
<1>1. /\ pc[r] \in {"approve", "permit"} /\ pc[r] \in Checking /\ plan[r] \in Plan
      /\ pc[r] \in Working \ {"lookup"}
  BY DEF Grant, TypeOK, LocalsOK, Checking, Working
<1>2. /\ granted.approval = TRUE /\ granted.expires = plan[r].expires
      /\ granted.quote = plan[r].quote
  BY <1>1 DEF Plan
<1>3. /\ plan' = [plan EXCEPT ![r] = granted]
      /\ Accept(r, "APPROVAL_REQUIRED", granted.offer)
      /\ Fresh(r) /\ search' = search
  BY DEF Grant, world
<1>. HIDE DEF granted
<1>4. /\ pc'[r] = "done" /\ ask'[r] = ask[r] /\ plan'[r] = granted
      /\ answer'[r].status = "APPROVAL_REQUIRED" /\ answer'[r].at = now
  BY <1>3 DEF Accept, TypeOK
<1>5. ~Ready(r)' /\ ~Fetched(r)' /\ pc'[r] \notin Checking
  BY <1>4 DEF Ready, Fetched, Working, Checking
<1>6. Aged(plan[r])' /\ Unoffered(plan[r])' /\ answer'[r].at < plan'[r].expires
  BY <1>1, <1>2, <1>3, <1>4 DEF LocalsSafe, AgedLocals, Aged, Unoffered, Fresh
<1>7. Recheck(r)' => ask'[r].id # r
  BY <1>1, <1>4, NotItself DEF Recheck
<1>. QED
  BY <1>4, <1>5, <1>6, <1>7 DEF LocalsSafe, AgedLocals, CoveredLocals, MarkedLocals, Checking

LEMMA SimulateSafe ==
    ASSUME TypeOK, VerdictInv, NEW r \in Requests, LocalsSafe(r), Simulate(r),
           ~(Refuse(r) /\ UNCHANGED storeVars)
    PROVE  LocalsSafe(r)'
<1>1. /\ pc[r] = "simulate" /\ pc[r] \in Checking /\ plan[r] \in Plan
      /\ pc[r] \in Working \ {"lookup"} /\ Fetched(r) /\ LocalsOK(r)
  BY DEF Simulate, TypeOK, LocalsOK, Checking, Working, Fetched
<1>2. /\ Accept(r, "READY", plan[r].offer \cup {"swap"})
      /\ plan' = plan /\ Fresh(r) /\ search' = search
  BY DEF Simulate, world
<1>3. /\ pc'[r] = "done" /\ ask'[r] = ask[r] /\ plan'[r] = plan[r]
      /\ snap'[r] = snap[r] /\ saved'[r] = saved[r]
      /\ answer'[r] = [status |-> "READY", offer |-> plan[r].offer \cup {"swap"}, at |-> now]
  BY <1>2 DEF Accept, TypeOK
<1>4. ~Fetched(r)' /\ pc'[r] \notin Checking /\ (Recheck(r)' <=> Recheck(r))
  BY <1>3 DEF Fetched, Working, Checking, Recheck
<1>5. plan[r].offer = {}
  <2>1. plan[r].approval = FALSE
    BY <1>1 DEF VerdictInv, Faithful
  <2>. QED
    BY <1>1, <2>1 DEF LocalsSafe, CoveredLocals, Unoffered
<1>6. Aged(plan[r])' /\ Unoffered(plan[r])' /\ answer'[r].at < plan'[r].expires
  BY <1>1, <1>2, <1>3, <1>5 DEF LocalsSafe, AgedLocals, Aged, Unoffered, Fresh
<1>7. /\ Covered(r)' /\ (plan'[r].key \in PermitKeys => ~PermitShort(r)')
      /\ snap'[r].time < plan'[r].deadline /\ answer'[r].offer = {"swap"}
  BY <1>1, <1>3, <1>5 DEF LocalsSafe, CoveredLocals, Covered, PermitShort, Checking
<1>8. Recheck(r)' => ask'[r].id # r
  BY <1>1, <1>3, <1>4, NotItself
<1>9. ~Recheck(r)' =>
        /\ saved'[r] \in Store!StoredQuote
        /\ Unmarked(r, "erc20")' /\ Unmarked(r, "permit2")'
  BY <1>1, <1>3, <1>4 DEF LocalsSafe, MarkedLocals, Unmarked, LocalsOK
<1>. QED
  BY <1>3, <1>4, <1>6, <1>7, <1>8, <1>9
  DEF LocalsSafe, AgedLocals, CoveredLocals, MarkedLocals, Checking

LEMMA ServeSafe ==
    ASSUME TypeOK, VerdictInv, SafeInv, [Next]_vars, NEW r \in Requests, Serve(r)
    PROVE  LocalsSafe(r)'
<1>1. LocalsSafe(r)
  BY DEF SafeInv, AgeInv, CoverInv, MarkInv, LocalsSafe
<1>2. CASE Refuse(r)
  <2>1. Unbound(r) \/ LocalsSafe(r)'
    <3>1. pc'[r] = "done" /\ answer'[r] = [status |-> "REFUSED"]
      BY <1>2 DEF Refuse, TypeOK
    <3>2. ~Answered(r)' /\ ~Ready(r)'
      BY <3>1 DEF Answered, Ready, Approving
    <3>. QED
      BY <3>1, <3>2 DEF LocalsSafe, AgedLocals, CoveredLocals, MarkedLocals, Fetched,
                        Working, Checking
  <2>. QED
    BY <2>1, UnboundSafe
<1>3. CASE Arrive(r)
  <2>1. Unbound(r) \/ Proceeds(r)
    BY <1>3, EarlyShape
  <2>2. pc[r] = "idle"
    BY <1>3 DEF Arrive
  <2>. QED
    BY <2>1, <2>2, UnboundSafe DEF Proceeds, Working, Checking
<1>4. CASE ~Refuse(r) /\ ~Arrive(r)
  BY <1>1, <1>4, PrepareAssumption, LookupSafe, SnapshotSafe, BuildSafe, VerifySafe,
     AllowanceSafe, PermissionSafe, GrantSafe, SimulateSafe
  DEF Serve, Fail
<1>. QED
  BY <1>2, <1>3, <1>4

LEMMA StoreSafe ==
    ASSUME TypeOK, VerdictInv, SafeInv, [Next]_vars, NEW r \in Requests, Serve(r)
    PROVE  /\ \A q \in DOMAIN quotes' : Dated(q, quotes[q])'
           /\ \A q \in DOMAIN quotes' : \A mark \in quotes'[q].approvals :
                 mark[2] = "permit2" => mark[1] \in PermitKeys
           /\ \A i \in DOMAIN preparations' :
                 Aged(preparations[i])' /\ Unoffered(preparations[i])'
<1>1. Grown(quotes', quotes, MarksOf(r)) /\ search' = search
  BY ServeGrows, ServeTouches DEF world
<1>2. \A q \in DOMAIN quotes' : Dated(q, quotes[q])'
  BY <1>1 DEF Grown, SafeInv, AgeInv, Dated
<1>3. ASSUME NEW q \in DOMAIN quotes', NEW mark \in quotes'[q].approvals,
             mark[2] = "permit2"
      PROVE  mark[1] \in PermitKeys
  <2>1. CASE mark \in quotes[q].approvals
    BY <1>1, <1>3, <2>1 DEF Grown, SafeInv, MarkInv
  <2>2. CASE mark \in MarksOf(r)
    <3>1. mark = <<plan[r].key, "permit2">> /\ pc[r] = "permission"
      BY <1>3, <2>2 DEF MarksOf
    <3>. QED
      BY <3>1 DEF SafeInv, CoverInv, CoveredLocals
  <2>. QED
    BY <1>1, <1>3, <2>1, <2>2 DEF Grown
<1>4. ASSUME NEW i \in DOMAIN preparations'
      PROVE  Aged(preparations[i])' /\ Unoffered(preparations[i])'
  <2>1. CASE Within(preparations', preparations)
    <3>1. i \in DOMAIN preparations /\ preparations'[i] = preparations[i]
      BY <1>4, <2>1 DEF Within
    <3>2. Aged(preparations[i]) /\ Unoffered(preparations[i])
      BY <3>1 DEF SafeInv, AgeInv, CoverInv
    <3>. QED
      BY <1>1, <3>1, <3>2 DEF Aged, Unoffered
  <2>2. CASE Accepts(r)
    <3>1. Aged(plan[r])' /\ Unoffered(plan[r])'
      BY <2>2, ServeSafe DEF Accepts, LocalsSafe, AgedLocals, CoveredLocals
    <3>2. \/ preparations'[i] = plan'[r]
          \/ i \in DOMAIN preparations /\ preparations'[i] = preparations[i]
      BY <1>4, <2>2, SavePreparationKeeps DEF Accepts
    <3>3. CASE preparations'[i] = plan'[r]
      BY <3>1, <3>3 DEF Aged, Unoffered
    <3>4. CASE i \in DOMAIN preparations /\ preparations'[i] = preparations[i]
      <4>1. Aged(preparations[i]) /\ Unoffered(preparations[i])
        BY <3>4 DEF SafeInv, AgeInv, CoverInv
      <4>. QED
        BY <1>1, <3>4, <4>1 DEF Aged, Unoffered
    <3>. QED
      BY <3>2, <3>3, <3>4
  <2>. QED
    BY <2>1, <2>2, StepShape DEF Unbound, Proceeds
<1>. QED
  BY <1>2, <1>3, <1>4

(* The steps that serve no request.                                        *)
LEMMA WorldSafe ==
    ASSUME TypeOK, SafeInv, [Next]_vars,
           \/ Mine \/ Reorg \/ Tick \/ UNCHANGED vars
           \/ \E q \in QuoteIds : SearchStarts(q) \/ SearchEnds(q)
    PROVE  SafeInv'
<1>1. SearchesGoOn
  BY SearchSteps
<1>2. \A s \in Requests : LocalsSafe(s)'
  <2>1. \A s \in Requests : Same(s)
    BY DEF Mine, Reorg, Tick, SearchStarts, SearchEnds, vars, locals, Same
  <2>. QED
    BY <2>1, SameSafe DEF SafeInv, AgeInv, CoverInv, MarkInv, LocalsSafe
<1>3. ASSUME NEW i \in DOMAIN preparations'
      PROVE  Aged(preparations[i])' /\ Unoffered(preparations[i])'
  <2>1. Within(preparations', preparations)
    BY WorldKeeps
  <2>2. i \in DOMAIN preparations /\ preparations'[i] = preparations[i]
    BY <1>3, <2>1 DEF Within
  <2>3. Aged(preparations[i]) /\ Unoffered(preparations[i]) /\ preparations[i] \in Plan
    BY <2>2 DEF SafeInv, AgeInv, CoverInv, TypeOK, PlansOK
  <2>. QED
    BY <1>1, <2>2, <2>3, AgedStays DEF Aged, Unoffered
<1>4. ASSUME NEW q \in DOMAIN quotes'
      PROVE  /\ Dated(q, quotes[q])'
             /\ \A mark \in quotes'[q].approvals : mark[2] = "permit2" => mark[1] \in PermitKeys
  <2>1. CASE q \in DOMAIN quotes /\ quotes'[q] = quotes[q]
    <3>1. q \in QuoteIds /\ Dated(q, quotes[q])
      BY <2>1 DEF SafeInv, AgeInv, TypeOK, QuotesOK
    <3>. QED
      BY <1>1, <2>1, <3>1, DatedStays DEF Dated, SafeInv, MarkInv
  <2>2. ASSUME NEW p \in QuoteIds, SearchEnds(p), ~(q \in DOMAIN quotes /\ quotes'[q] = quotes[q])
        PROVE  /\ Dated(q, quotes[q])'
               /\ \A mark \in quotes'[q].approvals : mark[2] = "permit2" => mark[1] \in PermitKeys
    <3>1. search[p] \in Search /\ Store!SaveQuote(p, search[p].block, search[p].started)
      BY <2>2 DEF SearchEnds, TypeOK
    <3>2. /\ q = p
          /\ quotes'[q] = [expires |-> search[p].started + Retention, approvals |-> {},
                           terms |-> search[p].block]
      BY <1>4, <2>2, <3>1, SaveQuoteAdds
    <3>. DEFINE ended == [search[p] EXCEPT !.ended = TRUE]
    <3>3. /\ ended.started = search[p].started /\ ended.ended = TRUE
          /\ search' = [search EXCEPT ![p] = ended] /\ ended \in Search
      BY <2>2, <3>1 DEF SearchEnds, Search
    <3>4. ended # None
      BY <3>3, NoneAssumption
    <3>. HIDE DEF ended
    <3>5. search'[p] = ended
      BY <3>3 DEF TypeOK
    <3>. QED
      BY <3>2, <3>3, <3>4, <3>5 DEF Dated
  <2>3. CASE UNCHANGED quotes
    BY <1>4, <2>1, <2>3
  <2>. QED
    BY <2>1, <2>2, <2>3 DEF Mine, Reorg, Tick, SearchStarts, vars, storeVars
<1>. QED
  BY <1>2, <1>3, <1>4 DEF SafeInv, AgeInv, CoverInv, MarkInv, LocalsSafe, Dated

LEMMA SafeStep ==
    TypeOK /\ VerdictInv /\ SafeInv /\ [Next]_vars => SafeInv'
<1>. SUFFICES ASSUME TypeOK, VerdictInv, SafeInv, [Next]_vars PROVE SafeInv'
  OBVIOUS
<1>1. ASSUME NEW r \in Requests, Serve(r) PROVE SafeInv'
  <2>1. \A s \in Requests : LocalsSafe(s)'
    <3>1. ASSUME NEW s \in Requests \ {r} PROVE LocalsSafe(s)'
      <4>1. LocalsSafe(s)
        BY DEF SafeInv, AgeInv, CoverInv, MarkInv, LocalsSafe
      <4>2. Same(s)
        BY <1>1, ServeTouches DEF OnlyTouches, Same
      <4>. QED
        BY <4>1, <4>2, SameSafe
    <3>. QED
      BY <1>1, <3>1, ServeSafe
  <2>. QED
    BY <1>1, <2>1, StoreSafe DEF SafeInv, AgeInv, CoverInv, MarkInv, LocalsSafe, Dated
<1>2. CASE \/ Mine \/ Reorg \/ Tick \/ UNCHANGED vars
           \/ \E q \in QuoteIds : SearchStarts(q) \/ SearchEnds(q)
  BY <1>2, WorldSafe
<1>. QED
  BY <1>1, <1>2 DEF Next

(* The four invariants hold together in every behaviour.                   *)
LEMMA SafeAlways == Spec => [](TypeOK /\ VerdictInv /\ TermsInv /\ SafeInv)
BY InitType, TypeStep, InitVerdict, VerdictStep, InitTerms, TermsStep,
   InitSafe, SafeStep, PrepareAssumption, PTL DEF Spec

(* Nobody is answered with terms whose price is two retention periods old, *)
(* counted from the start of its search, however slow the search and       *)
(* however often the preparation is rechecked.                             *)
THEOREM PriceAge == Spec => []PriceAgeBounded
<1>1. TypeOK /\ SafeInv => PriceAgeBounded
  <2>. SUFFICES ASSUME TypeOK, SafeInv, NEW r \in Requests, Answered(r)
                PROVE  answer[r].at < search[plan[r].quote].started + 2 * Retention
    BY DEF PriceAgeBounded
  <2>1. Aged(plan[r]) /\ answer[r].at < plan[r].expires
    BY DEF SafeInv, AgeInv, AgedLocals
  <2>2. LocalsOK(r)
    BY DEF TypeOK
  <2>3. plan[r] \in Plan /\ answer[r] \in Answer /\ answer[r].status # "REFUSED"
    BY <2>2 DEF LocalsOK, Answered, Ready, Approving
  <2>4. search[plan[r].quote] \in Search
    BY <2>1, <2>3 DEF Aged, TypeOK, Plan
  <2>5. /\ plan[r].expires \in Nat /\ answer[r].at \in Nat
        /\ search[plan[r].quote].started \in Nat /\ 2 * Retention \in Nat
    BY <2>3, <2>4, PrepareAssumption DEF Plan, Answer, Search, PrepareAssumption
  <2>. QED
    BY <2>1, <2>5 DEF Aged
<1>. QED
  BY <1>1, SafeAlways, PTL

(* A swap is offered only on a block that covered it, before its deadline, *)
(* and with nothing else to sign.                                          *)
THEOREM ReadyCovered == Spec => []ReadyIsCovered
<1>1. SafeInv => ReadyIsCovered
  BY DEF SafeInv, CoverInv, CoveredLocals, ReadyIsCovered
<1>. QED
  BY <1>1, SafeAlways, PTL

(* A preparation created on a quote that carried a mark of its own account *)
(* and spender is never answered READY, neither at once nor on a recheck.  *)
THEOREM MarkedStaysUnready == Spec => []MarkedNeverReady
<1>1. TypeOK /\ VerdictInv /\ TermsInv /\ SafeInv => MarkedNeverReady
  <2>. SUFFICES ASSUME TypeOK, VerdictInv, TermsInv, SafeInv, NEW r \in Requests, Ready(r),
                       NEW mark \in saved[ask[r].id].approvals
                PROVE  mark[1] # plan[r].key
    BY DEF MarkedNeverReady
  <2>. DEFINE i == ask[r].id
  <2>1. Answered(r) /\ ~Approving(r)
    BY DEF Answered, Ready, Approving
  <2>2. Origin(i) /\ ~Approving(i) /\ plan[i].key = plan[r].key
    BY <2>1 DEF VerdictInv, Faithful, TermsInv, Kept, SameTerms
  <2>3. Ready(i) /\ i \in Requests /\ ask[i].id = i
    BY <2>2 DEF Origin, Answered
  <2>4. ~Recheck(i)
    BY <2>2, <2>3 DEF SafeInv, MarkInv, MarkedLocals, Origin
  <2>5. /\ saved[i] \in Store!StoredQuote
        /\ Unmarked(i, "erc20") /\ Unmarked(i, "permit2")
    BY <2>3, <2>4 DEF SafeInv, MarkInv, MarkedLocals
  <2>6. mark \in Keys \X {"erc20", "permit2"}
    BY <2>5 DEF Store!StoredQuote
  <2>. QED
    BY <2>2, <2>5, <2>6 DEF Unmarked
<1>. QED
  BY <1>1, SafeAlways, PTL

=============================================================================
