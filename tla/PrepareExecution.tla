-------------------------- MODULE PrepareExecution --------------------------
(***************************************************************************)
(* Handler.PrepareExecution: concurrent requests over one Store and a      *)
(* chain that moves between any two of their network calls.                *)
(*                                                                         *)
(* A request prepares a stored quote for a recipient and spender, or       *)
(* rechecks a preparation it was given before.  Each action below is the   *)
(* code between two awaits: what it reads of the chain is fixed by the     *)
(* snapshot the request took, what it reads of the Store is one call under *)
(* the mutex.  A request names the preparation it creates (rand.Text is    *)
(* unique), so PreparationIds is the set of requests.                      *)
(*                                                                         *)
(* Amounts are abstracted to what the handler compares: a block says for   *)
(* each key whether the ERC-20 allowance covers the amount, and until when *)
(* the Permit2 permission covers it (0 when its amount is too small).      *)
(***************************************************************************)
EXTENDS Integers, FiniteSets, Sequences

CONSTANTS
    QuoteIds,        \* quotes the engine searches for, each once
    Requests,        \* PrepareExecution calls, each served once
    Keys,            \* (recipient, spender) pairs
    PermitKeys,      \* keys whose spender is Permit2, so a permission is due too
    Expirations,     \* Permit2 expirations a block may hold, 0 among them
    Gaps,            \* differences between the timestamps of two blocks
    Retention,       \* 30 seconds, for quotes and for preparations
    DeadlineWindow,  \* 120 seconds from the block of the first preparation
    StoreLimit,      \* 1024
    MaxTime,         \* bound of the clock
    MaxBlocks,       \* bound on the blocks ever mined, replaced ones included
    None             \* a local variable that is not set

ASSUME PrepareAssumption ==
    /\ PermitKeys \subseteq Keys
    /\ Expirations \subseteq Nat
    /\ Gaps \subseteq Nat
    /\ Retention \in Nat /\ DeadlineWindow \in Nat
    /\ StoreLimit \in Nat \ {0} /\ MaxTime \in Nat /\ MaxBlocks \in Nat

VARIABLES
    now,             \* time.Now() of the engine
    quotes, preparations,   \* the Store's maps
    chain,           \* the canonical chain, a sequence of blocks
    mined,           \* blocks mined so far; a block's number here is its hash
    search,          \* per quote: what GetQuote holds before it saves
    pc,              \* per request: the await it is at
    ask,             \* per request: the message
    began,           \* per request: now, execution.go:48
    saved,           \* per request: its copy of the stored quote
    snap,            \* per request: the block it checks everything at
    plan,            \* per request: p, its copy of the preparation
    answer           \* per request: the response

locals == <<ask, began, saved, snap, plan>>
world == <<now, chain, mined, search>>
storeVars == <<quotes, preparations>>
vars == <<world, storeVars, pc, locals, answer>>

Block == [hash : Nat, time : Nat,
          covers : [Keys -> BOOLEAN], permitUntil : [Keys -> Nat]]

Store == INSTANCE QuoteStore WITH
    PreparationIds <- Requests,
    Marks <- Keys \X {"erc20", "permit2"},
    Terms <- Block

-----------------------------------------------------------------------------
(* The chain and the clock.                                                *)

Latest == chain[Len(chain)]

Canonical(block) == \E i \in DOMAIN chain : chain[i].hash = block.hash

NewBlock(parent) ==
    [hash : {mined + 1}, time : {parent.time + gap : gap \in Gaps},
     covers : [Keys -> BOOLEAN],
     permitUntil : {f \in [Keys -> Expirations] : \A k \in Keys \ PermitKeys : f[k] = 0}]

Mine ==
    /\ mined < MaxBlocks
    /\ \E block \in NewBlock(Latest) : chain' = Append(chain, block)
    /\ mined' = mined + 1
    /\ UNCHANGED <<now, search, storeVars, pc, locals, answer>>

(* The head is replaced by a sibling.                                      *)
Reorg ==
    /\ mined < MaxBlocks
    /\ Len(chain) > 1
    /\ \E block \in NewBlock(chain[Len(chain) - 1]) :
          chain' = [chain EXCEPT ![Len(chain)] = block]
    /\ mined' = mined + 1
    /\ UNCHANGED <<now, search, storeVars, pc, locals, answer>>

Tick ==
    /\ now < MaxTime
    /\ now' = now + 1
    /\ UNCHANGED <<chain, mined, search, storeVars, pc, locals, answer>>

-----------------------------------------------------------------------------
(* GetQuote as PrepareExecution sees it: a block and a start time are      *)
(* taken first, the quote is stored when the search ends.                  *)

SearchStarts(q) ==
    /\ search[q] = None
    /\ search' = [search EXCEPT ![q] = [block |-> Latest, started |-> now, ended |-> FALSE]]
    /\ UNCHANGED <<now, chain, mined, storeVars, pc, locals, answer>>

SearchEnds(q) ==
    /\ search[q] # None /\ ~search[q].ended
    /\ Store!SaveQuote(q, search[q].block, search[q].started)
    /\ search' = [search EXCEPT ![q].ended = TRUE]
    /\ UNCHANGED <<now, chain, mined, pc, locals, answer>>

-----------------------------------------------------------------------------
(* One request.                                                            *)

Recheck(r) == ask[r].recheck
Covered(r) == snap[r].covers[plan[r].key]
PermitShort(r) == snap[r].permitUntil[plan[r].key] < plan[r].deadline

Goto(r, label) == pc' = [pc EXCEPT ![r] = label] /\ UNCHANGED answer

Forget(f, r) == [f EXCEPT ![r] = None]

(* A refusal carries nothing; the handler's local state is gone with it.   *)
(* REJECTED, REQUOTE_REQUIRED and the errors are one answer here: none of  *)
(* them gives the caller anything to sign.                                 *)
Refuse(r) ==
    /\ pc' = [pc EXCEPT ![r] = "done"]
    /\ answer' = [answer EXCEPT ![r] = [status |-> "REFUSED"]]
    /\ ask' = Forget(ask, r) /\ began' = Forget(began, r)
    /\ saved' = Forget(saved, r) /\ snap' = Forget(snap, r) /\ plan' = Forget(plan, r)

(* A response with terms: what it offers to sign.                          *)
Accept(r, status, offer) ==
    /\ pc' = [pc EXCEPT ![r] = "done"]
    /\ answer' = [answer EXCEPT ![r] = [status |-> status, offer |-> offer, at |-> now]]
    /\ UNCHANGED <<ask, began, saved, snap>>

(* Arrival, and the clock reading that Lookup and a new expiry are based   *)
(* on.  The message names a quote and a key, or a preparation only.        *)
Arrive(r) ==
    /\ pc[r] = "idle"
    /\ \E m \in [recheck : {FALSE}, quote : QuoteIds, key : Keys, id : {r}]
           \cup [recheck : {TRUE}, quote : {None}, key : {None}, id : Requests \ {r}] :
          ask' = [ask EXCEPT ![r] = m]
    /\ began' = [began EXCEPT ![r] = now]
    /\ Goto(r, "lookup")
    /\ UNCHANGED <<world, storeVars, saved, snap, plan>>

Lookup(r) ==
    /\ pc[r] = "lookup"
    /\ Store!Lookup(began[r])
    /\ \/ /\ Recheck(r) /\ ask[r].id \in DOMAIN preparations'
          /\ plan' = [plan EXCEPT ![r] = preparations'[ask[r].id]]
          /\ Goto(r, "snapshot")
          /\ UNCHANGED <<ask, began, saved, snap>>
       \/ /\ ~Recheck(r) /\ ask[r].quote \in DOMAIN quotes'
          /\ saved' = [saved EXCEPT ![r] = quotes'[ask[r].quote]]
          /\ Goto(r, "snapshot")
          /\ UNCHANGED <<ask, began, snap, plan>>
       \/ /\ IF Recheck(r) THEN ask[r].id \notin DOMAIN preparations'
                           ELSE ask[r].quote \notin DOMAIN quotes'
          /\ Refuse(r)
    /\ UNCHANGED world

Snapshot(r) ==
    /\ pc[r] = "snapshot"
    /\ snap' = [snap EXCEPT ![r] = Latest]
    /\ Goto(r, IF Recheck(r) THEN "verify" ELSE "build")
    /\ UNCHANGED <<world, storeVars, ask, began, saved, plan>>

(* The quote's block must still be canonical; then the terms are frozen.   *)
Build(r) ==
    /\ pc[r] = "build"
    /\ IF Canonical(saved[r].terms)
       THEN /\ plan' = [plan EXCEPT ![r] =
                 [quote |-> ask[r].quote, key |-> ask[r].key,
                  expires |-> began[r] + Retention,
                  deadline |-> snap[r].time + DeadlineWindow,
                  approval |-> FALSE, offer |-> {}]]
            /\ Goto(r, "verify")
            /\ UNCHANGED <<ask, began, saved, snap>>
       ELSE Refuse(r)
    /\ UNCHANGED <<world, storeVars>>

(* Mutant: the expiry of the terms is not looked at again.                 *)
FreshAlways(r) == TRUE

Fresh(r) == now < plan[r].expires

Verify(r) ==
    /\ pc[r] = "verify"
    /\ IF Fresh(r) /\ snap[r].time < plan[r].deadline
       THEN Goto(r, "allowance") /\ UNCHANGED locals
       ELSE Refuse(r)
    /\ UNCHANGED <<world, storeVars>>

(* What markApproval tells a new request: whether the quote is still       *)
(* there, by the map as of t and by the request's own copy of its expiry.  *)
QuoteLost(r, t) == ~Store!Live(ask[r].quote, t) \/ now >= saved[r].expires

(* On with the flag the check has left in p.approval, or back for a quote. *)
Continue(r, label, approval) ==
    IF label = "requote" THEN Refuse(r)
    ELSE /\ plan' = [plan EXCEPT ![r].approval = approval]
         /\ Goto(r, label)
         /\ UNCHANGED <<ask, began, saved, snap>>

(* Mutant: the Permit2 permission is never read.                           *)
AfterAllowanceSkips(r, approval) ==
    IF ~Covered(r)
    THEN IF Recheck(r) /\ ~approval THEN "requote" ELSE "approve"
    ELSE IF approval THEN "requote" ELSE "simulate"

AfterAllowance(r, approval) ==
    IF ~Covered(r)
    THEN IF Recheck(r) /\ ~approval THEN "requote" ELSE "approve"
    ELSE IF plan[r].key \in PermitKeys THEN "permission"
    ELSE IF approval THEN "requote" ELSE "simulate"

(* The allowance is read at the snapshot, which the node refuses once the  *)
(* block is not canonical (then Fail); a new request marks the quote       *)
(* when it falls short, and learns whether it ever did before.  t is the   *)
(* clock as read for that call, which may then wait for the mutex.         *)
Allowance(r) ==
    LET mark == <<plan[r].key, "erc20">>
        before(t) == Store!Marked(plan[r].quote, mark, t)
    IN  /\ pc[r] = "allowance"
        /\ Canonical(snap[r])
        /\ IF Recheck(r)
           THEN /\ Continue(r, AfterAllowance(r, plan[r].approval), plan[r].approval)
                /\ UNCHANGED storeVars
           ELSE \E t \in began[r]..now :
                   /\ Store!MarkApproval(plan[r].quote, mark, ~Covered(r), t)
                   /\ Continue(r, IF QuoteLost(r, t) THEN "requote"
                                  ELSE AfterAllowance(r, before(t)), before(t))
        /\ UNCHANGED world

(* Mutant: the guard of execution.go:202 does not cover Permit2.           *)
AfterPermissionForgives(r, approval) ==
    IF PermitShort(r)
    THEN IF \/ ~Recheck(r) /\ approval
            \/ Recheck(r) /\ plan[r].offer = {"approve"}
            \/ Recheck(r) /\ ~approval
         THEN "requote" ELSE "permit"
    ELSE "simulate"

AfterPermission(r, approval) ==
    IF PermitShort(r)
    THEN IF \/ ~Recheck(r) /\ approval
            \/ Recheck(r) /\ plan[r].offer = {"approve"}
            \/ Recheck(r) /\ ~approval
         THEN "requote" ELSE "permit"
    ELSE IF approval THEN "requote" ELSE "simulate"

(* Mutant: the second mark overwrites what the first one told.             *)
PermissionForgets(r) ==
    LET mark == <<plan[r].key, "permit2">>
        before(t) == Store!Marked(plan[r].quote, mark, t)
    IN  /\ pc[r] = "permission"
        /\ Canonical(snap[r])
        /\ IF Recheck(r)
           THEN /\ Continue(r, AfterPermission(r, plan[r].approval), plan[r].approval)
                /\ UNCHANGED storeVars
           ELSE \E t \in began[r]..now :
                   /\ Store!MarkApproval(plan[r].quote, mark, PermitShort(r), t)
                   /\ Continue(r, IF QuoteLost(r, t) THEN "requote"
                                  ELSE AfterPermission(r, before(t)), before(t))
        /\ UNCHANGED world

Permission(r) ==
    LET mark == <<plan[r].key, "permit2">>
        before(t) == plan[r].approval \/ Store!Marked(plan[r].quote, mark, t)
    IN  /\ pc[r] = "permission"
        /\ Canonical(snap[r])
        /\ IF Recheck(r)
           THEN /\ Continue(r, AfterPermission(r, plan[r].approval), plan[r].approval)
                /\ UNCHANGED storeVars
           ELSE \E t \in began[r]..now :
                   /\ Store!MarkApproval(plan[r].quote, mark, PermitShort(r), t)
                   /\ Continue(r, IF QuoteLost(r, t) THEN "requote"
                                  ELSE AfterPermission(r, before(t)), before(t))
        /\ UNCHANGED world

(* Mutant: an approval starts the retention of its terms anew.             *)
GrantRenews(r) ==
    LET granted == [plan[r] EXCEPT !.approval = TRUE, !.offer = @ \cup {pc[r]},
                                   !.expires = now + Retention]
    IN  /\ pc[r] \in {"approve", "permit"}
        /\ IF Canonical(snap[r]) /\ Fresh(r)
           THEN /\ plan' = [plan EXCEPT ![r] = granted]
                /\ Store!SavePreparation(ask[r].id, granted)
                /\ Accept(r, "APPROVAL_REQUIRED", granted.offer)
           ELSE Refuse(r) /\ UNCHANGED storeVars
        /\ UNCHANGED world

(* One of the two grants is offered; the response keeps whatever the saved *)
(* one already carried.  The block is confirmed last, after the reads.     *)
Grant(r) ==
    LET granted == [plan[r] EXCEPT !.approval = TRUE, !.offer = @ \cup {pc[r]}]
    IN  /\ pc[r] \in {"approve", "permit"}
        /\ IF Canonical(snap[r]) /\ Fresh(r)
           THEN /\ plan' = [plan EXCEPT ![r] = granted]
                /\ Store!SavePreparation(ask[r].id, granted)
                /\ Accept(r, "APPROVAL_REQUIRED", granted.offer)
           ELSE Refuse(r) /\ UNCHANGED storeVars
        /\ UNCHANGED world

(* The simulation runs on the snapshot, so it commutes with everything     *)
(* else; what is saved is the plan without the transaction of the answer.  *)
Simulate(r) ==
    /\ pc[r] = "simulate"
    /\ IF Canonical(snap[r]) /\ Fresh(r)
       THEN /\ Store!SavePreparation(ask[r].id, plan[r])
            /\ Accept(r, "READY", plan[r].offer \cup {"swap"})
            /\ UNCHANGED plan
       ELSE Refuse(r) /\ UNCHANGED storeVars
    /\ UNCHANGED world

(* A network call fails, is cancelled or runs into the 20 seconds; a       *)
(* strategy, a verifier or the simulator refuses; execution is disabled.   *)
Fail(r) ==
    /\ pc[r] \in {"snapshot", "build", "verify", "allowance", "permission",
                  "approve", "permit", "simulate"}
    /\ Refuse(r)
    /\ UNCHANGED <<world, storeVars>>

-----------------------------------------------------------------------------

Init ==
    /\ now = 0
    /\ quotes = <<>> /\ preparations = <<>>
    /\ mined = 1
    /\ \E block \in [hash : {1}, time : {1}, covers : [Keys -> BOOLEAN],
                     permitUntil : {[k \in Keys |-> 0]}] :
          chain = <<block>>
    /\ search = [q \in QuoteIds |-> None]
    /\ pc = [r \in Requests |-> "idle"]
    /\ ask = [r \in Requests |-> None]
    /\ began = [r \in Requests |-> None]
    /\ saved = [r \in Requests |-> None]
    /\ snap = [r \in Requests |-> None]
    /\ plan = [r \in Requests |-> None]
    /\ answer = [r \in Requests |-> None]

Serve(r) ==
    \/ Arrive(r) \/ Lookup(r) \/ Snapshot(r) \/ Build(r) \/ Verify(r)
    \/ Allowance(r) \/ Permission(r) \/ Grant(r) \/ Simulate(r) \/ Fail(r)

Next ==
    \/ Mine \/ Reorg \/ Tick
    \/ \E q \in QuoteIds : SearchStarts(q) \/ SearchEnds(q)
    \/ \E r \in Requests : Serve(r)

Spec == Init /\ [][Next]_vars

-----------------------------------------------------------------------------

Ready(r) == answer[r] # None /\ answer[r].status = "READY"
Approving(r) == answer[r] # None /\ answer[r].status = "APPROVAL_REQUIRED"
Answered(r) == Ready(r) \/ Approving(r)

Plan == [quote : QuoteIds, key : Keys, expires : Nat, deadline : Nat,
         approval : BOOLEAN, offer : SUBSET {"approve", "permit"}]

Message == [recheck : {FALSE}, quote : QuoteIds, key : Keys, id : Requests]
           \cup [recheck : {TRUE}, quote : {None}, key : {None}, id : Requests]

Checking == {"verify", "allowance", "permission", "approve", "permit", "simulate"}
Working == {"lookup", "snapshot", "build"} \cup Checking

Answer == [status : {"REFUSED"}]
          \cup [status : {"READY", "APPROVAL_REQUIRED"},
                offer : SUBSET {"approve", "permit", "swap"}, at : Nat]

Search == [block : Block, started : Nat, ended : BOOLEAN]

ASSUME NoneAssumption == None \notin Answer \cup Search

(* What a request holds at each of its awaits.                             *)
LocalsOK(r) ==
    /\ pc[r] \in {"idle", "done"} \cup Working
    /\ pc[r] \in Working => ask[r] \in Message /\ began[r] \in Nat
    /\ pc[r] = "build" => ~Recheck(r)
    /\ (pc[r] \in Working \ {"lookup"} /\ ~Recheck(r)) => saved[r] \in Store!StoredQuote
    /\ (pc[r] \in Working \ {"lookup"} /\ Recheck(r)) => plan[r] \in Plan
    /\ pc[r] \in Checking \cup {"build"} => snap[r] \in Block
    /\ pc[r] \in Checking => plan[r] \in Plan
    /\ pc[r] = "done" <=> answer[r] # None
    /\ answer[r] # None => answer[r] \in Answer
    /\ Answered(r) => ask[r] \in Message /\ snap[r] \in Block /\ plan[r] \in Plan

QuotesOK(map) ==
    /\ DOMAIN map \subseteq QuoteIds
    /\ \A q \in DOMAIN map : map[q] \in Store!StoredQuote

PlansOK(map) ==
    /\ DOMAIN map \subseteq Requests
    /\ \A p \in DOMAIN map : map[p] \in Plan

(* Every variable holds what the code can hold there.                      *)
TypeOK ==
    /\ now \in Nat /\ mined \in Nat
    /\ chain \in Seq(Block) /\ chain # <<>>
    /\ DOMAIN search = QuoteIds
    /\ \A q \in QuoteIds : search[q] # None =>
          search[q] \in Search
    /\ QuotesOK(quotes) /\ PlansOK(preparations)
    /\ DOMAIN pc = Requests /\ DOMAIN answer = Requests
    /\ DOMAIN ask = Requests /\ DOMAIN began = Requests
    /\ DOMAIN saved = Requests /\ DOMAIN snap = Requests /\ DOMAIN plan = Requests
    /\ \A r \in Requests : LocalsOK(r)

(* One preparation gives one verdict for ever: once a response for it was  *)
(* READY no later or concurrent response asks for an approval, and once an *)
(* approval was asked for it never becomes an executable swap.             *)
OneVerdict ==
    \A r, s \in Requests :
        (Ready(r) /\ Approving(s)) => ask[r].id # ask[s].id

(* What has been decided about a preparation, by all answers about it.     *)
Decisions ==
    [i \in Requests |->
        {[verdict |-> answer[r].status, terms |-> [plan[r] EXCEPT !.offer = {}]] :
            r \in {s \in Requests : Answered(s) /\ ask[s].id = i}}]

Contract == INSTANCE PreparationContract WITH
    Preparations <- Requests,
    decisions <- Decisions

(* The handler keeps the contract: whatever is asked concurrently, again,  *)
(* after the chain has moved or after the store was pruned, one id has one *)
(* verdict on one set of terms.                                            *)
ImplementsContract == Contract!Spec

(* Whoever looks a quote up after the need for an approval was observed on *)
(* it, for the same recipient and spender, is never given an executable    *)
(* swap, at once or by any later recheck (store.go:108).  saved holds the  *)
(* marks at the lookup as history only; the code's copy has none.          *)
MarkedNeverReady ==
    \A r \in Requests : Ready(r) =>
        \A mark \in saved[ask[r].id].approvals : mark[1] # plan[r].key

(* Nobody is given an executable swap on a price older than two retention  *)
(* periods, counted from the start of its search: not by a slow search, a  *)
(* preparation at the last moment, or any number of rechecks.              *)
PriceAgeBounded ==
    \A r \in Requests : Answered(r) =>
        answer[r].at < search[plan[r].quote].started + 2 * Retention

(* A swap is offered only on a block where the allowance and the Permit2   *)
(* permission covered it, and before the deadline its calldata carries.    *)
ReadyIsCovered ==
    \A r \in Requests : Ready(r) =>
        /\ Covered(r)
        /\ plan[r].key \in PermitKeys => ~PermitShort(r)
        /\ snap[r].time < plan[r].deadline
        /\ answer[r].offer = {"swap"}

(* store.go:109: a quote that needed approval must never become an         *)
(* executable swap later.                                                  *)
QuoteNeverReadyAfterApproval ==
    \A r, s \in Requests :
        (Approving(s) /\ Ready(r) /\ answer[s].at < answer[r].at) =>
            <<plan[r].quote, plan[r].key>> # <<plan[s].quote, plan[s].key>>

(* execution.go:174: one quote may authorize only one transaction.         *)
OneTransactionPerResponse ==
    \A r \in Requests : Answered(r) => Cardinality(answer[r].offer) = 1

=============================================================================
