---------------------------- MODULE HarnessJournal ----------------------------
(***************************************************************************)
(* The testnet harness: a list of writes sent one after the other by a     *)
(* process that may stop anywhere and is started again with the same       *)
(* command.  Its manifest on disk is all that survives.                    *)
(*                                                                         *)
(* A write is a key and rests on those before it; the transaction signed   *)
(* for it is the key, a nonce of the one account and, for a Uniswap V4     *)
(* position, a deadline.  Key 0 is what the account sends from elsewhere.  *)
(* One action is the code between two network calls.                       *)
(***************************************************************************)
EXTENDS Integers, FiniteSets, Sequences

CONSTANTS
    Steps,          \* how many writes a command makes
    Commands,       \* what may be started, as sets of the writes that are
                    \*   planned: left out if their effect was there at the start,
                    \*   probed: left out if it is there just before,
                    \*   open: made by anybody, once, such as a pool's creation
                    \*   dated: the last one, if it carries a deadline
    Window,         \* 86400 seconds to mint the position
    MaxTime,        \* bound of the clock
    MaxAttempts,    \* 120 receipt polls
    MaxBlocks,      \* bound on the blocks ever mined
    MaxFaults,      \* bound on crashes, failed requests and late answers
    None            \* nothing yet

ASSUME HarnessAssumption ==
    /\ {Steps, Window, MaxTime, MaxAttempts, MaxBlocks, MaxFaults} \subseteq Nat
    /\ MaxAttempts > 0
    /\ \A c \in Commands : c.planned \cup c.probed \cup c.open \subseteq 1..Steps
    /\ \A c \in Commands : c.dated \subseteq {Steps} \cap 1..Steps
    /\ None \notin Nat

VARIABLES
    pool, chain, mined,   \* the network
    now, given,           \* its clock, and the open writes that others made
    command,              \* the command
    journal,              \* manifest.transactions on disk: per key signed so far,
                          \* its nonce, its deadline and the block of its receipt
    saved, recorded,      \* v4Fixture.positionDeadline, positionTokenId on disk
    pc, key, record,      \* the process: where it is, which write, its record
    plan, due,            \* the planned writes it found made; the deadline
    attempt, receipt,     \* locals of waitReceipt
    faults,               \* faults so far
    submitted, events     \* history: what was ever given to the network, and
                          \* whether a block was replaced, what others made was
                          \* taken back with it, or a transaction was lost

network == <<pool, chain, mined>>
world == <<network, now, given>>
disk == <<journal, saved, recorded>>
process == <<pc, key, record, plan, due, attempt, receipt>>
history == <<submitted, events>>
vars == <<world, command, disk, process, faults, history>>

Keys == 1..Steps
MaxNonce == Steps   \* one per write and one from elsewhere
Tx == [key : 0..Steps, nonce : 0..MaxNonce, due : 0..(MaxTime + Window) \cup {None}]
Net == INSTANCE Network WITH Txs <- Tx, Outcomes <- {"ok", "reverted"}

-----------------------------------------------------------------------------
(* The account on the network.                                             *)

Used(blocks) == Cardinality(Net!HeldBy(blocks))

(* Bundles of pooled transactions a block on top of blocks may take.       *)
Fitting(blocks) ==
    {taken \in SUBSET pool :
        {t.nonce : t \in taken} = Used(blocks)..(Used(blocks) + Cardinality(taken) - 1)}

(* eth_getTransactionCount with "latest" and with "pending".               *)
Latest == Used(chain)
Pending ==
    CHOOSE n \in Latest..(Latest + Cardinality(pool)) :
        /\ \A i \in Latest..(n - 1) : \E t \in pool : t.nonce = i
        /\ ~\E t \in pool : t.nonce = n

VisibleIn(blocks, k) ==
    \E i \in DOMAIN blocks : \E t \in DOMAIN blocks[i].txs :
        t.key = k /\ blocks[i].txs[t] = "ok"

(* The effect of a write is there, such as the price of a pool that was    *)
(* initialized, by this account or another.                                *)
There(k, blocks, others) == k \in others \/ VisibleIn(blocks, k)
Visible(k) == There(k, chain, given)

Reached(k, blocks, others) == \A j \in 1..(k - 1) : There(j, blocks, others)

(* What comes of a transaction: a write needs those before it, what is     *)
(* open is made once, and a position is minted in time.                    *)
Succeeds(t, blocks, others) ==
    \/ t.key = 0
    \/ /\ t.key \notin others /\ Reached(t.key, blocks, others)
       /\ t.due = None \/ now <= t.due

Executed(blocks, others) ==
    LET txs == blocks[Len(blocks)].txs
    IN  \A t \in DOMAIN txs : txs[t] = "ok" <=> Succeeds(t, blocks, others)

Confirm(bundles) ==
    /\ Net!Mine(bundles) /\ Executed(chain', given)
    /\ UNCHANGED <<now, given, command, disk, process, faults, history>>

Replace ==
    /\ chain # <<>>
    /\ Net!Reorg(Fitting(SubSeq(chain, 1, Len(chain) - 1)))
    /\ given' = {k \in given : Reached(k, chain', given)}
    /\ Executed(chain', given')
    /\ events' = events \cup {"replaced"} \cup {e \in {"withdrawn"} : given' # given}
    /\ UNCHANGED <<now, command, disk, process, faults, submitted>>

Drop ==
    /\ \E t \in pool : ~Net!InChain(t) /\ pool' = pool \ {t}
    /\ events' = events \cup {"forgotten"}
    /\ UNCHANGED <<chain, mined, now, given, command, disk, process, faults, submitted>>

(* The account is used elsewhere, once, against the advice of              *)
(* docs/testnet.md.                                                        *)
Elsewhere ==
    /\ \A t \in submitted : t.key # 0
    /\ LET t == [key |-> 0, nonce |-> Pending, due |-> None]
       IN  Net!Submit(t) /\ submitted' = submitted \cup {t}
    /\ UNCHANGED <<chain, mined, now, given, command, disk, process, faults, events>>

Give ==
    /\ \E k \in command.open :
          /\ ~Visible(k) /\ Reached(k, chain, given)
          /\ given' = given \cup {k}
    /\ UNCHANGED <<network, now, command, disk, process, faults, history>>

Tick ==
    /\ now < MaxTime /\ command.dated # {}
    /\ now' = now + 1
    /\ UNCHANGED <<network, given, command, disk, process, faults, history>>

-----------------------------------------------------------------------------
(* One run of the command.                                                 *)

Goto(label) == pc' = label
Due(k) == IF k \in command.dated THEN due ELSE None
Ours == [key |-> key, nonce |-> record, due |-> Due(key)]

(* An error is thrown, a request fails, the process dies, or it is done.   *)
(* What is lost is the same: everything but the manifest.                  *)
Leave(label) ==
    /\ Goto(label)
    /\ key' = 1 /\ record' = None /\ plan' = {} /\ due' = None
    /\ attempt' = 0 /\ receipt' = None

Stop == Leave("stopped")

Step(label) == Goto(label) /\ UNCHANGED <<key, record, plan, due, attempt, receipt>>

Faulty == faults < MaxFaults /\ faults' = faults + 1

Resuming == command.dated \cap DOMAIN journal # {}

(* The pool and the permissions are read before anything is written.  A    *)
(* position that is recorded is only checked, and one whose transaction is *)
(* journaled is all that is left to do.                                    *)
Plan ==
    /\ pc = "plan"
    /\ \/ recorded /\ Leave(IF Visible(Steps) THEN "done" ELSE "stopped")
       \/ /\ ~recorded /\ Resuming
          /\ IF saved # None /\ \A k \in command.open : Visible(k)
             THEN /\ Goto("begin") /\ key' = Steps /\ due' = saved
                  /\ UNCHANGED <<record, plan, attempt, receipt>>
             ELSE Stop
       \/ /\ ~recorded /\ ~Resuming
          /\ plan' = {k \in command.planned : Visible(k)}
          /\ due' = IF saved # None THEN saved ELSE now + Window
          /\ Goto("begin")
          /\ UNCHANGED <<key, record, attempt, receipt>>
    /\ UNCHANGED <<world, command, disk, faults, history>>

(* Mutant: the deadline is saved with the position.                        *)
SavedLater == saved

(* A position's deadline is on disk before its transaction is.             *)
SavedFirst == IF key \in command.dated THEN due ELSE saved

(* Nothing to do: found by the plan, or just now.                          *)
LeftOut == key \in plan \/ (key \in command.probed /\ Visible(key))

(* The next write, or another look at one that the manifest has.           *)
Begin ==
    /\ pc = "begin"
    /\ \/ /\ key > Steps
          /\ IF command.dated = {} THEN Leave("done") ELSE Step("record")
          /\ UNCHANGED saved
       \/ /\ key <= Steps /\ LeftOut
          /\ key' = key + 1
          /\ UNCHANGED <<saved, pc, record, plan, due, attempt, receipt>>
       \/ /\ key <= Steps /\ ~LeftOut /\ key \notin DOMAIN journal
          /\ saved' = SavedFirst
          /\ Step("estimate")
       \/ /\ key <= Steps /\ ~LeftOut /\ key \in DOMAIN journal
          /\ IF journal[key].due # Due(key) THEN Stop
             ELSE /\ record' = journal[key].nonce
                  /\ Goto(IF journal[key].receipt # None THEN "wait" ELSE "observe")
                  /\ UNCHANGED <<key, plan, due, attempt, receipt>>
          /\ UNCHANGED saved
    /\ UNCHANGED <<world, command, journal, recorded, faults, history>>

(* eth_estimateGas: a write that would revert now is not signed.           *)
Estimate ==
    /\ pc = "estimate"
    /\ IF Succeeds(Ours, chain, given) THEN Step("sign") ELSE Stop
    /\ UNCHANGED <<world, command, disk, faults, history>>

(* manifest.transactions[key] = ..., saved.                                *)
Journaled(nonce, block) ==
    [k \in DOMAIN journal \cup {key} |->
        IF k = key THEN [nonce |-> nonce, due |-> Due(key), receipt |-> block] ELSE journal[k]]

(* Mutant: the journal is written when the receipt is there.               *)
SignUnsaved ==
    /\ pc = "sign"
    /\ record' = Pending
    /\ Goto("observe")
    /\ UNCHANGED <<world, command, disk, key, plan, due, attempt, receipt, faults, history>>

SignWith(nonce) ==
    /\ pc = "sign"
    /\ record' = nonce
    /\ journal' = Journaled(nonce, None)
    /\ Goto("observe")
    /\ UNCHANGED <<world, command, saved, recorded, key, plan, due, attempt, receipt>>
    /\ UNCHANGED <<faults, history>>

(* Mutant: the nonce does not count what is still pending.                 *)
SignLatest == SignWith(Latest)

(* The nonce is read, the transaction signed and journaled.                *)
Sign == SignWith(Pending)

(* Does the network know it already?  Three questions, one at a time.      *)
Observe ==
    /\ pc = "observe"
    /\ Step(IF Net!InChain(Ours) THEN "wait" ELSE "lookup")
    /\ UNCHANGED <<world, command, disk, faults, history>>

LookUp ==
    /\ pc = "lookup"
    /\ Step(IF Net!InChain(Ours) \/ Ours \in pool THEN "wait" ELSE "count")
    /\ UNCHANGED <<world, command, disk, faults, history>>

Count ==
    /\ pc = "count"
    /\ IF Latest > record THEN Stop ELSE Step("send")
    /\ UNCHANGED <<world, command, disk, faults, history>>

(* The signed bytes go out; the answer may be lost.  If the request is     *)
(* lost, too, that is Fail.                                                *)
Broadcast ==
    /\ pc = "send"
    /\ Net!Submit(Ours) /\ submitted' = submitted \cup {Ours}
    /\ \/ Step("wait") /\ UNCHANGED faults
       \/ Stop /\ Faulty
    /\ UNCHANGED <<chain, mined, now, given, command, disk, events>>

(* The block of an earlier receipt, if the journal has one.                *)
Moved(found) ==
    /\ key \in DOMAIN journal
    /\ journal[key].receipt # None
    /\ journal[key].receipt # found.block

(* Nothing yet: another second, another poll, 120 of them.  A node may be  *)
(* late and not have what the chain has.                                   *)
NextAttempt(late) ==
    /\ IF attempt + 1 = MaxAttempts THEN Stop
       ELSE /\ attempt' = attempt + 1 /\ receipt' = None
            /\ Goto("wait")
            /\ UNCHANGED <<key, record, plan, due>>
    /\ IF late THEN Faulty ELSE UNCHANGED faults

Wait ==
    /\ pc = "wait"
    /\ \/ /\ Net!InChain(Ours)
          /\ IF Moved(Net!Receipt(Ours)) THEN Stop
             ELSE /\ receipt' = Net!Receipt(Ours)
                  /\ Goto("block")
                  /\ UNCHANGED <<key, record, plan, due, attempt>>
          /\ UNCHANGED faults
       \/ NextAttempt(Net!InChain(Ours))
    /\ UNCHANGED <<world, command, disk, history>>

(* Mutant: the receipt's block is not compared with the chain's.           *)
MatchesAnyway == Net!Known(receipt)

Matches == Net!Canonical(receipt)

(* The block of the receipt, or none yet; then the receipt is journaled.   *)
ReadBlock ==
    /\ pc = "block"
    /\ \/ /\ Matches /\ receipt.outcome = "ok"
          /\ journal' = Journaled(record, receipt.block)
          /\ key' = key + 1
          /\ record' = None /\ attempt' = 0 /\ receipt' = None
          /\ Goto("begin")
          /\ UNCHANGED <<plan, due, faults>>
       \/ /\ Net!Known(receipt) /\ ~(Matches /\ receipt.outcome = "ok")
          /\ Stop
          /\ UNCHANGED <<journal, faults>>
       \/ NextAttempt(Net!Known(receipt)) /\ UNCHANGED journal
    /\ UNCHANGED <<world, command, saved, recorded, history>>

(* recordPosition: who owns what the receipt says was minted?              *)
RecordPosition ==
    /\ pc = "record"
    /\ recorded' = Visible(Steps)
    /\ Leave(IF Visible(Steps) THEN "done" ELSE "stopped")
    /\ UNCHANGED <<world, command, journal, saved, faults, history>>

Ended == pc \in {"stopped", "done"}

Fail ==
    /\ ~Ended
    /\ Stop /\ Faulty
    /\ UNCHANGED <<world, command, disk, history>>

(* The same command again.                                                 *)
Restart ==
    /\ Ended
    /\ Step("plan")
    /\ UNCHANGED <<world, command, disk, faults, history>>

-----------------------------------------------------------------------------

Init ==
    /\ Net!Init
    /\ now = 0 /\ given = {}
    /\ command \in Commands
    /\ journal = <<>> /\ saved = None /\ recorded = FALSE
    /\ pc = "stopped" /\ key = 1 /\ record = None
    /\ plan = {} /\ due = None
    /\ attempt = 0 /\ receipt = None
    /\ faults = 0
    /\ submitted = {} /\ events = {}

Run ==
    \/ Plan \/ Begin \/ Estimate \/ Sign \/ Observe \/ LookUp \/ Count \/ Broadcast
    \/ Wait \/ ReadBlock \/ RecordPosition

Next ==
    \/ Run \/ Fail \/ Restart
    \/ Confirm(Fitting(chain)) \/ Replace \/ Drop \/ Elsewhere \/ Give \/ Tick

Spec == Init /\ [][Next]_vars

(* Requests end, each within 60 seconds, so a run always takes its next    *)
(* step; the user starts the command again, as the messages ask him to;    *)
(* what can be mined is.                                                   *)
FairSpec ==
    /\ Spec
    /\ WF_vars(Run) /\ WF_vars(Restart) /\ WF_vars(Confirm(Fitting(chain) \ {{}}))

-----------------------------------------------------------------------------

(* Write ahead: whatever was ever given to the network for a write is what *)
(* the manifest on disk has for it, and a position that is in the journal  *)
(* has its deadline next to it, so a restart can only build and send the   *)
(* very same transaction again, and a write takes effect at most once.     *)
WriteAhead ==
    /\ \A t \in submitted : t.key \in Keys =>
          /\ t.key \in DOMAIN journal
          /\ journal[t.key].nonce = t.nonce /\ journal[t.key].due = t.due
    /\ \A k \in DOMAIN journal \cap command.dated : saved # None /\ journal[k].due = saved

(* A write that the plan does not leave out is left behind only when its   *)
(* effect and those of all writes before it, also of those that the plan   *)
(* left out, are on the canonical chain at that moment, in every run anew: *)
(* for a fresh transaction, for one found confirmed in the journal, and    *)
(* for what a probe just before it finds done.  A write that the plan      *)
(* leaves out is skipped on the plan's read alone, however old: whether    *)
(* its effect is still there shows at the next write that is not, if there *)
(* is one (harness.mjs:884, 938).                                          *)
VerifiedBeforeNext ==
    [][ key' = key + 1 /\ key \notin plan /\ pc # "plan" =>
            \A k \in 1..key : Visible(k) ]_vars

(* Two writes never compete for a nonce, and take effect in their order,   *)
(* however often the command is started, as long as no node has forgotten  *)
(* a transaction and no reorganisation has taken back what others made: a  *)
(* write that was journaled, then left to them, may have its old nonce.    *)
NoncesApart ==
    events \cap {"forgotten", "withdrawn"} = {} => \A t, u \in submitted :
        (t.key \in Keys /\ u.key \in Keys /\ t.key < u.key) => t.nonce < u.nonce

(* Restart the identical command: after any crash, lost request or late    *)
(* answer, and though others create or initialize the pool in the middle,  *)
(* it is done in the end.  Excepted are a chain or a pool of transactions  *)
(* that takes something back, an account used elsewhere, and a position    *)
(* that was not minted in time.                                            *)
Disturbed ==
    \/ events # {} \/ \E t \in submitted : t.key = 0
    \/ saved # None /\ now > saved
    \/ mined = MaxBlocks

Recovers == <>(pc = "done" \/ Disturbed)

==============================================================================
