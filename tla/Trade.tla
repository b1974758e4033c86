-------------------------------- MODULE Trade --------------------------------
(***************************************************************************)
(* The terminal's trade, execute and prepare commands: quote, prepare,     *)
(* consent, recheck, send once, look for the receipt; after an approval    *)
(* the next round starts from a fresh quote.                               *)
(*                                                                         *)
(* One action is the code between two awaits.  The engine is not trusted:  *)
(* it may answer anything, at any time.  What validatePreparation encodes  *)
(* locally and compares byte by byte is one flag, the terms being "mine"   *)
(* or "altered".  The node may lag, lose requests and reorganise.          *)
(***************************************************************************)
EXTENDS Naturals, Sequences

CONSTANTS
    QuoteIds,       \* ids the engine gives to quotes; it may repeat one
    Expiries,       \* times at which an engine's answer may expire
    MaxAttempts,    \* 60 receipt polls
    MaxTime,        \* bound of the clock
    MaxBlocks,      \* bound on the blocks ever mined
    None            \* nothing yet

ASSUME TradeAssumption ==
    /\ Expiries \subseteq Nat
    /\ MaxAttempts \in Nat /\ MaxTime \in Nat /\ MaxBlocks \in Nat

VARIABLES
    command, flag, tty,   \* the command line: --confirm-approval or --confirm-swap
    now,                  \* Date.now() of the terminal
    pool, chain, mined,   \* the network
    pc, round,            \* where the command is
    quote,                \* the quote of this round, or of the one before
    prepared,             \* the engine's answer that was validated
    shown,                \* history: the answer the user was shown
    typed,                \* history: whether the consent was typed
    sent,                 \* history: the send attempts, in order
    attempt, receipt,     \* locals of waitCanonicalReceipt
    result                \* what the command ended with

line == <<command, flag, tty>>
network == <<pool, chain, mined>>
terms == <<prepared, shown, typed>>
polling == <<attempt, receipt>>
vars == <<line, now, network, pc, round, quote, terms, sent, polling, result>>

Txs == 1..3
Net == INSTANCE Network WITH Outcomes <- {"paid", "short", "reverted"}

(* What a PrepareExecutionResponse tells the terminal.                     *)
Response == [status : {"READY", "APPROVAL_REQUIRED", "REFUSED"}, permission : BOOLEAN,
             terms : {"mine", "altered"}, expires : Expiries]

Sends == [plan : Response, shown : Response, typed : BOOLEAN, quote : QuoteIds, at : Nat]

Results == {"Refused", "Canceled", "Preview", "Unknown", "ApprovalConfirmed", "SwapVerified",
            "Failed"}

(* None is told apart from every result of a command.                      *)
ASSUME NoneAssumption == None \notin Results

(* ExecutionPlan.action, with the two kinds of approval apart.             *)
Kind(p) ==
    IF p.status = "READY" THEN "swap"
    ELSE IF p.permission THEN "permit" ELSE "approve"

Action(p) == IF Kind(p) = "swap" THEN "swap" ELSE "approval"

-----------------------------------------------------------------------------
(* How a command goes on and ends.                                         *)

Goto(label) == pc' = label /\ UNCHANGED result

End(outcome) == pc' = "done" /\ result' = outcome

(* A thrown error: nothing was sent in this round.                         *)
Refuse == End("Refused") /\ UNCHANGED <<round, quote, terms, sent, polling>>

(* Mutant: the previous quote is good enough.                              *)
FreshAny(q) == TRUE

Fresh(q) == q # quote

(* getQuote, and the selection of a route of it.                           *)
Quote ==
    /\ pc = "quote"
    /\ \E q \in QuoteIds :
          IF Fresh(q)
          THEN /\ quote' = q
               /\ Goto("prepare")
               /\ UNCHANGED <<round, terms, sent, polling>>
          ELSE Refuse
    /\ UNCHANGED <<line, now, network>>

Current(p) == p.status # "REFUSED" /\ now < p.expires

(* validatePreparation, against local configuration and the clock.         *)
Valid(p) ==
    /\ Current(p)
    /\ p.terms = "mine"
    /\ p.status = "READY" => ~p.permission

(* Mutant: an approval is tolerated in every round.                        *)
PolicyAllowsAll(p) == TRUE

(* approvalPolicy, by the round of a trade.                                *)
PolicyAllows(p) ==
    \/ Kind(p) = "swap"
    \/ round = 0
    \/ round = 1 /\ Kind(p) = "permit"

Prepare ==
    /\ pc = "prepare"
    /\ \E p \in Response :
          IF Valid(p) /\ PolicyAllows(p)
          THEN /\ prepared' = p
               /\ IF command = "prepare" THEN End("Preview") ELSE Goto("confirm")
               /\ UNCHANGED <<round, quote, shown, typed, sent, polling>>
          ELSE Refuse
    /\ UNCHANGED <<line, now, network>>

Flagged == round = 0 /\ flag = Action(prepared)
Prompted == (round > 0 \/ flag = "none") /\ tty

(* The user answers: by the flag, at the prompt, or not at all.            *)
Confirm ==
    /\ pc = "confirm"
    /\ shown' = prepared
    /\ \/ /\ Flagged
          /\ typed' = FALSE /\ Goto("recheck")
       \/ /\ ~Flagged /\ Prompted
          /\ typed' = TRUE /\ Goto("recheck")
       \/ /\ ~Flagged
          /\ End("Canceled") /\ UNCHANGED typed
    /\ UNCHANGED <<line, now, network, round, quote, prepared, sent, polling>>

(* Mutant: what the second answer says is what will be sent.               *)
RecheckAdopts ==
    /\ pc = "recheck"
    /\ \E c \in Response :
          IF Current(c)
          THEN prepared' = c /\ Goto("send")
               /\ UNCHANGED <<round, quote, shown, typed, sent, polling>>
          ELSE Refuse
    /\ UNCHANGED <<line, now, network>>

(* The engine is asked again by preparation id; nothing executable may     *)
(* have changed.                                                           *)
Recheck ==
    /\ pc = "recheck"
    /\ \E c \in Response :
          IF Current(c) /\ c = prepared
          THEN Goto("send") /\ UNCHANGED <<round, quote, terms, sent, polling>>
          ELSE Refuse
    /\ UNCHANGED <<line, now, network>>

(* Mutant: the wait for the chain id is not followed by a look at the clock. *)
StillCurrentOnce == TRUE

StillCurrent == Current(prepared)

Attempt == [plan |-> prepared, shown |-> shown, typed |-> typed, quote |-> quote, at |-> now]

(* Mutant: a failed send is an error like any other.                       *)
SendThrows ==
    /\ pc = "send"
    /\ IF StillCurrent
       THEN /\ sent' = Append(sent, Attempt)
            /\ \/ /\ Net!Submit(Len(sent) + 1)
                  /\ attempt' = 0 /\ receipt' = None
                  /\ Goto("receipt")
               \/ /\ Net!Submit(Len(sent) + 1) \/ UNCHANGED pool
                  /\ End("Refused") /\ UNCHANGED polling
            /\ UNCHANGED <<round, quote, terms>>
       ELSE Refuse /\ UNCHANGED pool
    /\ UNCHANGED <<line, now, chain, mined>>

(* The wallet is called once.  Whatever goes wrong then, or a malformed    *)
(* hash, leaves open whether the network has the transaction.              *)
Send ==
    /\ pc = "send"
    /\ IF StillCurrent
       THEN /\ sent' = Append(sent, Attempt)
            /\ \/ /\ Net!Submit(Len(sent) + 1)
                  /\ attempt' = 0 /\ receipt' = None
                  /\ Goto("receipt")
               \/ /\ Net!Submit(Len(sent) + 1) \/ UNCHANGED pool
                  /\ End("Unknown") /\ UNCHANGED polling
            /\ UNCHANGED <<round, quote, terms>>
       ELSE Refuse /\ UNCHANGED pool
    /\ UNCHANGED <<line, now, chain, mined>>

-----------------------------------------------------------------------------
(* The receipt.                                                            *)

Ours == Len(sent)   \* the transaction of this round

Exhausted == attempt = MaxAttempts

(* Mutant: an attempt that found nothing is not counted.                   *)
NextAttemptFree == attempt' = attempt

NextAttempt == attempt' = attempt + 1

(* A receipt with a block, or nothing usable: none yet, a lagging node, or *)
(* a preconfirmation without a block.                                      *)
Poll ==
    /\ pc = "receipt"
    /\ IF Exhausted THEN End("Unknown") /\ UNCHANGED polling
       ELSE \/ /\ Net!InChain(Ours)
               /\ receipt' = Net!Receipt(Ours)
               /\ Goto("block") /\ UNCHANGED attempt
            \/ NextAttempt /\ UNCHANGED <<pc, receipt, result>>
    /\ UNCHANGED <<line, now, network, round, quote, terms, sent>>

(* verifiedResult: an approval needs a successful receipt, a swap exact    *)
(* token movements too, and logs the terminal can read.                    *)
Verdicts(plan, outcome) ==
    IF Kind(plan) = "swap"
    THEN IF outcome = "reverted" THEN {"Failed"}
         ELSE {"Unknown", IF outcome = "paid" THEN "SwapVerified" ELSE "Failed"}
    ELSE IF outcome = "reverted" THEN {"Failed"} ELSE {"ApprovalConfirmed"}

(* runTrade: only a confirmed approval leads to another round.             *)
Conclude(outcome) ==
    IF command = "trade" /\ outcome = "ApprovalConfirmed"
    THEN IF round = 2 THEN End("Refused") /\ UNCHANGED round
         ELSE round' = round + 1 /\ Goto("quote")
    ELSE End(outcome) /\ UNCHANGED round

(* Mutant: the receipt's block is not compared with the chain's.           *)
MatchesAnyway == Net!Known(receipt)

Matches == Net!Canonical(receipt)

ReadBlock ==
    /\ pc = "block"
    /\ \/ /\ Matches
          /\ \E outcome \in Verdicts(prepared, receipt.outcome) : Conclude(outcome)
          /\ UNCHANGED polling
       \/ /\ Net!Known(receipt) /\ ~Matches
          /\ End("Unknown") /\ UNCHANGED <<round, polling>>
       \/ /\ NextAttempt /\ Goto("receipt") /\ UNCHANGED <<round, receipt>>
    /\ UNCHANGED <<line, now, network, quote, terms, sent>>

(* A call fails, times out or is interrupted, or the selected route is     *)
(* missing: an error before the send, an unknown outcome after it.         *)
Fail ==
    /\ \/ pc \in {"quote", "prepare", "confirm", "recheck", "send"} /\ Refuse
       \/ /\ pc \in {"receipt", "block"} /\ End("Unknown")
          /\ UNCHANGED <<round, quote, terms, sent, polling>>
    /\ UNCHANGED <<line, now, network>>

-----------------------------------------------------------------------------

Tick ==
    /\ now < MaxTime
    /\ now' = now + 1
    /\ UNCHANGED <<line, network, pc, round, quote, terms, sent, polling, result>>

Blocks ==
    /\ Net!Mine(SUBSET pool) \/ Net!Reorg(SUBSET pool)
    /\ UNCHANGED <<line, now, pc, round, quote, terms, sent, polling, result>>

(* execute and prepare are given the quote's id; trade asks for one.       *)
Init ==
    /\ command \in {"trade", "execute", "prepare"}
    /\ flag \in {"none", "approval", "swap"} /\ tty \in BOOLEAN
    /\ now = 0
    /\ Net!Init
    /\ pc = IF command = "trade" THEN "quote" ELSE "prepare"
    /\ round = 0
    /\ IF command = "trade" THEN quote = None ELSE quote \in QuoteIds
    /\ prepared = None /\ shown = None /\ typed = FALSE
    /\ sent = <<>>
    /\ attempt = 0 /\ receipt = None
    /\ result = None

(* Everything but the user, who may leave the prompt open.                 *)
Unattended == Quote \/ Prepare \/ Recheck \/ Send \/ Poll \/ ReadBlock

Next == Unattended \/ Confirm \/ Fail \/ Tick \/ Blocks

Spec == Init /\ [][Next]_vars

(* Every await but the prompt ends: the engine's after 25 seconds, the     *)
(* node's after 15, the wallet's after 60.                                 *)
FairSpec == Spec /\ WF_vars(Unattended)

-----------------------------------------------------------------------------

(* Each transaction is the one the user was shown, byte for byte what      *)
(* local configuration encodes; and the user typed the consent, except     *)
(* that the flag may stand for it on the first transaction of the kind it  *)
(* names.                                                                  *)
SignedAsConfirmed ==
    \A i \in DOMAIN sent :
        /\ sent[i].plan = sent[i].shown
        /\ sent[i].plan.terms = "mine"
        /\ sent[i].typed \/ (i = 1 /\ flag = Action(sent[i].plan))

(* No transaction is handed to the wallet once its terms have expired,     *)
(* however long the consent, the recheck and the chain id took.            *)
SentWhileCurrent ==
    \A i \in DOMAIN sent : sent[i].at < sent[i].plan.expires

(* No transaction rests on the quote that the approval directly before it  *)
(* was based on, whatever ids the engine gives to its quotes.  trade.ts:30 *)
(* remembers one round only: an id of two rounds ago is taken again.       *)
FreshQuoteEachRound ==
    \A i, j \in DOMAIN sent : j = i + 1 => sent[i].quote # sent[j].quote

(* A command sends at most one ERC-20 approval, at most two transactions   *)
(* that only permit, and a swap only as its last one.                      *)
BoundedTrade ==
    /\ Len(sent) <= 3
    /\ \A i \in DOMAIN sent :
          /\ Kind(sent[i].plan) = "approve" => i = 1
          /\ Kind(sent[i].plan) = "swap" => i = Len(sent)
          /\ i = 3 => Kind(sent[i].plan) = "swap"

(* An error, a cancellation or a preview means that nothing was sent but   *)
(* approvals whose success was established; at no time is the fate of more *)
(* than one transaction open.                                              *)
NothingSentIsTrue ==
    /\ Len(sent) \in {round, round + 1}
    /\ (result \in {"Refused", "Canceled", "Preview"}) => Len(sent) = round
    /\ command = "prepare" => sent = <<>>

CameTo(outcomes) == Net!InChain(Len(sent)) /\ Net!Receipt(Len(sent)).outcome \in outcomes

(* Verdicts are about the canonical chain: when one is given, or an        *)
(* approval is built upon, the transaction is in a block of the chain of   *)
(* that moment, with that outcome.                                         *)
VerdictsAreCanonical ==
    [][ /\ round' # round => CameTo({"paid", "short"})
        /\ (result' # result /\ result' = "ApprovalConfirmed") => CameTo({"paid", "short"})
        /\ (result' # result /\ result' = "SwapVerified") => CameTo({"paid"})
        /\ (result' # result /\ result' = "Failed") => CameTo({"short", "reverted"})
      ]_vars

(* A command ends, unless it waits for its user.                           *)
EndsOrWaits == <>[](pc \in {"confirm", "done"})

(* docs/terminal.md:118: if the fresh route needs another approval, the    *)
(* flow stops before signing it.                                           *)
OneApprovalPerTrade ==
    \A i \in DOMAIN sent : i > 1 => Kind(sent[i].plan) = "swap"

==============================================================================
