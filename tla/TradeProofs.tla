----------------------------- MODULE TradeProofs -----------------------------
(***************************************************************************)
(* What a command of the terminal signs, for every engine, wallet and      *)
(* network, any number of quotes, polls and blocks.                        *)
(*                                                                         *)
(* TradeInv ties the transactions already sent to where the command is:    *)
(* how many there are for the round, what the last of them was, and that   *)
(* what waits at the prompt or the send is what was validated, shown and   *)
(* consented to.                                                           *)
(***************************************************************************)
EXTENDS Trade, SequenceTheorems, TLAPS

Labels == {"quote", "prepare", "confirm", "recheck", "send", "receipt", "block", "done"}
Undecided == {"quote", "prepare", "confirm", "recheck", "send"}
Following == {"receipt", "block"}

TypeInv ==
    /\ command \in {"trade", "execute", "prepare"}
    /\ now \in Nat
    /\ pc \in Labels
    /\ round \in 0..2
    /\ sent \in Seq(Sends)
    /\ pc \notin {"quote", "done"} => quote \in QuoteIds
    /\ typed \in BOOLEAN

(* From the prompt on there is an answer that was validated.               *)
PlanInv ==
    pc \in {"confirm", "recheck", "send"} \cup Following =>
        /\ prepared \in Response
        /\ prepared.terms = "mine"
        /\ PolicyAllows(prepared)

ConsentInv ==
    pc \in {"recheck", "send"} =>
        /\ shown = prepared
        /\ typed \/ (round = 0 /\ flag = Action(prepared))

(* How many transactions there are, and what the command may say of them.  *)
CountInv ==
    /\ pc \in Undecided => Len(sent) = round
    /\ pc \in Following => Len(sent) = round + 1 /\ sent[round + 1].plan = prepared
    /\ Len(sent) \in {round, round + 1}
    /\ pc # "done" => result \notin {"Refused", "Canceled", "Preview"}
    /\ result \in {"Refused", "Canceled", "Preview"} => Len(sent) = round
    /\ command = "prepare" => sent = <<>> /\ pc \in {"prepare", "done"}

(* The quote of the round is not that of the transaction before it.        *)
QuoteInv ==
    /\ pc = "quote" /\ round > 0 => quote = sent[round].quote
    /\ pc \in Undecided \ {"quote"} /\ round > 0 => quote # sent[round].quote
    /\ pc \in Following => quote = sent[round + 1].quote

(* What is true of the transactions sent, whatever happens next.           *)
SentInv ==
    /\ \A i \in 1..round : Kind(sent[i].plan) # "swap"
    /\ \A i \in DOMAIN sent :
          /\ Kind(sent[i].plan) = "approve" => i = 1
          /\ i = 3 => Kind(sent[i].plan) = "swap"
    /\ SignedAsConfirmed
    /\ SentWhileCurrent
    /\ FreshQuoteEachRound

TradeInv == TypeInv /\ PlanInv /\ ConsentInv /\ CountInv /\ QuoteInv /\ SentInv

-----------------------------------------------------------------------------

LEMMA InitTradeInv == Init => TradeInv
<1>. SUFFICES ASSUME Init PROVE TradeInv
  OBVIOUS
<1>1. sent = <<>> /\ round = 0 /\ result = None /\ now = 0 /\ typed = FALSE
      /\ pc \in {"quote", "prepare"}
  BY DEF Init
<1>2. sent \in Seq(Sends) /\ Len(sent) = 0 /\ DOMAIN sent = {}
  BY <1>1, EmptySeq
<1>3. TypeInv
  <2>1. command \in {"trade", "execute", "prepare"} /\ (pc # "quote" => quote \in QuoteIds)
    BY DEF Init
  <2>2. typed \in BOOLEAN
    BY <1>1
  <2>3. round \in 0..2 /\ pc \in Labels /\ (pc \notin {"quote", "done"} => quote \in QuoteIds)
    BY <1>1, <2>1 DEF Labels
  <2>. QED
    BY <1>1, <1>2, <2>1, <2>2, <2>3 DEF TypeInv
<1>4. PlanInv /\ ConsentInv /\ QuoteInv
  BY <1>1 DEF PlanInv, ConsentInv, QuoteInv, Following
<1>5. CountInv
  BY <1>1, <1>2, NoneAssumption DEF Init, CountInv, Following, Results
<1>6. SentInv
  BY <1>1, <1>2 DEF SentInv, SignedAsConfirmed, SentWhileCurrent, FreshQuoteEachRound
<1>. QED
  BY <1>3, <1>4, <1>5, <1>6 DEF TradeInv

(* A step that changes neither the transactions nor the terms and stays    *)
(* where it is, such as a block or a tick.                                 *)
LEMMA ElsewhereStep ==
    ASSUME TradeInv, now' \in Nat,
           UNCHANGED <<line, pc, round, quote, terms, sent, result>>
    PROVE  TradeInv'
BY DEF TradeInv, TypeInv, PlanInv, ConsentInv, CountInv, QuoteInv, SentInv, PolicyAllows,
       SignedAsConfirmed, SentWhileCurrent, FreshQuoteEachRound, line, terms

(* An error ends a command that has decided nothing in this round.         *)
LEMMA RefuseStep ==
    ASSUME TradeInv, pc \in Undecided, Refuse, UNCHANGED <<line, now>>
    PROVE  TradeInv'
<1>1. /\ pc' = "done" /\ result' = "Refused" /\ Len(sent) = round
      /\ UNCHANGED <<command, flag, now, round, quote, prepared, shown, typed, sent>>
  BY DEF TradeInv, CountInv, Refuse, End, line, terms
<1>2. TypeInv' /\ PlanInv' /\ ConsentInv' /\ QuoteInv'
  BY <1>1 DEF TradeInv, TypeInv, PlanInv, ConsentInv, QuoteInv, Labels, Undecided, Following
<1>3. CountInv'
  BY <1>1 DEF TradeInv, CountInv, Undecided, Following
<1>4. SentInv'
  BY <1>1 DEF TradeInv, SentInv, SignedAsConfirmed, SentWhileCurrent, FreshQuoteEachRound
<1>. QED
  BY <1>2, <1>3, <1>4 DEF TradeInv

(* The steps that leave the transactions and the round alone keep SentInv. *)
LEMMA SentKept ==
    ASSUME SentInv, UNCHANGED <<sent, round, flag>>
    PROVE  SentInv'
BY DEF SentInv, SignedAsConfirmed, SentWhileCurrent, FreshQuoteEachRound

LEMMA QuoteStep == ASSUME TradeInv, Quote PROVE TradeInv'
<1>1. pc = "quote" /\ pc \in Undecided /\ UNCHANGED <<line, now, flag, command>>
  BY DEF Quote, Undecided, line
<1>2. PICK q \in QuoteIds :
        IF Fresh(q)
        THEN quote' = q /\ Goto("prepare") /\ UNCHANGED <<round, terms, sent, polling>>
        ELSE Refuse
  BY DEF Quote
<1>3. CASE ~Fresh(q)
  BY <1>1, <1>2, <1>3, RefuseStep
<1>4. CASE Fresh(q)
  <2>1. /\ pc' = "prepare" /\ quote' = q /\ q # quote
        /\ UNCHANGED <<round, prepared, shown, typed, sent, result>>
    BY <1>2, <1>4 DEF Fresh, Goto, terms
  <2>2. TypeInv' /\ PlanInv' /\ ConsentInv' /\ QuoteInv'
    BY <1>1, <2>1 DEF TradeInv, TypeInv, PlanInv, ConsentInv, QuoteInv, Labels, Undecided, Following
  <2>3. CountInv'
    BY <1>1, <2>1 DEF TradeInv, CountInv, Undecided, Following
  <2>4. SentInv'
    BY <1>1, <2>1, SentKept DEF TradeInv
  <2>. QED
    BY <2>2, <2>3, <2>4 DEF TradeInv
<1>. QED
  BY <1>3, <1>4

LEMMA PrepareStep == ASSUME TradeInv, Prepare PROVE TradeInv'
<1>1. pc = "prepare" /\ pc \in Undecided /\ UNCHANGED <<line, now, flag, command>>
  BY DEF Prepare, Undecided, line
<1>2. PICK p \in Response :
        IF Valid(p) /\ PolicyAllows(p)
        THEN /\ prepared' = p
             /\ IF command = "prepare" THEN End("Preview") ELSE Goto("confirm")
             /\ UNCHANGED <<round, quote, shown, typed, sent, polling>>
        ELSE Refuse
  BY DEF Prepare
<1>3. CASE ~(Valid(p) /\ PolicyAllows(p))
  BY <1>1, <1>2, <1>3, RefuseStep
<1>4. CASE Valid(p) /\ PolicyAllows(p)
  <2>1. /\ prepared' = p /\ p.terms = "mine" /\ PolicyAllows(p)
        /\ UNCHANGED <<round, quote, shown, typed, sent>>
    BY <1>2, <1>4 DEF Valid
  <2>2. \/ command = "prepare" /\ pc' = "done" /\ result' = "Preview"
        \/ command # "prepare" /\ pc' = "confirm" /\ result' = result
    BY <1>2, <1>4 DEF End, Goto
  <2>3. PlanInv'
    BY <2>1, <2>2 DEF PlanInv, PolicyAllows
  <2>4. TypeInv' /\ ConsentInv' /\ QuoteInv'
    BY <1>1, <2>1, <2>2 DEF TradeInv, TypeInv, ConsentInv, QuoteInv, Labels, Undecided, Following
  <2>5. CountInv'
    BY <1>1, <2>1, <2>2 DEF TradeInv, CountInv, Undecided, Following
  <2>6. SentInv'
    BY <1>1, <2>1, SentKept DEF TradeInv
  <2>. QED
    BY <2>3, <2>4, <2>5, <2>6 DEF TradeInv
<1>. QED
  BY <1>3, <1>4

LEMMA ConfirmStep == ASSUME TradeInv, Confirm PROVE TradeInv'
<1>1. /\ pc = "confirm" /\ shown' = prepared
      /\ UNCHANGED <<command, flag, now, round, quote, prepared, sent>>
  BY DEF Confirm, line
<1>2. \/ pc' = "recheck" /\ result' = result /\ typed' = FALSE /\ Flagged
      \/ pc' = "recheck" /\ result' = result /\ typed' = TRUE
      \/ pc' = "done" /\ result' = "Canceled" /\ typed' = typed
  BY DEF Confirm, Goto, End
<1>3. TypeInv' /\ QuoteInv'
  BY <1>1, <1>2 DEF TradeInv, TypeInv, QuoteInv, Labels, Undecided, Following
<1>4. PlanInv'
  BY <1>1, <1>2 DEF TradeInv, PlanInv, PolicyAllows, Following
<1>5. ConsentInv'
  BY <1>1, <1>2 DEF ConsentInv, Flagged
<1>6. CountInv'
  BY <1>1, <1>2 DEF TradeInv, CountInv, Undecided, Following
<1>7. SentInv'
  BY <1>1, SentKept DEF TradeInv
<1>. QED
  BY <1>3, <1>4, <1>5, <1>6, <1>7 DEF TradeInv

LEMMA RecheckStep == ASSUME TradeInv, Recheck PROVE TradeInv'
<1>1. pc = "recheck" /\ pc \in Undecided /\ UNCHANGED <<line, now, flag, command>>
  BY DEF Recheck, Undecided, line
<1>2. CASE Refuse
  BY <1>1, <1>2, RefuseStep
<1>3. CASE Goto("send") /\ UNCHANGED <<round, quote, terms, sent, polling>>
  <2>1. /\ pc' = "send"
        /\ UNCHANGED <<round, quote, prepared, shown, typed, sent, result>>
    BY <1>3 DEF Goto, terms
  <2>2. TypeInv' /\ QuoteInv'
    BY <1>1, <2>1 DEF TradeInv, TypeInv, QuoteInv, Labels, Undecided, Following
  <2>3. PlanInv' /\ ConsentInv'
    BY <1>1, <2>1 DEF TradeInv, PlanInv, ConsentInv, PolicyAllows, Following
  <2>4. CountInv'
    BY <1>1, <2>1 DEF TradeInv, CountInv, Undecided, Following
  <2>5. SentInv'
    BY <1>1, <2>1, SentKept DEF TradeInv
  <2>. QED
    BY <2>2, <2>3, <2>4, <2>5 DEF TradeInv
<1>. QED
  BY <1>2, <1>3 DEF Recheck

(* A transaction more, whose terms were consented to and are not expired.  *)
LEMMA AppendStep ==
    ASSUME TradeInv, pc = "send", StillCurrent, sent' = Append(sent, Attempt),
           UNCHANGED <<command, flag, now, round, quote, prepared, shown, typed>>,
           \/ pc' = "receipt" /\ result' = result
           \/ pc' = "done" /\ result' = "Unknown"
    PROVE  TradeInv'
<1>1. /\ Len(sent) = round /\ round \in 0..2 /\ sent \in Seq(Sends) /\ now \in Nat
      /\ prepared \in Response /\ shown = prepared /\ quote \in QuoteIds /\ typed \in BOOLEAN
  BY DEF TradeInv, TypeInv, PlanInv, ConsentInv, CountInv, Undecided, Following
<1>2. Attempt \in Sends
  BY <1>1 DEF Attempt, Sends
<1>3. /\ sent' \in Seq(Sends) /\ Len(sent') = round + 1
      /\ DOMAIN (sent') = 1..(round + 1) /\ DOMAIN sent = 1..round
      /\ \A i \in 1..round : (sent')[i] = sent[i]
      /\ (sent')[round + 1] = Attempt
  BY <1>1, <1>2, AppendProperties
<1>4. /\ Attempt.plan = prepared /\ Attempt.shown = prepared /\ Attempt.typed = typed
      /\ Attempt.quote = quote /\ Attempt.at = now
  BY <1>1 DEF Attempt
<1>5. TypeInv'
  BY <1>1, <1>3 DEF TradeInv, TypeInv, Labels
<1>6. PlanInv'
  BY DEF TradeInv, PlanInv, PolicyAllows, Following
<1>7. ConsentInv'
  BY DEF ConsentInv
<1>8. CountInv'
  BY <1>1, <1>3, <1>4 DEF TradeInv, CountInv, Undecided, Following
<1>9. QuoteInv'
  BY <1>1, <1>3, <1>4 DEF QuoteInv, Undecided, Following
<1>10. \A i \in 1..(round + 1) : i \in 1..round \/ i = round + 1
  BY <1>1
<1>11. SentInv'
  <2>1. (\A i \in 1..round : Kind(sent[i].plan) # "swap")'
    BY <1>3 DEF TradeInv, SentInv
  <2>2. /\ Kind(prepared) = "approve" => round = 0
        /\ round = 2 => Kind(prepared) = "swap"
    <3>1. PolicyAllows(prepared)
      BY DEF TradeInv, PlanInv, Following
    <3>2. Kind(prepared) \in {"swap", "permit", "approve"}
      BY DEF Kind
    <3>. QED
      BY <1>1, <3>1, <3>2 DEF PolicyAllows
  <2>3. (\A i \in DOMAIN sent : /\ Kind(sent[i].plan) = "approve" => i = 1
                                /\ i = 3 => Kind(sent[i].plan) = "swap")'
    BY <1>1, <1>3, <1>4, <1>10, <2>2 DEF TradeInv, SentInv
  <2>4. SignedAsConfirmed'
    <3>1. prepared.terms = "mine" /\ (typed \/ (round = 0 /\ flag = Action(prepared)))
      BY DEF TradeInv, PlanInv, ConsentInv, Following
    <3>. QED
      BY <1>1, <1>3, <1>4, <1>10, <3>1 DEF TradeInv, SentInv, SignedAsConfirmed
  <2>5. SentWhileCurrent'
    BY <1>1, <1>3, <1>4, <1>10 DEF TradeInv, SentInv, SentWhileCurrent, StillCurrent, Current
  <2>6. FreshQuoteEachRound'
    <3>1. round > 0 => quote # sent[round].quote
      BY DEF TradeInv, QuoteInv, Undecided
    <3>2. SUFFICES ASSUME NEW i \in 1..(round + 1), i + 1 \in 1..(round + 1)
                   PROVE  (sent')[i].quote # (sent')[i + 1].quote
      BY <1>3 DEF FreshQuoteEachRound
    <3>3. i \in 1..round
      BY <1>1, <3>2
    <3>4. CASE i = round
      <4>1. (sent')[i] = sent[round] /\ round > 0
        BY <1>1, <1>3, <3>3, <3>4
      <4>2. (sent')[i + 1].quote = quote
        BY <1>3, <1>4, <3>4
      <4>. QED
        BY <3>1, <4>1, <4>2
    <3>5. CASE i # round
      <4>1. i + 1 \in 1..round
        BY <1>1, <3>3, <3>5
      <4>2. sent[i].quote # sent[i + 1].quote
        BY <1>3, <3>3, <4>1 DEF TradeInv, SentInv, FreshQuoteEachRound
      <4>. QED
        BY <1>3, <3>3, <4>1, <4>2
    <3>. QED
      BY <3>4, <3>5
  <2>. QED
    BY <2>1, <2>3, <2>4, <2>5, <2>6 DEF SentInv
<1>. QED
  BY <1>5, <1>6, <1>7, <1>8, <1>9, <1>11 DEF TradeInv

LEMMA SendStep == ASSUME TradeInv, Send PROVE TradeInv'
<1>1. pc = "send" /\ pc \in Undecided /\ UNCHANGED <<line, now, flag, command>>
  BY DEF Send, Undecided, line
<1>2. CASE StillCurrent
  <2>1. /\ sent' = Append(sent, Attempt)
        /\ UNCHANGED <<round, quote, prepared, shown, typed>>
        /\ \/ pc' = "receipt" /\ result' = result
           \/ pc' = "done" /\ result' = "Unknown"
    BY <1>2 DEF Send, Goto, End, terms
  <2>. QED
    BY <1>1, <1>2, <2>1, AppendStep
<1>3. CASE ~StillCurrent
  BY <1>1, <1>3, RefuseStep DEF Send
<1>. QED
  BY <1>2, <1>3

(* Whatever follows a transaction leaves it as it is.  The command waits   *)
(* on, ends with a result that is none of an error, or starts a round      *)
(* after an approval.                                                      *)
LEMMA FollowStep ==
    ASSUME TradeInv, pc \in Following,
           UNCHANGED <<line, now, quote, terms, sent>>,
           \/ pc' \in Following /\ result' = result /\ round' = round
           \/ /\ pc' = "done" /\ round' = round
              /\ result' \notin {"Refused", "Canceled", "Preview"}
           \/ /\ pc' = "quote" /\ round' = round + 1 /\ result' = result
              /\ round # 2 /\ Kind(prepared) # "swap"
    PROVE  TradeInv'
<1>1. UNCHANGED <<command, flag, now, quote, prepared, shown, typed, sent>>
  BY DEF line, terms
<1>2. /\ Len(sent) = round + 1 /\ round \in 0..2 /\ sent[round + 1].plan = prepared
      /\ command # "prepare"
  BY DEF TradeInv, TypeInv, CountInv, Following
<1>3. TypeInv'
  <2>1. round' \in 0..2
    BY <1>2
  <2>2. pc' \in Labels /\ (pc' \notin {"quote", "done"} => quote \in QuoteIds)
    BY DEF TradeInv, TypeInv, Labels, Following
  <2>. QED
    BY <1>1, <2>1, <2>2 DEF TradeInv, TypeInv
<1>4. PlanInv'
  BY <1>1 DEF TradeInv, PlanInv, PolicyAllows, Following
<1>5. ConsentInv'
  BY DEF ConsentInv, Following
<1>6. CountInv'
  BY <1>1, <1>2 DEF TradeInv, CountInv, Undecided, Following
<1>7. QuoteInv'
  BY <1>1, <1>2 DEF TradeInv, QuoteInv, Undecided, Following
<1>8. SentInv'
  <2>1. (\A i \in 1..round : Kind(sent[i].plan) # "swap")'
    <3>1. CASE round' = round
      BY <1>1, <3>1 DEF TradeInv, SentInv
    <3>2. CASE round' = round + 1 /\ Kind(prepared) # "swap"
      <4>1. \A i \in 1..(round + 1) : i \in 1..round \/ i = round + 1
        BY <1>2
      <4>. QED
        BY <1>1, <1>2, <3>2, <4>1 DEF TradeInv, SentInv
    <3>. QED
      BY <3>1, <3>2
  <2>. QED
    BY <1>1, <2>1 DEF TradeInv, SentInv, SignedAsConfirmed, SentWhileCurrent,
                      FreshQuoteEachRound
<1>. QED
  BY <1>3, <1>4, <1>5, <1>6, <1>7, <1>8 DEF TradeInv

LEMMA PollStep == ASSUME TradeInv, Poll PROVE TradeInv'
<1>1. pc \in Following /\ UNCHANGED <<line, now, quote, terms, sent, round>>
  BY DEF Poll, Following
<1>2. \/ pc' = "done" /\ result' = "Unknown"
      \/ pc' \in Following /\ result' = result
  BY DEF Poll, End, Goto, Following
<1>. QED
  BY <1>1, <1>2, FollowStep

(* Only an approval can be confirmed, so a swap leads to no other round,   *)
(* and a third approval is never waited for.                               *)
LEMMA ReadBlockStep == ASSUME TradeInv, ReadBlock PROVE TradeInv'
<1>1. pc \in Following /\ UNCHANGED <<line, now, quote, terms, sent>>
  BY DEF ReadBlock, Following
<1>2. ASSUME NEW outcome \in Verdicts(prepared, receipt.outcome), Conclude(outcome)
      PROVE  TradeInv'
  <2>1. /\ outcome \in {"Unknown", "SwapVerified", "Failed", "ApprovalConfirmed"}
        /\ outcome = "ApprovalConfirmed" => Kind(prepared) # "swap"
    BY DEF Verdicts
  <2>2. round = 2 => Kind(prepared) = "swap"
    BY DEF TradeInv, PlanInv, PolicyAllows, Following, ReadBlock
  <2>3. CASE command = "trade" /\ outcome = "ApprovalConfirmed"
    BY <1>1, <1>2, <2>1, <2>2, <2>3, FollowStep DEF Conclude, Goto
  <2>4. CASE ~(command = "trade" /\ outcome = "ApprovalConfirmed")
    <3>1. pc' = "done" /\ round' = round /\ result' \notin {"Refused", "Canceled", "Preview"}
      BY <1>2, <2>1, <2>4 DEF Conclude, End
    <3>. QED
      BY <1>1, <3>1, FollowStep
  <2>. QED
    BY <2>3, <2>4
<1>3. \/ \E outcome \in Verdicts(prepared, receipt.outcome) : Conclude(outcome)
      \/ pc' = "done" /\ result' = "Unknown" /\ round' = round
      \/ pc' \in Following /\ result' = result /\ round' = round
  BY DEF ReadBlock, End, Goto, Following
<1>. QED
  BY <1>1, <1>2, <1>3, FollowStep

LEMMA FailStep == ASSUME TradeInv, Fail PROVE TradeInv'
<1>1. UNCHANGED <<line, now, quote, terms, sent, round>>
  BY DEF Fail, Refuse
<1>2. CASE pc \in Undecided
  BY <1>1, <1>2, RefuseStep DEF Fail, Undecided
<1>3. CASE pc \in Following
  <2>1. pc' = "done" /\ result' = "Unknown"
    BY <1>3 DEF Fail, Following, End
  <2>. QED
    BY <1>1, <1>3, <2>1, FollowStep
<1>. QED
  BY <1>2, <1>3 DEF Fail, Undecided, Following

LEMMA TradeStep == TradeInv /\ [Next]_vars => TradeInv'
<1>. SUFFICES ASSUME TradeInv, [Next]_vars PROVE TradeInv'
  OBVIOUS
<1>1. CASE Unattended
  BY <1>1, QuoteStep, PrepareStep, RecheckStep, SendStep, PollStep, ReadBlockStep DEF Unattended
<1>2. CASE Confirm
  BY <1>2, ConfirmStep
<1>3. CASE Fail
  BY <1>3, FailStep
<1>4. CASE Tick
  BY <1>4, ElsewhereStep DEF Tick, TradeInv, TypeInv
<1>5. CASE Blocks
  BY <1>5, ElsewhereStep DEF Blocks, TradeInv, TypeInv
<1>6. CASE UNCHANGED vars
  BY <1>6, ElsewhereStep DEF vars, TradeInv, TypeInv
<1>. QED
  BY <1>1, <1>2, <1>3, <1>4, <1>5, <1>6 DEF Next

LEMMA TradeInvariant == Spec => []TradeInv
BY InitTradeInv, TradeStep, PTL DEF Spec

(* Whatever the engine answers and whenever, each transaction is the one   *)
(* that was validated, shown and consented to.                             *)
THEOREM SignedIsConfirmed == Spec => []SignedAsConfirmed
<1>1. TradeInv => SignedAsConfirmed
  BY DEF TradeInv, SentInv
<1>. QED
  BY <1>1, TradeInvariant, PTL

(* However long the prompt stays open, expired terms are not sent.         *)
THEOREM SentInTime == Spec => []SentWhileCurrent
<1>1. TradeInv => SentWhileCurrent
  BY DEF TradeInv, SentInv
<1>. QED
  BY <1>1, TradeInvariant, PTL

(* The quote of a transaction is never that of the approval directly       *)
(* before it, whatever ids the engine gives.                               *)
THEOREM QuotesAreFresh == Spec => []FreshQuoteEachRound
<1>1. TradeInv => FreshQuoteEachRound
  BY DEF TradeInv, SentInv
<1>. QED
  BY <1>1, TradeInvariant, PTL

(* A trade sends three transactions at most, a swap only as the last.      *)
THEOREM TradeIsBounded == Spec => []BoundedTrade
<1>1. TradeInv => BoundedTrade
  <2>. SUFFICES ASSUME TradeInv PROVE BoundedTrade
    OBVIOUS
  <2>1. Len(sent) \in {round, round + 1} /\ round \in 0..2
    BY DEF TradeInv, TypeInv, CountInv
  <2>4. DOMAIN sent = 1..Len(sent) /\ Len(sent) \in Nat
    BY DEF TradeInv, TypeInv
  <2>2. ASSUME NEW i \in 1..Len(sent) PROVE i \in 1..round \/ i = Len(sent)
    <3>1. CASE Len(sent) = round
      BY <3>1
    <3>2. CASE Len(sent) = round + 1
      BY <2>1, <3>2
    <3>. QED
      BY <2>1, <3>1, <3>2
  <2>3. Len(sent) <= 3
    <3>1. CASE Len(sent) = round
      BY <2>1, <3>1
    <3>2. CASE Len(sent) = round + 1
      BY <2>1, <3>2
    <3>. QED
      BY <2>1, <3>1, <3>2
  <2>. QED
    BY <2>4, <2>2, <2>3 DEF TradeInv, SentInv, BoundedTrade
<1>. QED
  BY <1>1, TradeInvariant, PTL

(* An error, a cancellation or a preview is never said of a transaction    *)
(* that may be on its way.                                                 *)
THEOREM NothingSentMeansIt == Spec => []NothingSentIsTrue
<1>1. TradeInv => NothingSentIsTrue
  BY DEF TradeInv, CountInv, NothingSentIsTrue
<1>. QED
  BY <1>1, TradeInvariant, PTL

-----------------------------------------------------------------------------
(* The network below: what a client may conclude from a receipt and,       *)
(* later, the block at its height.  If the hashes agree the transaction is *)
(* in the chain of that moment, with the outcome of the receipt, whatever  *)
(* was mined and replaced in between.                                      *)

Outcomes == {"paid", "short", "reverted"}

(* Hashes are those of blocks mined, and a transaction has one place.      *)
ChainInv ==
    /\ mined \in Nat
    /\ \E S : chain \in Seq(S)
    /\ \A i \in DOMAIN chain : chain[i].hash \in 1..mined
    /\ \A i \in DOMAIN chain : \A t \in DOMAIN chain[i].txs : chain[i].txs[t] \in Outcomes
    /\ \A i, j \in DOMAIN chain : \A t :
          t \in DOMAIN chain[i].txs /\ t \in DOMAIN chain[j].txs => i = j

(* The receipt r was the node's once: while its block is canonical it is   *)
(* what the chain says of t.                                               *)
Witnessed(r, t) ==
    /\ r.block \in 1..mined
    /\ Net!Canonical(r) => /\ t \in DOMAIN chain[r.height].txs
                         /\ chain[r.height].txs[t] = r.outcome

(* The chain keeps its first n blocks and gets one more, which holds one   *)
(* of the given sets of transactions.                                      *)
NewHead(n, fitting) ==
    /\ n \in Nat /\ 1..n \subseteq DOMAIN chain
    /\ Len(chain') = n + 1 /\ DOMAIN (chain') = 1..(n + 1)
    /\ \A i \in 1..n : (chain')[i] = chain[i]
    /\ DOMAIN (chain')[n + 1].txs \in fitting

LEMMA InitChain == Net!Init => ChainInv
<1>. SUFFICES ASSUME Net!Init PROVE ChainInv
  OBVIOUS
<1>1. chain = <<>> /\ mined = 0 /\ DOMAIN chain = {} /\ chain \in Seq({})
  BY EmptySeq DEF Net!Init
<1>. QED
  BY <1>1 DEF ChainInv

LEMMA ExtendChain ==
    ASSUME ChainInv, NEW parents, NEW fitting, Net!Extend(parents, fitting),
           \/ parents = chain
           \/ chain # <<>> /\ parents = SubSeq(chain, 1, Len(chain) - 1)
    PROVE  /\ ChainInv'
           /\ \A r, t : Witnessed(r, t) => Witnessed(r, t)'
           /\ NewHead(Len(parents), fitting)
<1>1. PICK S : chain \in Seq(S)
  BY DEF ChainInv
<1>2. PICK taken \in fitting : \E come \in [taken -> Outcomes] :
        /\ taken \cap Net!HeldBy(parents) = {}
        /\ chain' = Append(parents, [hash |-> mined + 1, txs |-> come])
  BY DEF Net!Extend, Outcomes
<1>3. PICK come \in [taken -> Outcomes] :
        /\ taken \cap Net!HeldBy(parents) = {}
        /\ chain' = Append(parents, [hash |-> mined + 1, txs |-> come])
  BY <1>2
<1>. DEFINE new == [hash |-> mined + 1, txs |-> come]
            n == Len(parents)
<1>4. /\ parents \in Seq(S) /\ n \in Nat /\ DOMAIN parents = 1..n
      /\ DOMAIN parents \subseteq DOMAIN chain
      /\ \A i \in DOMAIN parents : parents[i] = chain[i]
  <2>1. CASE parents = chain
    BY <1>1, <2>1
  <2>2. CASE chain # <<>> /\ parents = SubSeq(chain, 1, Len(chain) - 1)
    <3>1. Len(chain) \in Nat \ {0} /\ DOMAIN chain = 1..Len(chain)
      BY <1>1, <2>2, EmptySeq
    <3>2. Len(chain) - 1 \in 0..Len(chain)
      BY <3>1
    <3>3. /\ parents \in Seq(S) /\ Len(parents) = Len(chain) - 1
          /\ \A i \in 1..(Len(chain) - 1) : parents[i] = chain[i]
      <4>1. \A i \in 1..(Len(chain) - 1) : chain[i] \in S
        BY <1>1, <3>1
      <4>. DEFINE m == Len(chain) - 1
      <4>2. m \in Int /\ 1 \in Int /\ m - 1 + 1 = m /\ (IF 1 <= m THEN m - 1 + 1 ELSE 0) = m
        BY <3>1, <3>2
      <4>3. \A i \in 1..m : 1 + i - 1 = i
        BY <4>2
      <4>. HIDE DEF m
      <4>4. /\ SubSeq(chain, 1, m) \in Seq(S)
            /\ Len(SubSeq(chain, 1, m)) = IF 1 <= m THEN m - 1 + 1 ELSE 0
            /\ \A i \in 1..(m - 1 + 1) : SubSeq(chain, 1, m)[i] = chain[1 + i - 1]
        <5>1. \A i \in 1..m : chain[i] \in S
          BY <4>1 DEF m
        <5>. QED
          BY <4>2, <5>1, SubSeqProperties
      <4>. QED
        BY <2>2, <4>2, <4>3, <4>4 DEF m
    <3>4. DOMAIN parents = 1..Len(parents)
      BY <3>3
    <3>. QED
      BY <3>1, <3>2, <3>3, <3>4
  <2>. QED
    BY <2>1, <2>2
<1>5. /\ chain' \in Seq(S \cup {new}) /\ DOMAIN (chain') = 1..(n + 1)
      /\ Len(chain') = n + 1
      /\ \A i \in 1..n : (chain')[i] = parents[i]
      /\ (chain')[n + 1] = new
  <2>1. parents \in Seq(S \cup {new}) /\ new \in S \cup {new}
    BY <1>4
  <2>. HIDE DEF new
  <2>2. chain' = Append(parents, new)
    BY <1>3 DEF new
  <2>. QED
    BY <1>4, <2>1, <2>2, AppendProperties
<1>6. /\ mined \in Nat /\ mined' = mined + 1
      /\ new.hash = mined + 1 /\ DOMAIN new.txs = taken
      /\ \A t \in taken : new.txs[t] \in Outcomes
  BY <1>3 DEF Net!Extend, Outcomes, ChainInv
<1>7. \A i \in 1..(n + 1) : i \in 1..n \/ i = n + 1
  BY <1>4
<1>8. \A i \in 1..n : \A t : t \in DOMAIN parents[i].txs => t \notin taken
  BY <1>3, <1>4 DEF Net!HeldBy
<1>11. NewHead(Len(parents), fitting)
  <2>1. 1..n \subseteq DOMAIN chain /\ \A i \in 1..n : (chain')[i] = chain[i]
    BY <1>4, <1>5
  <2>2. DOMAIN (chain')[n + 1].txs \in fitting
    BY <1>5, <1>6
  <2>. QED
    BY <1>4, <1>5, <2>1, <2>2 DEF NewHead
<1>. HIDE DEF new, n
<1>9. ChainInv'
  <2>1. (\A i \in DOMAIN chain : chain[i].hash \in 1..mined)'
    <3>1. \A i \in 1..n : (chain')[i].hash \in 1..(mined + 1)
      <4>1. ASSUME NEW i \in 1..n PROVE (chain')[i].hash \in 1..(mined + 1)
        <5>1. (chain')[i] = chain[i] /\ i \in DOMAIN chain
          BY <1>4, <1>5
        <5>2. chain[i].hash \in 1..mined
          BY <5>1 DEF ChainInv
        <5>. QED
          BY <1>6, <5>1, <5>2
      <4>. QED
        BY <4>1
    <3>2. (chain')[n + 1].hash \in 1..(mined + 1)
      BY <1>5, <1>6
    <3>. QED
      BY <1>5, <1>6, <1>7, <3>1, <3>2
  <2>2. ASSUME NEW i \in 1..(n + 1), NEW j \in 1..(n + 1), NEW t,
               t \in DOMAIN (chain')[i].txs, t \in DOMAIN (chain')[j].txs
        PROVE  i = j
    <3>1. CASE i \in 1..n /\ j \in 1..n
      BY <1>4, <1>5, <2>2, <3>1 DEF ChainInv
    <3>2. CASE i = n + 1 \/ j = n + 1
      <4>1. i \in 1..n => t \notin taken
        BY <1>5, <1>8, <2>2
      <4>2. j \in 1..n => t \notin taken
        BY <1>5, <1>8, <2>2
      <4>3. i = n + 1 => t \in taken
        BY <1>5, <1>6, <2>2
      <4>4. j = n + 1 => t \in taken
        BY <1>5, <1>6, <2>2
      <4>. QED
        BY <1>7, <3>2, <4>1, <4>2, <4>3, <4>4
    <3>. QED
      BY <1>7, <3>1, <3>2
  <2>3. mined' \in Nat /\ (\E T : chain' \in Seq(T))
    BY <1>5, <1>6
  <2>4. (\A i \in DOMAIN chain : \A t \in DOMAIN chain[i].txs : chain[i].txs[t] \in Outcomes)'
    <3>1. ASSUME NEW i \in 1..n, NEW t \in DOMAIN (chain')[i].txs
          PROVE  (chain')[i].txs[t] \in Outcomes
      <4>1. (chain')[i] = chain[i] /\ i \in DOMAIN chain
        BY <1>4, <1>5
      <4>. QED
        BY <3>1, <4>1 DEF ChainInv
    <3>2. ASSUME NEW t \in DOMAIN (chain')[n + 1].txs PROVE (chain')[n + 1].txs[t] \in Outcomes
      BY <1>5, <1>6, <3>2
    <3>. QED
      BY <1>5, <1>7, <3>1, <3>2
  <2>. QED
    BY <1>5, <2>1, <2>2, <2>3, <2>4 DEF ChainInv
<1>10. ASSUME NEW r, NEW t, Witnessed(r, t) PROVE Witnessed(r, t)'
  <2>1. r.block \in 1..(mined + 1) /\ r.block # mined + 1
    BY <1>6, <1>10 DEF Witnessed
  <2>2. ASSUME r.height \in 1..(n + 1), (chain')[r.height].hash = r.block
        PROVE  /\ t \in DOMAIN (chain')[r.height].txs
               /\ (chain')[r.height].txs[t] = r.outcome
    <3>1. r.height \in 1..n
      BY <1>5, <1>6, <1>7, <2>1, <2>2
    <3>2. r.height \in DOMAIN chain /\ (chain')[r.height] = chain[r.height]
      BY <1>4, <1>5, <3>1
    <3>. QED
      BY <1>10, <2>2, <3>2 DEF Witnessed, Net!Canonical, Net!Known
  <2>. QED
    BY <1>5, <1>6, <2>1, <2>2 DEF Witnessed, Net!Canonical, Net!Known
<1>. QED
  BY <1>9, <1>10, <1>11

(* A block more or the head replaced.                                      *)
LEMMA BlockStep ==
    ASSUME ChainInv, NEW above, NEW instead, Net!Mine(above) \/ Net!Reorg(instead)
    PROVE  /\ ChainInv'
           /\ \A r, t : Witnessed(r, t) => Witnessed(r, t)'
BY ExtendChain DEF Net!Mine, Net!Reorg

LEMMA MineHead ==
    ASSUME ChainInv, NEW fitting, Net!Mine(fitting)
    PROVE  NewHead(Len(chain), fitting) /\ DOMAIN chain = 1..Len(chain)
<1>1. PICK S : chain \in Seq(S)
  BY DEF ChainInv
<1>. QED
  BY <1>1, ExtendChain DEF Net!Mine

LEMMA ReorgHead ==
    ASSUME ChainInv, NEW fitting, Net!Reorg(fitting)
    PROVE  NewHead(Len(SubSeq(chain, 1, Len(chain) - 1)), fitting)
BY ExtendChain DEF Net!Reorg

LEMMA SameChain ==
    ASSUME UNCHANGED <<chain, mined>>
    PROVE  /\ ChainInv => ChainInv'
           /\ \A r, t : Witnessed(r, t) => Witnessed(r, t)'
BY DEF ChainInv, Witnessed, Net!Canonical, Net!Known

(* What the node answers is a witness from then on.                        *)
LEMMA ReceiptIsWitnessed ==
    ASSUME ChainInv, NEW t, Net!InChain(t)
    PROVE  Witnessed(Net!Receipt(t), t)
<1>. DEFINE height == CHOOSE i \in DOMAIN chain : t \in DOMAIN chain[i].txs
<1>1. height \in DOMAIN chain /\ t \in DOMAIN chain[height].txs
  BY DEF Net!InChain, Net!HeldBy
<1>2. /\ Net!Receipt(t).block = chain[height].hash /\ Net!Receipt(t).height = height
      /\ Net!Receipt(t).outcome = chain[height].txs[t]
  BY DEF Net!Receipt
<1>. HIDE DEF height
<1>. QED
  BY <1>1, <1>2 DEF Witnessed, ChainInv

(* A canonical witness is the chain's own r.                         *)
LEMMA CanonicalIsInChain ==
    ASSUME ChainInv, NEW r, NEW t, Witnessed(r, t), Net!Canonical(r)
    PROVE  Net!InChain(t) /\ Net!Receipt(t).outcome = r.outcome /\ r.outcome \in Outcomes
<1>. DEFINE height == CHOOSE i \in DOMAIN chain : t \in DOMAIN chain[i].txs
<1>1. /\ r.height \in DOMAIN chain
      /\ t \in DOMAIN chain[r.height].txs
      /\ chain[r.height].txs[t] = r.outcome
  BY DEF Witnessed, Net!Canonical, Net!Known
<1>2. height \in DOMAIN chain /\ t \in DOMAIN chain[height].txs
  BY <1>1
<1>3. height = r.height
  BY <1>1, <1>2 DEF ChainInv
<1>4. Net!Receipt(t).outcome = chain[height].txs[t]
  BY DEF Net!Receipt
<1>. HIDE DEF height
<1>. QED
  BY <1>1, <1>3, <1>4 DEF Net!InChain, Net!HeldBy, ChainInv

-----------------------------------------------------------------------------
(* Verdicts.  A receipt that is about to be compared with its block was    *)
(* the node's, and no block mined or replaced since then can give its hash *)
(* another meaning.                                                        *)

WitnessInv ==
    /\ ChainInv
    /\ pc = "block" => Witnessed(receipt, Len(sent))

LEMMA SameNetwork ==
    ASSUME WitnessInv, UNCHANGED <<chain, mined>>
    PROVE  /\ ChainInv'
           /\ \A r, t : Witnessed(r, t) => Witnessed(r, t)'
BY SameChain DEF WitnessInv

LEMMA WitnessStep == WitnessInv /\ [Next]_vars => WitnessInv'
<1>. SUFFICES ASSUME WitnessInv, [Next]_vars PROVE WitnessInv'
  OBVIOUS
<1>1. CASE Blocks
  <2>1. /\ ChainInv'
        /\ \A r, t : Witnessed(r, t) => Witnessed(r, t)'
    <3>1. Net!Mine(SUBSET pool) \/ Net!Reorg(SUBSET pool)
      BY <1>1 DEF Blocks, Net!Mine, Net!Reorg, Net!Extend, Net!HeldBy
    <3>. QED
      BY <3>1, BlockStep DEF WitnessInv
  <2>2. UNCHANGED <<pc, sent, receipt>>
    BY <1>1 DEF Blocks, polling
  <2>. QED
    BY <2>1, <2>2 DEF WitnessInv
<1>2. CASE Poll
  <2>1. UNCHANGED <<chain, mined, sent>>
    BY <1>2 DEF Poll, network
  <2>2. ASSUME pc' = "block" PROVE Witnessed(receipt, Len(sent))'
    <3>1. Net!InChain(Len(sent)) /\ receipt' = Net!Receipt(Len(sent))
      BY <1>2, <2>2 DEF Poll, End, Ours
    <3>2. Witnessed(Net!Receipt(Len(sent)), Len(sent))
      BY <3>1, ReceiptIsWitnessed DEF WitnessInv
    <3>. QED
      BY <2>1, <3>1, <3>2 DEF Witnessed, Net!Canonical, Net!Known
  <2>. QED
    BY <2>1, <2>2, SameNetwork DEF WitnessInv
<1>3. CASE Quote \/ Prepare \/ Recheck \/ Send \/ ReadBlock \/ Confirm \/ Fail
  <2>1. UNCHANGED <<chain, mined>>
    BY <1>3 DEF Quote, Prepare, Recheck, Send, ReadBlock, Confirm, Fail, network
  <2>2. pc' # "block"
    BY <1>3 DEF Quote, Prepare, Recheck, Send, ReadBlock, Confirm, Fail, Goto, End, Refuse, Conclude
  <2>. QED
    BY <2>1, <2>2, SameNetwork DEF WitnessInv
<1>4. CASE Tick \/ UNCHANGED vars
  <2>1. UNCHANGED <<chain, mined, pc, sent, receipt>>
    BY <1>4 DEF Tick, vars, network, polling
  <2>. QED
    BY <2>1, SameNetwork DEF WitnessInv
<1>. QED
  BY <1>1, <1>2, <1>3, <1>4 DEF Next, Unattended

(* A verdict, or a round built on an approval, is given in one place only. *)
LEMMA VerdictStep ==
    ASSUME TypeInv, WitnessInv, [Next]_vars
    PROVE  /\ round' # round => CameTo({"paid", "short"})
           /\ (result' # result /\ result' = "ApprovalConfirmed") => CameTo({"paid", "short"})
           /\ (result' # result /\ result' = "SwapVerified") => CameTo({"paid"})
           /\ (result' # result /\ result' = "Failed") => CameTo({"short", "reverted"})
<1>1. CASE ReadBlock
  <2>1. CASE \E outcome \in Verdicts(prepared, receipt.outcome) : Matches /\ Conclude(outcome)
    <3>1. PICK outcome \in Verdicts(prepared, receipt.outcome) : Matches /\ Conclude(outcome)
      BY <2>1
    <3>2. Witnessed(receipt, Len(sent)) /\ Net!Canonical(receipt)
      BY <1>1, <3>1 DEF ReadBlock, WitnessInv, Matches, Net!Canonical, Net!Known
    <3>3. /\ Net!InChain(Len(sent)) /\ Net!Receipt(Len(sent)).outcome = receipt.outcome
          /\ receipt.outcome \in {"paid", "short", "reverted"}
      BY <3>2, CanonicalIsInChain DEF WitnessInv, Outcomes
    <3>4. /\ round' # round => outcome = "ApprovalConfirmed"
          /\ (result' # result /\ result' \in {"ApprovalConfirmed", "SwapVerified", "Failed"})
                => outcome = result'
      BY <3>1 DEF Conclude, End, Goto
    <3>5. /\ outcome = "ApprovalConfirmed" => receipt.outcome # "reverted"
          /\ outcome = "SwapVerified" => receipt.outcome = "paid"
          /\ outcome = "Failed" => receipt.outcome # "paid"
      BY DEF Verdicts
    <3>. QED
      BY <3>3, <3>4, <3>5 DEF CameTo
  <2>2. CASE ~\E outcome \in Verdicts(prepared, receipt.outcome) : Matches /\ Conclude(outcome)
    BY <1>1, <2>2 DEF ReadBlock, End, Goto
  <2>. QED
    BY <2>1, <2>2
<1>2. CASE Quote \/ Prepare \/ Recheck \/ Send \/ Poll \/ Confirm \/ Fail
  BY <1>2 DEF Quote, Prepare, Recheck, Send, Poll, Confirm, Fail, Goto, End, Refuse
<1>3. CASE Tick \/ Blocks \/ UNCHANGED vars
  BY <1>3 DEF Tick, Blocks, vars
<1>. QED
  BY <1>1, <1>2, <1>3 DEF Next, Unattended

(* Every verdict, and every round built on an approval, is about the chain *)
(* of that moment, however often it was reorganised.                       *)
THEOREM VerdictsHold == Spec => VerdictsAreCanonical
<1>1. Init => WitnessInv
  <2>. SUFFICES ASSUME Init PROVE WitnessInv
    OBVIOUS
  <2>1. ChainInv /\ pc # "block"
    BY InitChain DEF Init, Net!Init
  <2>. QED
    BY <2>1 DEF WitnessInv
<1>2. TradeInv => TypeInv
  BY DEF TradeInv
<1>. QED
  BY <1>1, <1>2, TradeInvariant, WitnessStep, VerdictStep, PTL DEF Spec, VerdictsAreCanonical

==============================================================================
