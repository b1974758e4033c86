------------------------- MODULE HarnessJournalProofs -------------------------
(***************************************************************************)
(* The harness over any number of writes, runs, crashes and blocks: what   *)
(* was given to the network is what the journal has, no write is left      *)
(* behind that is not on the chain, and no two compete for a nonce.        *)
(***************************************************************************)
EXTENDS HarnessJournal, SequenceTheorems, FiniteSetTheorems, TLAPS

Holding == {"observe", "lookup", "count", "send", "wait", "block"}
Signing == {"estimate", "sign"}
Idle == {"plan", "stopped", "done"}

(* From the signature on, the process works with the nonce and deadline of *)
(* the journal; it signs nothing that the journal has already, and nothing *)
(* with a deadline that is not on disk.                                    *)
JournalInv ==
    /\ command \in Commands /\ now \in Nat /\ key \in Nat \ {0}
    /\ pc \in Idle \cup {"begin", "record"} \cup Signing \cup Holding
    /\ pc \notin Idle => due # None
    /\ pc \in Signing => /\ key \in Keys /\ key \notin DOMAIN journal
                         /\ key \in command.dated => saved = due
    /\ pc \in Holding => /\ key \in DOMAIN journal
                         /\ journal[key].nonce = record /\ journal[key].due = Due(key)
    /\ WriteAhead

LEMMA OneDated == ASSUME JournalInv, NEW k \in command.dated PROVE k = Steps
BY HarnessAssumption DEF JournalInv

LEMMA JournaledEntry ==
    ASSUME NEW nonce, NEW block
    PROVE  /\ DOMAIN Journaled(nonce, block) = DOMAIN journal \cup {key}
           /\ Journaled(nonce, block)[key].nonce = nonce
           /\ Journaled(nonce, block)[key].due = Due(key)
           /\ \A k \in DOMAIN journal \ {key} : Journaled(nonce, block)[k] = journal[k]
BY DEF Journaled

(* A write is signed when the journal has no entry for it, so nothing was  *)
(* given to the network for it; its deadline is saved.                     *)
LEMMA SignStep == ASSUME JournalInv, Sign PROVE JournalInv'
<1>1. /\ pc = "sign" /\ pc' = "observe" /\ record' = Pending
      /\ journal' = Journaled(Pending, None)
      /\ UNCHANGED <<command, now, key, due, saved, submitted>>
  BY DEF Sign, SignWith, Goto, history, world
<1>2. /\ DOMAIN (journal') = DOMAIN journal \cup {key}
      /\ (journal')[key].nonce = Pending
      /\ (journal')[key].due = Due(key)
      /\ \A k \in DOMAIN journal \ {key} : (journal')[k] = journal[k]
  BY <1>1 DEF Journaled
<1>3. pc \in Signing /\ pc \notin Idle
  BY <1>1 DEF Signing, Idle
<1>6. key \notin DOMAIN journal /\ (key \in command.dated => saved = due) /\ due # None
  BY <1>3 DEF JournalInv
<1>4. WriteAhead'
  BY <1>1, <1>2, <1>6 DEF JournalInv, WriteAhead, Due
<1>5. Due(key)' = Due(key)
  BY <1>1 DEF Due
<1>. QED
  BY <1>1, <1>2, <1>4, <1>5, <1>6 DEF JournalInv, Holding, Idle, Signing

LEMMA BroadcastStep == ASSUME JournalInv, Broadcast PROVE JournalInv'
<1>1. /\ pc = "send"
      /\ submitted' = submitted \cup {Ours}
      /\ UNCHANGED <<command, now, saved, journal>>
      /\ \/ pc' = "wait" /\ UNCHANGED <<key, record, due>>
         \/ pc' = "stopped" /\ key' = 1
  BY DEF Broadcast, Goto, Step, Stop, Leave, disk
<1>2. Ours.key = key /\ Ours.nonce = record /\ Ours.due = Due(key)
  BY DEF Ours
<1>3. key \in DOMAIN journal /\ journal[key].nonce = record /\ journal[key].due = Due(key)
  BY <1>1 DEF JournalInv, Holding
<1>4. WriteAhead'
  BY <1>1, <1>2, <1>3 DEF JournalInv, WriteAhead
<1>5. CASE pc' = "wait" /\ UNCHANGED <<key, record, due>>
  <2>1. Due(key)' = Due(key)
    BY <1>1, <1>5 DEF Due
  <2>. QED
    BY <1>1, <1>3, <1>4, <1>5, <2>1 DEF JournalInv, Holding, Idle, Signing
<1>6. CASE pc' = "stopped" /\ key' = 1
  BY <1>1, <1>4, <1>6 DEF JournalInv, Holding, Idle, Signing
<1>. QED
  BY <1>1, <1>5, <1>6

(* Steps that touch neither the manifest nor what was submitted, of a      *)
(* process that goes on with its record, or is left.                       *)
LEMMA QuietStep ==
    ASSUME JournalInv, UNCHANGED <<command, journal, saved, submitted>>, now' \in Nat,
           \/ UNCHANGED <<pc, key, record, due>>
           \/ pc \in Holding /\ pc' \in Holding /\ UNCHANGED <<key, record, due>>
           \/ pc' \in Idle /\ key' = 1
    PROVE  JournalInv'
<1>1. WriteAhead'
  BY DEF JournalInv, WriteAhead
<1>2. CASE UNCHANGED <<key, record, due>> /\ (pc' = pc \/ (pc \in Holding /\ pc' \in Holding))
  <2>1. Due(key)' = Due(key)
    BY <1>2 DEF Due
  <2>. QED
    BY <1>1, <1>2, <2>1 DEF JournalInv, Holding, Idle, Signing
<1>3. CASE pc' \in Idle /\ key' = 1
  BY <1>1, <1>3 DEF JournalInv, Holding, Idle, Signing
<1>. QED
  BY <1>2, <1>3

(* The receipt is written next to the nonce that was there.                *)
LEMMA ReadBlockStep == ASSUME JournalInv, ReadBlock PROVE JournalInv'
<1>1. pc = "block" /\ UNCHANGED <<command, now, saved, submitted>>
  BY DEF ReadBlock, history, world
<1>2. key \in DOMAIN journal /\ journal[key].nonce = record /\ journal[key].due = Due(key)
  BY <1>1 DEF JournalInv, Holding
<1>3. CASE /\ journal' = journal
           /\ \/ pc' = "wait" /\ UNCHANGED <<key, record, due>>
              \/ pc' = "stopped" /\ key' = 1
  <2>1. now' \in Nat
    BY <1>1 DEF JournalInv
  <2>. QED
    BY <1>1, <1>3, <2>1, QuietStep DEF Holding, Idle
<1>4. CASE /\ journal' = Journaled(record, receipt.block)
           /\ key' = key + 1 /\ pc' = "begin" /\ due' = due
  <2>1. /\ DOMAIN (journal') = DOMAIN journal \cup {key}
        /\ (journal')[key].nonce = record
        /\ (journal')[key].due = Due(key)
        /\ \A k \in DOMAIN journal \ {key} : (journal')[k] = journal[k]
    BY <1>4, JournaledEntry
  <2>2. WriteAhead'
    BY <1>1, <1>2, <2>1 DEF JournalInv, WriteAhead
  <2>3. key' \in Nat \ {0}
    BY <1>4 DEF JournalInv
  <2>4. due' # None
    BY <1>1, <1>4 DEF JournalInv, Idle
  <2>. QED
    BY <1>1, <1>4, <2>2, <2>3, <2>4 DEF JournalInv, Holding, Idle, Signing
<1>. QED
  BY <1>3, <1>4 DEF ReadBlock, NextAttempt, Stop, Leave, Goto

(* The deadline of a run is the saved one, if there is one.                *)
LEMMA PlanStep == ASSUME JournalInv, Plan PROVE JournalInv'
<1>1. pc = "plan" /\ UNCHANGED <<command, now, journal, saved, submitted>>
  BY DEF Plan, history, world, disk
<1>2. now \in Nat /\ now + Window # None
  BY HarnessAssumption DEF JournalInv
<1>3. WriteAhead'
  BY <1>1 DEF JournalInv, WriteAhead
<1>4. CASE pc' \in Idle /\ key' = 1
  BY <1>1, <1>2, <1>4, QuietStep
<1>5. CASE pc' = "begin" /\ due' # None /\ key' \in Nat \ {0}
  BY <1>1, <1>2, <1>3, <1>5 DEF JournalInv, Holding, Idle, Signing
<1>6. CASE Resuming
  <2>1. Steps \in Nat \ {0}
    BY <1>6, HarnessAssumption DEF Resuming, JournalInv
  <2>. QED
    BY <1>4, <1>5, <1>6, <2>1 DEF Plan, Goto, Stop, Leave, Idle
<1>7. CASE ~Resuming
  BY <1>2, <1>4, <1>5, <1>7 DEF Plan, Goto, Stop, Leave, Idle, JournalInv
<1>. QED
  BY <1>6, <1>7

(* A deadline is saved only while the journal has no position.             *)
LEMMA BeginStep == ASSUME JournalInv, Begin PROVE JournalInv'
<1>1. /\ pc = "begin" /\ UNCHANGED <<command, now, journal, submitted>>
      /\ key \in Nat \ {0} /\ now \in Nat /\ due # None
  BY DEF Begin, history, world, JournalInv, Idle
<1>2. CASE pc' \in Idle /\ key' = 1 /\ saved' = saved
  BY <1>1, <1>2, QuietStep
<1>3. CASE pc' \in {"begin", "record"} /\ saved' = saved /\ due' = due /\ key' \in Nat \ {0}
  <2>1. WriteAhead'
    BY <1>1, <1>3 DEF JournalInv, WriteAhead
  <2>. QED
    BY <1>1, <1>3, <2>1 DEF JournalInv, Holding, Idle, Signing
<1>4. CASE /\ pc' = "estimate" /\ saved' = SavedFirst /\ UNCHANGED <<key, due>>
           /\ key <= Steps /\ key \notin DOMAIN journal
  <2>1. key \in Keys
    BY <1>1, <1>4, HarnessAssumption DEF Keys
  <2>2. ASSUME NEW k \in DOMAIN journal \cap command.dated
        PROVE  saved' # None /\ journal[k].due = saved'
    <3>1. k # key
      BY <1>4
    <3>2. key \notin command.dated
      BY <3>1, OneDated
    <3>. QED
      BY <1>4, <3>2 DEF SavedFirst, JournalInv, WriteAhead
  <2>3. WriteAhead'
    BY <1>1, <2>2 DEF JournalInv, WriteAhead
  <2>. QED
    BY <1>1, <1>4, <2>1, <2>3 DEF JournalInv, Holding, Idle, Signing, SavedFirst
<1>5. CASE /\ pc' \in {"wait", "observe"} /\ saved' = saved /\ UNCHANGED <<key, due>>
           /\ key \in DOMAIN journal /\ journal[key].due = Due(key)
           /\ record' = journal[key].nonce
  <2>1. WriteAhead'
    BY <1>1, <1>5 DEF JournalInv, WriteAhead
  <2>2. Due(key)' = Due(key)
    BY <1>1, <1>5 DEF Due
  <2>. QED
    BY <1>1, <1>5, <2>1, <2>2 DEF JournalInv, Holding, Idle, Signing
<1>. QED
  BY <1>1, <1>2, <1>3, <1>4, <1>5 DEF Begin, Goto, Step, Stop, Leave, Idle

LEMMA EstimateStep == ASSUME JournalInv, Estimate PROVE JournalInv'
<1>1. /\ pc = "estimate" /\ UNCHANGED <<command, now, journal, saved, submitted>>
      /\ now \in Nat
  BY DEF Estimate, history, world, disk, JournalInv
<1>2. CASE pc' = "stopped" /\ key' = 1
  BY <1>1, <1>2, QuietStep DEF Idle
<1>3. CASE pc' = "sign" /\ UNCHANGED <<key, due>>
  <2>1. WriteAhead'
    BY <1>1 DEF JournalInv, WriteAhead
  <2>. QED
    BY <1>1, <1>3, <2>1 DEF JournalInv, Holding, Idle, Signing, Keys
<1>. QED
  BY <1>2, <1>3 DEF Estimate, Step, Stop, Leave, Goto

LEMMA JournalStep == JournalInv /\ [Next]_vars => JournalInv'
<1>. SUFFICES ASSUME JournalInv, [Next]_vars PROVE JournalInv'
  OBVIOUS
<1>. now \in Nat
  BY DEF JournalInv
<1>1. CASE Plan \/ Begin \/ Estimate \/ Sign \/ Broadcast \/ ReadBlock
  BY <1>1, PlanStep, BeginStep, EstimateStep, SignStep, BroadcastStep, ReadBlockStep
<1>2. CASE Observe \/ LookUp \/ Count \/ Wait
  <2>1. /\ UNCHANGED <<command, now, journal, saved, submitted>> /\ pc \in Holding
        /\ \/ pc' \in Holding /\ UNCHANGED <<key, record, due>>
           \/ pc' = "stopped" /\ key' = 1
    BY <1>2 DEF Observe, LookUp, Count, Wait, NextAttempt, Goto, Step, Stop, Leave, Holding,
                history, world, disk
  <2>. QED
    BY <2>1, QuietStep DEF Idle
<1>3. CASE Fail \/ RecordPosition
  BY <1>3, QuietStep DEF Fail, RecordPosition, Stop, Leave, Goto, Idle, history, world, disk
<1>4. CASE Restart
  <2>1. /\ UNCHANGED <<command, now, journal, saved, submitted, key>> /\ pc' = "plan"
    BY <1>4 DEF Restart, Step, Goto, history, world, disk
  <2>2. WriteAhead'
    BY <2>1 DEF JournalInv, WriteAhead
  <2>. QED
    BY <2>1, <2>2 DEF JournalInv, Holding, Idle, Signing
<1>5. CASE Confirm(Fitting(chain)) \/ Replace \/ Drop \/ Give \/ Tick
  <2>1. UNCHANGED <<command, journal, saved, submitted, pc, key, record, due>> /\ now' \in Nat
    BY <1>5 DEF Confirm, Replace, Drop, Give, Tick, process, history, disk
  <2>. QED
    BY <2>1, QuietStep
<1>6. CASE Elsewhere
  <2>1. /\ submitted' = submitted \cup {[key |-> 0, nonce |-> Pending, due |-> None]}
        /\ UNCHANGED <<command, now, journal, saved, pc, key, record, due>>
    BY <1>6 DEF Elsewhere, process, disk
  <2>2. 0 \notin Keys
    BY HarnessAssumption DEF Keys
  <2>3. WriteAhead'
    BY <2>1, <2>2 DEF JournalInv, WriteAhead
  <2>4. Due(key)' = Due(key)
    BY <2>1 DEF Due
  <2>. QED
    BY <2>1, <2>3, <2>4 DEF JournalInv, Keys
<1>7. CASE UNCHANGED vars
  BY <1>7, QuietStep DEF vars, process, history, world, disk
<1>. QED
  BY <1>1, <1>2, <1>3, <1>4, <1>5, <1>6, <1>7 DEF Next, Run

LEMMA JournalInvariant == Spec => []JournalInv
<1>1. Init => JournalInv
  BY DEF Init, JournalInv, Holding, Signing, Idle, WriteAhead
<1>. QED
  BY <1>1, JournalStep, PTL DEF Spec

(* A crash at any point between signing, saving, sending and confirming    *)
(* leaves the journal with what the network was given.                     *)
THEOREM JournalIsWrittenAhead == Spec => []WriteAhead
<1>1. JournalInv => WriteAhead
  BY DEF JournalInv
<1>. QED
  BY <1>1, JournalInvariant, PTL

-----------------------------------------------------------------------------
(* The network below: what a client may conclude from a receipt and,       *)
(* later, the block at its height.  If the hashes agree the transaction is *)
(* in the chain of that moment, with the outcome of the receipt, whatever  *)
(* was mined and replaced in between.                                      *)

Outcomes == {"ok", "reverted"}

(* Hashes are those of blocks mined, and a transaction has one place.      *)
ChainInv ==
    /\ mined \in Nat
    /\ \E S : chain \in Seq(S)
    /\ \A i \in DOMAIN chain : chain[i].hash \in 1..mined
    /\ \A i \in DOMAIN chain : \A t \in DOMAIN chain[i].txs : chain[i].txs[t] \in Outcomes
    /\ \A i, j \in DOMAIN chain : \A t :
          t \in DOMAIN chain[i].txs /\ t \in DOMAIN chain[j].txs => i = j

(* The receipt r was the node's once: while its block is canonical it is   *)
(* what the chain says of t.                                               *)
Witnessed(r, t) ==
    /\ r.block \in 1..mined
    /\ Net!Canonical(r) => /\ t \in DOMAIN chain[r.height].txs
                         /\ chain[r.height].txs[t] = r.outcome

(* The chain keeps its first n blocks and gets one more, which holds one   *)
(* of the given sets of transactions.                                      *)
NewHead(n, fitting) ==
    /\ n \in Nat /\ 1..n \subseteq DOMAIN chain
    /\ Len(chain') = n + 1 /\ DOMAIN (chain') = 1..(n + 1)
    /\ \A i \in 1..n : (chain')[i] = chain[i]
    /\ DOMAIN (chain')[n + 1].txs \in fitting

LEMMA InitChain == Net!Init => ChainInv
<1>. SUFFICES ASSUME Net!Init PROVE ChainInv
  OBVIOUS
<1>1. chain = <<>> /\ mined = 0 /\ DOMAIN chain = {} /\ chain \in Seq({})
  BY EmptySeq DEF Net!Init
<1>. QED
  BY <1>1 DEF ChainInv

LEMMA ExtendChain ==
    ASSUME ChainInv, NEW parents, NEW fitting, Net!Extend(parents, fitting),
           \/ parents = chain
           \/ chain # <<>> /\ parents = SubSeq(chain, 1, Len(chain) - 1)
    PROVE  /\ ChainInv'
           /\ \A r, t : Witnessed(r, t) => Witnessed(r, t)'
           /\ NewHead(Len(parents), fitting)
<1>1. PICK S : chain \in Seq(S)
  BY DEF ChainInv
<1>2. PICK taken \in fitting : \E come \in [taken -> Outcomes] :
        /\ taken \cap Net!HeldBy(parents) = {}
        /\ chain' = Append(parents, [hash |-> mined + 1, txs |-> come])
  BY DEF Net!Extend, Outcomes
<1>3. PICK come \in [taken -> Outcomes] :
        /\ taken \cap Net!HeldBy(parents) = {}
        /\ chain' = Append(parents, [hash |-> mined + 1, txs |-> come])
  BY <1>2
<1>. DEFINE new == [hash |-> mined + 1, txs |-> come]
            n == Len(parents)
<1>4. /\ parents \in Seq(S) /\ n \in Nat /\ DOMAIN parents = 1..n
      /\ DOMAIN parents \subseteq DOMAIN chain
      /\ \A i \in DOMAIN parents : parents[i] = chain[i]
  <2>1. CASE parents = chain
    BY <1>1, <2>1
  <2>2. CASE chain # <<>> /\ parents = SubSeq(chain, 1, Len(chain) - 1)
    <3>1. Len(chain) \in Nat \ {0} /\ DOMAIN chain = 1..Len(chain)
      BY <1>1, <2>2, EmptySeq
    <3>2. Len(chain) - 1 \in 0..Len(chain)
      BY <3>1
    <3>3. /\ parents \in Seq(S) /\ Len(parents) = Len(chain) - 1
          /\ \A i \in 1..(Len(chain) - 1) : parents[i] = chain[i]
      <4>1. \A i \in 1..(Len(chain) - 1) : chain[i] \in S
        BY <1>1, <3>1
      <4>. DEFINE m == Len(chain) - 1
      <4>2. m \in Int /\ 1 \in Int /\ m - 1 + 1 = m /\ (IF 1 <= m THEN m - 1 + 1 ELSE 0) = m
        BY <3>1, <3>2
      <4>3. \A i \in 1..m : 1 + i - 1 = i
        BY <4>2
      <4>. HIDE DEF m
      <4>4. /\ SubSeq(chain, 1, m) \in Seq(S)
            /\ Len(SubSeq(chain, 1, m)) = IF 1 <= m THEN m - 1 + 1 ELSE 0
            /\ \A i \in 1..(m - 1 + 1) : SubSeq(chain, 1, m)[i] = chain[1 + i - 1]
        <5>1. \A i \in 1..m : chain[i] \in S
          BY <4>1 DEF m
        <5>. QED
          BY <4>2, <5>1, SubSeqProperties
      <4>. QED
        BY <2>2, <4>2, <4>3, <4>4 DEF m
    <3>4. DOMAIN parents = 1..Len(parents)
      BY <3>3
    <3>. QED
      BY <3>1, <3>2, <3>3, <3>4
  <2>. QED
    BY <2>1, <2>2
<1>5. /\ chain' \in Seq(S \cup {new}) /\ DOMAIN (chain') = 1..(n + 1)
      /\ Len(chain') = n + 1
      /\ \A i \in 1..n : (chain')[i] = parents[i]
      /\ (chain')[n + 1] = new
  <2>1. parents \in Seq(S \cup {new}) /\ new \in S \cup {new}
    BY <1>4
  <2>. HIDE DEF new
  <2>2. chain' = Append(parents, new)
    BY <1>3 DEF new
  <2>. QED
    BY <1>4, <2>1, <2>2, AppendProperties
<1>6. /\ mined \in Nat /\ mined' = mined + 1
      /\ new.hash = mined + 1 /\ DOMAIN new.txs = taken
      /\ \A t \in taken : new.txs[t] \in Outcomes
  BY <1>3 DEF Net!Extend, Outcomes, ChainInv
<1>7. \A i \in 1..(n + 1) : i \in 1..n \/ i = n + 1
  BY <1>4
<1>8. \A i \in 1..n : \A t : t \in DOMAIN parents[i].txs => t \notin taken
  BY <1>3, <1>4 DEF Net!HeldBy
<1>11. NewHead(Len(parents), fitting)
  <2>1. 1..n \subseteq DOMAIN chain /\ \A i \in 1..n : (chain')[i] = chain[i]
    BY <1>4, <1>5
  <2>2. DOMAIN (chain')[n + 1].txs \in fitting
    BY <1>5, <1>6
  <2>. QED
    BY <1>4, <1>5, <2>1, <2>2 DEF NewHead
<1>. HIDE DEF new, n
<1>9. ChainInv'
  <2>1. (\A i \in DOMAIN chain : chain[i].hash \in 1..mined)'
    <3>1. \A i \in 1..n : (chain')[i].hash \in 1..(mined + 1)
      <4>1. ASSUME NEW i \in 1..n PROVE (chain')[i].hash \in 1..(mined + 1)
        <5>1. (chain')[i] = chain[i] /\ i \in DOMAIN chain
          BY <1>4, <1>5
        <5>2. chain[i].hash \in 1..mined
          BY <5>1 DEF ChainInv
        <5>. QED
          BY <1>6, <5>1, <5>2
      <4>. QED
        BY <4>1
    <3>2. (chain')[n + 1].hash \in 1..(mined + 1)
      BY <1>5, <1>6
    <3>. QED
      BY <1>5, <1>6, <1>7, <3>1, <3>2
  <2>2. ASSUME NEW i \in 1..(n + 1), NEW j \in 1..(n + 1), NEW t,
               t \in DOMAIN (chain')[i].txs, t \in DOMAIN (chain')[j].txs
        PROVE  i = j
    <3>1. CASE i \in 1..n /\ j \in 1..n
      BY <1>4, <1>5, <2>2, <3>1 DEF ChainInv
    <3>2. CASE i = n + 1 \/ j = n + 1
      <4>1. i \in 1..n => t \notin taken
        BY <1>5, <1>8, <2>2
      <4>2. j \in 1..n => t \notin taken
        BY <1>5, <1>8, <2>2
      <4>3. i = n + 1 => t \in taken
        BY <1>5, <1>6, <2>2
      <4>4. j = n + 1 => t \in taken
        BY <1>5, <1>6, <2>2
      <4>. QED
        BY <1>7, <3>2, <4>1, <4>2, <4>3, <4>4
    <3>. QED
      BY <1>7, <3>1, <3>2
  <2>3. mined' \in Nat /\ (\E T : chain' \in Seq(T))
    BY <1>5, <1>6
  <2>4. (\A i \in DOMAIN chain : \A t \in DOMAIN chain[i].txs : chain[i].txs[t] \in Outcomes)'
    <3>1. ASSUME NEW i \in 1..n, NEW t \in DOMAIN (chain')[i].txs
          PROVE  (chain')[i].txs[t] \in Outcomes
      <4>1. (chain')[i] = chain[i] /\ i \in DOMAIN chain
        BY <1>4, <1>5
      <4>. QED
        BY <3>1, <4>1 DEF ChainInv
    <3>2. ASSUME NEW t \in DOMAIN (chain')[n + 1].txs PROVE (chain')[n + 1].txs[t] \in Outcomes
      BY <1>5, <1>6, <3>2
    <3>. QED
      BY <1>5, <1>7, <3>1, <3>2
  <2>. QED
    BY <1>5, <2>1, <2>2, <2>3, <2>4 DEF ChainInv
<1>10. ASSUME NEW r, NEW t, Witnessed(r, t) PROVE Witnessed(r, t)'
  <2>1. r.block \in 1..(mined + 1) /\ r.block # mined + 1
    BY <1>6, <1>10 DEF Witnessed
  <2>2. ASSUME r.height \in 1..(n + 1), (chain')[r.height].hash = r.block
        PROVE  /\ t \in DOMAIN (chain')[r.height].txs
               /\ (chain')[r.height].txs[t] = r.outcome
    <3>1. r.height \in 1..n
      BY <1>5, <1>6, <1>7, <2>1, <2>2
    <3>2. r.height \in DOMAIN chain /\ (chain')[r.height] = chain[r.height]
      BY <1>4, <1>5, <3>1
    <3>. QED
      BY <1>10, <2>2, <3>2 DEF Witnessed, Net!Canonical, Net!Known
  <2>. QED
    BY <1>5, <1>6, <2>1, <2>2 DEF Witnessed, Net!Canonical, Net!Known
<1>. QED
  BY <1>9, <1>10, <1>11

(* A block more or the head replaced.                                      *)
LEMMA BlockStep ==
    ASSUME ChainInv, NEW above, NEW instead, Net!Mine(above) \/ Net!Reorg(instead)
    PROVE  /\ ChainInv'
           /\ \A r, t : Witnessed(r, t) => Witnessed(r, t)'
BY ExtendChain DEF Net!Mine, Net!Reorg

LEMMA MineHead ==
    ASSUME ChainInv, NEW fitting, Net!Mine(fitting)
    PROVE  NewHead(Len(chain), fitting) /\ DOMAIN chain = 1..Len(chain)
<1>1. PICK S : chain \in Seq(S)
  BY DEF ChainInv
<1>. QED
  BY <1>1, ExtendChain DEF Net!Mine

LEMMA ReorgHead ==
    ASSUME ChainInv, NEW fitting, Net!Reorg(fitting)
    PROVE  NewHead(Len(SubSeq(chain, 1, Len(chain) - 1)), fitting)
BY ExtendChain DEF Net!Reorg

LEMMA SameChain ==
    ASSUME UNCHANGED <<chain, mined>>
    PROVE  /\ ChainInv => ChainInv'
           /\ \A r, t : Witnessed(r, t) => Witnessed(r, t)'
BY DEF ChainInv, Witnessed, Net!Canonical, Net!Known

(* What the node answers is a witness from then on.                        *)
LEMMA ReceiptIsWitnessed ==
    ASSUME ChainInv, NEW t, Net!InChain(t)
    PROVE  Witnessed(Net!Receipt(t), t)
<1>. DEFINE height == CHOOSE i \in DOMAIN chain : t \in DOMAIN chain[i].txs
<1>1. height \in DOMAIN chain /\ t \in DOMAIN chain[height].txs
  BY DEF Net!InChain, Net!HeldBy
<1>2. /\ Net!Receipt(t).block = chain[height].hash /\ Net!Receipt(t).height = height
      /\ Net!Receipt(t).outcome = chain[height].txs[t]
  BY DEF Net!Receipt
<1>. HIDE DEF height
<1>. QED
  BY <1>1, <1>2 DEF Witnessed, ChainInv

(* A canonical witness is the chain's own r.                         *)
LEMMA CanonicalIsInChain ==
    ASSUME ChainInv, NEW r, NEW t, Witnessed(r, t), Net!Canonical(r)
    PROVE  Net!InChain(t) /\ Net!Receipt(t).outcome = r.outcome /\ r.outcome \in Outcomes
<1>. DEFINE height == CHOOSE i \in DOMAIN chain : t \in DOMAIN chain[i].txs
<1>1. /\ r.height \in DOMAIN chain
      /\ t \in DOMAIN chain[r.height].txs
      /\ chain[r.height].txs[t] = r.outcome
  BY DEF Witnessed, Net!Canonical, Net!Known
<1>2. height \in DOMAIN chain /\ t \in DOMAIN chain[height].txs
  BY <1>1
<1>3. height = r.height
  BY <1>1, <1>2 DEF ChainInv
<1>4. Net!Receipt(t).outcome = chain[height].txs[t]
  BY DEF Net!Receipt
<1>. HIDE DEF height
<1>. QED
  BY <1>1, <1>3, <1>4 DEF Net!InChain, Net!HeldBy, ChainInv

-----------------------------------------------------------------------------
(* The receipt a process holds, and the chain of the moment it is checked. *)

WitnessInv ==
    /\ ChainInv
    /\ pc = "block" => Witnessed(receipt, Ours)

LEMMA SameNetwork ==
    ASSUME WitnessInv, UNCHANGED <<chain, mined>>
    PROVE  /\ ChainInv'
           /\ \A r, t : Witnessed(r, t) => Witnessed(r, t)'
BY SameChain DEF WitnessInv

LEMMA WitnessStep == WitnessInv /\ [Next]_vars => WitnessInv'
<1>. SUFFICES ASSUME WitnessInv, [Next]_vars PROVE WitnessInv'
  OBVIOUS
<1>1. CASE Confirm(Fitting(chain)) \/ Replace
  <2>1. PICK above, instead : Net!Mine(above) \/ Net!Reorg(instead)
    BY <1>1 DEF Confirm, Replace, Net!Mine, Net!Reorg, Net!Extend, Net!HeldBy
  <2>2. /\ ChainInv'
        /\ \A r, t : Witnessed(r, t) => Witnessed(r, t)'
    BY <2>1, BlockStep DEF WitnessInv
  <2>3. UNCHANGED <<command, pc, key, record, due, receipt>>
    BY <1>1 DEF Confirm, Replace, process
  <2>. QED
    BY <2>2, <2>3 DEF WitnessInv, Ours, Due
<1>2. CASE Wait
  <2>1. UNCHANGED <<chain, mined, command>>
    BY <1>2 DEF Wait, network, world
  <2>2. ASSUME pc' = "block" PROVE Witnessed(receipt, Ours)'
    <3>1. /\ Net!InChain(Ours) /\ receipt' = Net!Receipt(Ours)
          /\ UNCHANGED <<key, record, due>>
      BY <1>2, <2>2 DEF Wait, NextAttempt, Stop, Leave, Goto
    <3>2. Net!InChain(Ours) /\ Net!Receipt(Ours) = Net!Receipt(Ours)
      BY <3>1 DEF Net!InChain, Net!HeldBy, Net!Receipt
    <3>3. Witnessed(Net!Receipt(Ours), Ours)
      BY <3>2, ReceiptIsWitnessed DEF WitnessInv
    <3>. QED
      BY <2>1, <3>1, <3>2, <3>3
      DEF Ours, Due, Witnessed, Net!Canonical, Net!Known
  <2>. QED
    BY <2>1, <2>2, SameNetwork DEF WitnessInv
<1>3. CASE \/ Plan \/ Begin \/ Estimate \/ Sign \/ Observe \/ LookUp \/ Count \/ Broadcast
           \/ ReadBlock \/ RecordPosition \/ Fail \/ Restart
  <2>1. UNCHANGED <<chain, mined>>
    BY <1>3 DEF Plan, Begin, Estimate, Sign, SignWith, Observe, LookUp, Count, Broadcast,
                ReadBlock, RecordPosition, Fail, Restart, world, network
  <2>2. pc' # "block"
    BY <1>3 DEF Plan, Begin, Estimate, Sign, SignWith, Observe, LookUp, Count, Broadcast,
                ReadBlock, NextAttempt, RecordPosition, Fail, Restart, Goto, Step, Stop, Leave
  <2>. QED
    BY <2>1, <2>2, SameNetwork DEF WitnessInv
<1>4. CASE Drop \/ Elsewhere \/ Give \/ Tick \/ UNCHANGED vars
  <2>1. UNCHANGED <<chain, mined, command, pc, key, record, due, receipt>>
    BY <1>4 DEF Drop, Elsewhere, Give, Tick, vars, world, network, process
  <2>. QED
    BY <2>1, SameNetwork DEF WitnessInv, Ours, Due
<1>. QED
  BY <1>1, <1>2, <1>3, <1>4 DEF Next, Run

(* The command moves on in two places: past a write whose effect it reads, *)
(* and past one whose receipt agrees with the block just read.             *)
LEMMA VisibleStep ==
    ASSUME JournalInv, WitnessInv, [Next]_vars,
           key' = key + 1, key \notin plan, pc # "plan"
    PROVE  Visible(key)
<1>1. key \in Nat \ {0} /\ key # 0 /\ key' # key /\ key' # 1
  BY DEF JournalInv
<1>2. CASE Begin
  BY <1>1, <1>2 DEF Begin, LeftOut, Step, Leave, Stop
<1>3. CASE ReadBlock
  <2>1. pc = "block" /\ Matches /\ receipt.outcome = "ok"
    BY <1>1, <1>3 DEF ReadBlock, NextAttempt, Stop, Leave
  <2>2. Witnessed(receipt, Ours) /\ Net!Canonical(receipt)
    BY <2>1 DEF WitnessInv, Matches, Net!Canonical, Net!Known
  <2>3. /\ receipt.height \in DOMAIN chain
        /\ Ours \in DOMAIN chain[receipt.height].txs
        /\ chain[receipt.height].txs[Ours] = "ok"
    BY <2>1, <2>2 DEF Witnessed, Net!Canonical, Net!Known
  <2>4. Ours.key = key
    BY DEF Ours
  <2>. QED
    BY <2>3, <2>4 DEF Visible, There, VisibleIn
<1>4. CASE \/ Estimate \/ Sign \/ Observe \/ LookUp \/ Count \/ Broadcast \/ Wait
           \/ RecordPosition \/ Fail \/ Restart
  BY <1>1, <1>4 DEF Estimate, Sign, SignWith, Observe, LookUp, Count, Broadcast, Wait, NextAttempt,
                    RecordPosition, Fail, Restart, Step, Stop, Leave
<1>5. CASE \/ Confirm(Fitting(chain)) \/ Replace \/ Drop \/ Elsewhere \/ Give \/ Tick
           \/ UNCHANGED vars
  BY <1>1, <1>5 DEF Confirm, Replace, Drop, Elsewhere, Give, Tick, vars, process
<1>6. CASE Plan
  BY <1>6 DEF Plan
<1>. QED
  BY <1>2, <1>3, <1>4, <1>5, <1>6 DEF Next, Run

-----------------------------------------------------------------------------
(* A write takes effect only on top of those before it, so the chain that  *)
(* shows one shows them all, whatever was replaced below it and whichever  *)
(* of them others have made.                                               *)

OkIn(block, j) == \E t \in DOMAIN block.txs : t.key = j /\ block.txs[t] = "ok"

ReachedAt(i, k) == \A j \in 1..(k - 1) : j \in given \/ \E h \in 1..i : OkIn(chain[h], j)

OrderInv ==
    /\ given \subseteq Nat /\ \A t \in pool : t.key \in Nat
    /\ \A k \in given : Reached(k, chain, given)
    /\ \A i \in DOMAIN chain : \A t \in DOMAIN chain[i].txs :
          t.key \in Nat /\ (chain[i].txs[t] = "ok" => ReachedAt(i, t.key))

LEMMA OkIsVisible ==
    ASSUME NEW STATE blocks, NEW j
    PROVE  VisibleIn(blocks, j) <=> \E h \in DOMAIN blocks : OkIn(blocks[h], j)
BY DEF VisibleIn, OkIn

LEMMA Earlier == ASSUME NEW k \in Nat, NEW j \in 1..(k - 1) PROVE 1..(j - 1) \subseteq 1..(k - 1)
OBVIOUS

(* A new block on top of n blocks of the chain.  What others made is kept  *)
(* if what it needs is there.                                              *)
LEMMA HeadStep ==
    ASSUME OrderInv, NEW fitting \in SUBSET SUBSET pool, NEW n, NewHead(n, fitting),
           given' \subseteq given, Executed(chain', given'), pool' = pool,
           \A k \in given : k \in given' <=> Reached(k, chain', given)
    PROVE  OrderInv'
<1>. DEFINE new == chain'
<1>1. /\ n \in Nat /\ 1..n \subseteq DOMAIN chain /\ DOMAIN new = 1..(n + 1) /\ Len(new) = n + 1
      /\ \A i \in 1..n : new[i] = chain[i]
      /\ DOMAIN new[n + 1].txs \subseteq pool
  BY DEF NewHead
<1>2. \A i \in 1..(n + 1) : (i \in 1..n /\ 1..i \subseteq 1..n) \/ i = n + 1
  BY <1>1
<1>3. ASSUME NEW k \in Nat, Reached(k, new, given) PROVE Reached(k, new, given')
  <2>1. ASSUME NEW j \in 1..(k - 1), j \in given PROVE j \in given'
    <3>1. Reached(j, new, given)
      BY <1>3, Earlier DEF Reached
    <3>. QED
      BY <2>1, <3>1
  <2>. QED
    BY <1>3, <2>1 DEF Reached, There
<1>4. given' \subseteq Nat /\ \A t \in pool' : t.key \in Nat
  BY DEF OrderInv
<1>5. ASSUME NEW k \in given' PROVE Reached(k, new, given')
  <2>1. k \in Nat /\ Reached(k, new, given)
    BY <1>4
  <2>. QED
    BY <1>3, <2>1
<1>6. ASSUME NEW i \in 1..n, NEW t \in DOMAIN new[i].txs
      PROVE  t.key \in Nat /\ (new[i].txs[t] = "ok" => ReachedAt(i, t.key)')
  <2>1. new[i] = chain[i] /\ i \in DOMAIN chain /\ 1..i \subseteq 1..n
    BY <1>1
  <2>2. t.key \in Nat /\ (chain[i].txs[t] = "ok" => ReachedAt(i, t.key))
    BY <2>1 DEF OrderInv
  <2>3. ASSUME ReachedAt(i, t.key) PROVE ReachedAt(i, t.key)'
    <3>1. \A h \in 1..i : new[h] = chain[h] /\ h \in DOMAIN new
      BY <1>1, <2>1
    <3>2. Reached(t.key, new, given)
      BY <2>3, <3>1, OkIsVisible DEF ReachedAt, Reached, There, VisibleIn, OkIn
    <3>3. Reached(t.key, new, given')
      BY <1>3, <2>2, <3>2
    <3>4. ASSUME NEW j \in 1..(t.key - 1), j \in given PROVE j \in given'
      <4>1. Reached(j, new, given)
        BY <2>2, <3>2, Earlier DEF Reached
      <4>. QED
        BY <3>4, <4>1
    <3>. QED
      BY <2>3, <3>1, <3>4 DEF ReachedAt, OkIn
  <2>. QED
    BY <2>1, <2>2, <2>3
<1>7. ASSUME NEW t \in DOMAIN new[n + 1].txs
      PROVE  t.key \in Nat /\ (new[n + 1].txs[t] = "ok" => ReachedAt(n + 1, t.key)')
  <2>1. t.key \in Nat
    BY <1>1 DEF OrderInv
  <2>2. ASSUME new[n + 1].txs[t] = "ok" PROVE ReachedAt(n + 1, t.key)'
    <3>1. Succeeds(t, new, given')
      BY <1>1, <2>2 DEF Executed
    <3>2. t.key = 0 \/ Reached(t.key, new, given')
      BY <3>1 DEF Succeeds
    <3>3. CASE t.key = 0
      BY <3>3 DEF ReachedAt
    <3>4. CASE Reached(t.key, new, given')
      BY <1>1, <3>4 DEF Reached, There, VisibleIn, ReachedAt, OkIn
    <3>. QED
      BY <3>2, <3>3, <3>4
  <2>. QED
    BY <2>1, <2>2
<1>. QED
  BY <1>1, <1>2, <1>4, <1>5, <1>6, <1>7 DEF OrderInv

LEMMA SameOrder ==
    ASSUME OrderInv, UNCHANGED <<chain, given>>, \A t \in pool' : t.key \in Nat
    PROVE  OrderInv'
BY DEF OrderInv, Reached, There, VisibleIn, ReachedAt, OkIn

LEMMA OrderStep == JournalInv /\ WitnessInv /\ OrderInv /\ [Next]_vars => OrderInv'
<1>. SUFFICES ASSUME JournalInv, WitnessInv, OrderInv, [Next]_vars PROVE OrderInv'
  OBVIOUS
<1>. ChainInv
  BY DEF WitnessInv
<1>1. CASE Confirm(Fitting(chain))
  <2>1. Net!Mine(Fitting(chain))
    BY <1>1 DEF Confirm, Net!Mine, Net!Extend, Net!HeldBy
  <2>2. NewHead(Len(chain), Fitting(chain)) /\ DOMAIN chain = 1..Len(chain)
    BY <2>1, MineHead
  <2>3. Fitting(chain) \subseteq SUBSET pool
    BY DEF Fitting
  <2>4. given' = given /\ pool' = pool /\ Executed(chain', given')
    BY <1>1 DEF Confirm, Net!Mine
  <2>5. ASSUME NEW k \in given PROVE Reached(k, chain', given)
    <3>1. Reached(k, chain, given)
      BY DEF OrderInv
    <3>2. \A h \in DOMAIN chain : h \in DOMAIN (chain') /\ (chain')[h] = chain[h]
      BY <2>2 DEF NewHead
    <3>. QED
      BY <3>1, <3>2 DEF Reached, There, VisibleIn
  <2>. QED
    BY <2>2, <2>3, <2>4, <2>5, HeadStep
<1>2. CASE Replace
  <2>. DEFINE instead == Fitting(SubSeq(chain, 1, Len(chain) - 1))
  <2>1. Net!Reorg(instead)
    BY <1>2 DEF Replace, Net!Reorg, Net!Extend, Net!HeldBy
  <2>2. NewHead(Len(SubSeq(chain, 1, Len(chain) - 1)), instead)
    BY <2>1, ReorgHead
  <2>3. instead \subseteq SUBSET pool
    BY DEF Fitting
  <2>4. /\ pool' = pool /\ Executed(chain', given')
        /\ given' = {k \in given : Reached(k, chain', given)}
    BY <1>2 DEF Replace, Net!Reorg
  <2>. HIDE DEF instead
  <2>. QED
    BY <2>2, <2>3, <2>4, HeadStep
<1>3. CASE Give
  <2>1. PICK k \in command.open :
            Reached(k, chain, given) /\ given' = given \cup {k}
    BY <1>3 DEF Give
  <2>2. k \in Nat
    BY HarnessAssumption DEF JournalInv
  <2>3. UNCHANGED <<pool, chain>>
    BY <1>3 DEF Give, network
  <2>4. ASSUME NEW m, Reached(m, chain, given) PROVE Reached(m, chain, given)'
    BY <2>1, <2>3, <2>4 DEF Reached, There, VisibleIn
  <2>5. ASSUME NEW i \in DOMAIN chain, NEW m, ReachedAt(i, m) PROVE ReachedAt(i, m)'
    BY <2>1, <2>3, <2>5 DEF ReachedAt
  <2>. QED
    BY <2>1, <2>2, <2>3, <2>4, <2>5 DEF OrderInv
<1>4. CASE Broadcast \/ Elsewhere
  <2>1. /\ UNCHANGED <<chain, given>>
        /\ \/ pool' = pool \cup {Ours}
           \/ pool' = pool \cup {[key |-> 0, nonce |-> Pending, due |-> None]}
    BY <1>4 DEF Broadcast, Elsewhere, Net!Submit
  <2>2. Ours.key \in Nat
    BY DEF Ours, JournalInv
  <2>. QED
    BY <2>1, <2>2, SameOrder DEF OrderInv
<1>5. CASE \/ Plan \/ Begin \/ Estimate \/ Sign \/ Observe \/ LookUp \/ Count \/ Wait
           \/ ReadBlock \/ RecordPosition \/ Fail \/ Restart \/ Drop \/ Tick \/ UNCHANGED vars
  <2>1. UNCHANGED <<chain, given>> /\ pool' \subseteq pool
    BY <1>5 DEF Plan, Begin, Estimate, Sign, SignWith, Observe, LookUp, Count, Wait,
                ReadBlock, RecordPosition, Fail, Restart, Drop, Tick, vars, world, network
  <2>. QED
    BY <2>1, SameOrder DEF OrderInv
<1>. QED
  BY <1>1, <1>2, <1>3, <1>4, <1>5 DEF Next, Run

LEMMA AllVisible ==
    ASSUME WitnessInv, OrderInv, NEW k \in Nat, Visible(k)
    PROVE  \A j \in 1..k : Visible(j)
<1>1. \A j \in 1..k : j = k \/ j \in 1..(k - 1)
  OBVIOUS
<1>2. CASE k \in given
  BY <1>1, <1>2 DEF OrderInv, Reached, Visible
<1>3. CASE VisibleIn(chain, k)
  <2>1. PICK i \in DOMAIN chain : OkIn(chain[i], k)
    BY <1>3, OkIsVisible
  <2>2. ReachedAt(i, k)
    BY <2>1 DEF OrderInv, OkIn
  <2>3. 1..i \subseteq DOMAIN chain
    BY DEF WitnessInv, ChainInv
  <2>. QED
    BY <1>1, <1>3, <2>2, <2>3 DEF ReachedAt, OkIn, Visible, There, VisibleIn
<1>. QED
  BY <1>2, <1>3 DEF Visible, There

(* Whatever is mined and replaced between a receipt and its block, and     *)
(* since the plan was made, a write that the plan does not leave out is    *)
(* left behind only when the chain of that moment has its effect and those *)
(* of all before it, the ones the plan left out included.                  *)
THEOREM WritesAreVisible == Spec => VerifiedBeforeNext
<1>1. Init => WitnessInv
  BY InitChain DEF Init, Net!Init, WitnessInv
<1>2. Init => OrderInv
  BY DEF Init, Net!Init, OrderInv
<1>3. JournalInv /\ WitnessInv /\ OrderInv /\ [Next]_vars
        => (key' = key + 1 /\ key \notin plan /\ pc # "plan" => \A k \in 1..key : Visible(k))
  BY VisibleStep, AllVisible DEF JournalInv
<1>4. UNCHANGED vars => UNCHANGED key
  BY DEF vars, process
<1>. QED
  BY <1>1, <1>2, <1>3, <1>4, JournalInvariant, WitnessStep, OrderStep, PTL
  DEF Spec, VerifiedBeforeNext

-----------------------------------------------------------------------------
(* Nonces.                                                                 *)

NoncesOf(txs) == {t.nonce : t \in txs}

(* What the first n blocks hold.                                           *)
HeldUpTo(n) == UNION {DOMAIN chain[i].txs : i \in 1..n}

(* Blocks take pooled transactions, and their nonces in order.             *)
Packed(n) ==
    /\ HeldUpTo(n) \subseteq pool
    /\ NoncesOf(HeldUpTo(n)) = 0..(Cardinality(HeldUpTo(n)) - 1)

PackedInv == IsFiniteSet(pool) /\ \A n \in 0..Len(chain) : Packed(n)

(* Nothing that was on the network, or made by others, was taken back.     *)
Undisturbed == events \cap {"forgotten", "withdrawn"} = {}

(* The write was given to the network.                                     *)
Sent(k) == \E t \in submitted : t.key = k

(* What a run may have passed: nothing of it is sent any more.             *)
Settled(k) == Sent(k) \/ (k \in given /\ k \in command.planned \cup command.probed)

(* A later write has a nonce already.                                      *)
Competes(k) == \E c \in DOMAIN journal : c > k

(* Between runs nothing is planned.                                        *)
NonceLocals ==
    /\ DOMAIN journal \subseteq Keys
    /\ plan \subseteq command.planned
    /\ pc \in Idle => key = 1 /\ plan = {}

(* Nonces are given without a gap, and a journaled one is the next at most.*)
GaplessInv ==
    /\ submitted = pool
    /\ \E m \in Nat : /\ NoncesOf(pool) = 0..(m - 1)
                      /\ \A k \in DOMAIN journal : journal[k].nonce \in 0..m

(* What has a later write in the journal, and what a run has passed, is    *)
(* never sent again with a nonce that was not used before.                 *)
PassedInv ==
    /\ \A k \in plan : Sent(k) \/ k \in given
    /\ \A k \in Keys : Competes(k) => Settled(k)
    /\ pc \notin Idle =>
          /\ \/ \A k \in 1..(key - 1) : Settled(k)
             \/ key >= Steps /\ Steps \in DOMAIN journal
          /\ \A k \in Keys : k >= key /\ Competes(k) =>
                Sent(k) \/ k \in plan \/ (k \in command.probed /\ k \in given)
    /\ pc \in Signing \cup Holding => Sent(key) \/ ~Competes(key)

InOrderInv ==
    \A j, k \in DOMAIN journal : j < k => journal[j].nonce < journal[k].nonce \/ ~Sent(j)

NoncesInv == GaplessInv /\ PassedInv /\ InOrderInv

LEMMA FewerNonces ==
    ASSUME NEW txs, IsFiniteSet(txs)
    PROVE  IsFiniteSet(NoncesOf(txs)) /\ Cardinality(NoncesOf(txs)) <= Cardinality(txs)
<1>. DEFINE f == [t \in txs |-> t.nonce]
<1>1. f \in Surjection(txs, NoncesOf(txs))
  BY DEF Surjection, NoncesOf
<1>. QED
  BY <1>1, FS_Surjection

LEMMA HeldIsAll ==
    ASSUME WitnessInv
    PROVE  /\ Len(chain) \in Nat /\ DOMAIN chain = 1..Len(chain)
           /\ Net!HeldBy(chain) = HeldUpTo(Len(chain))
<1>1. \E S : chain \in Seq(S)
  BY DEF WitnessInv, ChainInv
<1>2. Len(chain) \in Nat /\ DOMAIN chain = 1..Len(chain)
  BY <1>1
<1>. QED
  BY <1>2 DEF Net!HeldBy, HeldUpTo

(* What may be mined next is what has the next nonces; so the nonces of    *)
(* every part of the chain from its start on have no gap.                  *)
LEMMA HeadPacked ==
    ASSUME PackedInv, WitnessInv, WitnessInv', pool' = pool, NEW n, NEW blocks,
           Net!HeldBy(blocks) = HeldUpTo(n), NewHead(n, Fitting(blocks))
    PROVE  PackedInv'
<1>. DEFINE taken == DOMAIN (chain')[n + 1].txs
            held == HeldUpTo(n)
            c == Cardinality(held)
            d == Cardinality(taken)
<1>1. /\ n \in Nat /\ n \in 0..Len(chain)
      /\ Len(chain') = n + 1
      /\ \A i \in 1..n : (chain')[i] = chain[i]
      /\ taken \in Fitting(blocks)
  <2>1. 1..n \subseteq 1..Len(chain) /\ n \in Nat /\ Len(chain) \in Nat
    BY HeldIsAll DEF NewHead
  <2>2. n <= Len(chain)
    BY <2>1
  <2>. QED
    BY <2>1, <2>2 DEF NewHead
<1>2. ASSUME NEW m \in 0..n PROVE HeldUpTo(m)' = HeldUpTo(m)
  <2>1. \A i \in 1..m : i \in 1..n
    BY <1>1
  <2>. QED
    BY <1>1, <2>1 DEF HeldUpTo
<1>3. HeldUpTo(n + 1)' = held \cup taken
  <2>1. \A i : i \in 1..(n + 1) <=> i \in 1..n \/ i = n + 1
    BY <1>1
  <2>. QED
    BY <1>1, <2>1 DEF HeldUpTo
<1>4. taken \subseteq pool /\ NoncesOf(taken) = c..(c + d - 1)
  BY <1>1 DEF Fitting, Used, NoncesOf
<1>5. held \subseteq pool /\ NoncesOf(held) = 0..(c - 1)
  BY <1>1 DEF PackedInv, Packed
<1>13. c = Cardinality(held) /\ d = Cardinality(taken)
  OBVIOUS
<1>. HIDE DEF taken, held, c, d
<1>6. /\ IsFiniteSet(taken) /\ IsFiniteSet(held) /\ c \in Nat /\ d \in Nat
  BY <1>4, <1>5, <1>13, FS_Subset, FS_CardinalityType DEF PackedInv
<1>7. held \cap taken = {}
  <2>1. \A t \in held : t.nonce \in 0..(c - 1)
    BY <1>5 DEF NoncesOf
  <2>2. \A t \in taken : t.nonce \in c..(c + d - 1)
    BY <1>4 DEF NoncesOf
  <2>3. \A x \in 0..(c - 1) : x \notin c..(c + d - 1)
    BY <1>6
  <2>. QED
    BY <2>1, <2>2, <2>3
<1>8. Cardinality(held \cup taken) = c + d
  <2>1. Cardinality(held \cap taken) = 0
    BY <1>7, FS_EmptySet
  <2>. QED
    <3>1. Cardinality(held \cup taken)
            = Cardinality(held) + Cardinality(taken) - Cardinality(held \cap taken)
      BY <1>6, FS_Union
    <3>. QED
      BY <1>6, <1>13, <2>1, <3>1
<1>9. NoncesOf(held \cup taken) = 0..(Cardinality(held \cup taken) - 1)
  <2>1. NoncesOf(held \cup taken) = NoncesOf(held) \cup NoncesOf(taken)
    BY DEF NoncesOf
  <2>2. ASSUME NEW x, x = c + d PROVE 0..(c - 1) \cup c..(c + d - 1) = 0..(x - 1)
    BY <1>6, <2>2
  <2>. QED
    BY <1>4, <1>5, <1>8, <2>1, <2>2
<1>10. Packed(n + 1)'
  <2>1. held \cup taken \subseteq pool'
    BY <1>4, <1>5
  <2>3. Packed(n + 1)' <=> /\ HeldUpTo(n + 1)' \subseteq pool'
                           /\ NoncesOf(HeldUpTo(n + 1)') = 0..(Cardinality(HeldUpTo(n + 1)') - 1)
    BY DEF Packed, NoncesOf
  <2>. QED
    BY <1>3, <1>9, <2>1, <2>3
<1>11. \A m \in 0..n : Packed(m)'
  <2>1. ASSUME NEW m \in 0..n PROVE Packed(m)'
    <3>1. m \in 0..Len(chain)
      BY <1>1, HeldIsAll
    <3>2. Packed(m)
      BY <3>1 DEF PackedInv
    <3>. QED
      BY <1>2, <3>2 DEF Packed
  <2>. QED
    BY <2>1
<1>12. \A m \in 0..(n + 1) : m \in 0..n \/ m = n + 1
  BY <1>1
<1>. QED
  BY <1>1, <1>10, <1>11, <1>12 DEF PackedInv

LEMMA SamePacked ==
    ASSUME PackedInv, UNCHANGED chain, IsFiniteSet(pool'),
           \A n \in 0..Len(chain) : HeldUpTo(n) \subseteq pool'
    PROVE  PackedInv'
BY DEF PackedInv, Packed, HeldUpTo

LEMMA PackedStep ==
    JournalInv /\ WitnessInv /\ PackedInv /\ [Next]_vars => PackedInv'
<1>. SUFFICES ASSUME JournalInv, WitnessInv, PackedInv, [Next]_vars PROVE PackedInv'
  OBVIOUS
<1>. WitnessInv' /\ ChainInv
  BY WitnessStep DEF WitnessInv
<1>1. CASE Confirm(Fitting(chain))
  <2>1. Net!Mine(Fitting(chain)) /\ pool' = pool
    BY <1>1 DEF Confirm, Net!Mine, Net!Extend, Net!HeldBy
  <2>2. NewHead(Len(chain), Fitting(chain))
    BY <2>1, MineHead
  <2>. QED
    BY <2>1, <2>2, HeldIsAll, HeadPacked
<1>2. CASE Replace
  <2>. DEFINE parents == SubSeq(chain, 1, Len(chain) - 1)
  <2>1. Net!Reorg(Fitting(parents)) /\ pool' = pool /\ chain # <<>>
    BY <1>2 DEF Replace, Net!Reorg, Net!Extend, Net!HeldBy
  <2>2. NewHead(Len(parents), Fitting(parents))
    BY <2>1, ReorgHead
  <2>3. Net!HeldBy(parents) = HeldUpTo(Len(parents))
    <3>1. PICK S : chain \in Seq(S)
      BY DEF ChainInv
    <3>2. /\ DOMAIN parents = 1..Len(parents)
          /\ \A i \in 1..Len(parents) : parents[i] = chain[i]
      <4>. DEFINE m == Len(chain) - 1
      <4>1. Len(chain) \in Nat /\ DOMAIN chain = 1..Len(chain) /\ Len(chain) # 0
        BY <2>1, <3>1, EmptySeq
      <4>2. m \in Nat /\ \A i \in 1..m : chain[i] \in S
        BY <3>1, <4>1
      <4>3. m \in Int /\ 1 \in Int /\ m - 1 + 1 = m /\ (IF 1 <= m THEN m - 1 + 1 ELSE 0) = m
        <5>1. \A x \in Nat : x \in Int /\ x - 1 + 1 = x /\ (IF 1 <= x THEN x - 1 + 1 ELSE 0) = x
          OBVIOUS
        <5>2. m \in Nat
          BY <4>2
        <5>. HIDE DEF m
        <5>. QED
          BY <5>1, <5>2
      <4>4. \A i \in 1..m : 1 + i - 1 = i /\ i \in 1..(m - 1 + 1)
        BY <4>2, <4>3
      <4>7. parents = SubSeq(chain, 1, m)
        OBVIOUS
      <4>. HIDE DEF m, parents
      <4>5. /\ SubSeq(chain, 1, m) \in Seq(S)
            /\ Len(SubSeq(chain, 1, m)) = IF 1 <= m THEN m - 1 + 1 ELSE 0
            /\ \A i \in 1..(m - 1 + 1) : SubSeq(chain, 1, m)[i] = chain[1 + i - 1]
        BY <4>2, <4>3, SubSeqProperties
      <4>6. DOMAIN SubSeq(chain, 1, m) = 1..Len(SubSeq(chain, 1, m))
        BY <4>5
      <4>. QED
        BY <4>3, <4>4, <4>5, <4>6, <4>7
    <3>. QED
      BY <3>2 DEF Net!HeldBy, HeldUpTo
  <2>4. PICK n, blocks : Net!HeldBy(blocks) = HeldUpTo(n) /\ NewHead(n, Fitting(blocks))
    BY <2>2, <2>3
  <2>5. pool' = pool
    BY <2>1
  <2>. QED
    BY ONLY PackedInv, WitnessInv, WitnessInv', <2>4, <2>5, HeadPacked
<1>3. CASE Drop
  <2>1. PICK t \in pool : ~Net!InChain(t) /\ pool' = pool \ {t} /\ chain' = chain
    BY <1>3 DEF Drop
  <2>2. \A n \in 0..Len(chain) : HeldUpTo(n) \subseteq HeldUpTo(Len(chain))
    BY HeldIsAll DEF HeldUpTo
  <2>3. \A n \in 0..Len(chain) : t \notin HeldUpTo(n)
    BY <2>1, <2>2, HeldIsAll DEF Net!InChain
  <2>4. IsFiniteSet(pool')
    BY <2>1, FS_RemoveElement DEF PackedInv
  <2>. QED
    BY <2>1, <2>3, <2>4, SamePacked DEF PackedInv, Packed
<1>4. CASE Broadcast \/ Elsewhere
  <2>1. chain' = chain /\ \E t : pool' = pool \cup {t}
    BY <1>4 DEF Broadcast, Elsewhere, Net!Submit
  <2>2. IsFiniteSet(pool')
    BY <2>1, FS_AddElement DEF PackedInv
  <2>. QED
    BY <2>1, <2>2, SamePacked DEF PackedInv, Packed
<1>5. CASE \/ Plan \/ Begin \/ Estimate \/ Sign \/ Observe \/ LookUp \/ Count \/ Wait
           \/ ReadBlock \/ RecordPosition \/ Fail \/ Restart \/ Give \/ Tick \/ UNCHANGED vars
  <2>1. UNCHANGED <<chain, pool>>
    BY <1>5 DEF Plan, Begin, Estimate, Sign, SignWith, Observe, LookUp, Count, Wait,
                ReadBlock, RecordPosition, Fail, Restart, Give, Tick, vars, world, network
  <2>. QED
    BY <2>1, SamePacked DEF PackedInv, Packed
<1>. QED
  BY <1>1, <1>2, <1>3, <1>4, <1>5 DEF Next, Run

(* The next nonce of the account is the first that nothing pending has:    *)
(* none that was ever given to the network, as long as it keeps them all.  *)
LEMMA PendingIsNext ==
    ASSUME WitnessInv, PackedInv, NEW m \in Nat, NoncesOf(pool) = 0..(m - 1)
    PROVE  Pending = m
<1>. DEFINE Next1(n) == /\ \A i \in Latest..(n - 1) : \E t \in pool : t.nonce = i
                        /\ ~\E t \in pool : t.nonce = n
            Range1 == Latest..(Latest + Cardinality(pool))
<1>1. \A i : (\E t \in pool : t.nonce = i) <=> i \in 0..(m - 1)
  BY DEF NoncesOf
<1>2. Cardinality(pool) \in Nat /\ m <= Cardinality(pool)
  <2>1. Cardinality(pool) \in Nat /\ Cardinality(0..(m - 1)) <= Cardinality(pool)
    BY FewerNonces, FS_CardinalityType DEF PackedInv
  <2>2. Cardinality(0..(m - 1)) = m
    BY FS_Interval
  <2>. QED
    BY <2>1, <2>2
<1>3. Latest \in 0..m
  <2>. DEFINE held == HeldUpTo(Len(chain))
  <2>1. /\ Latest = Cardinality(held) /\ held \subseteq pool
        /\ NoncesOf(held) = 0..(Cardinality(held) - 1)
    BY HeldIsAll DEF PackedInv, Packed, Latest, Used
  <2>. HIDE DEF held
  <2>2. Cardinality(held) \in Nat
    BY <2>1, FS_Subset, FS_CardinalityType DEF PackedInv
  <2>3. 0..(Cardinality(held) - 1) \subseteq 0..(m - 1)
    <3>1. NoncesOf(held) \subseteq NoncesOf(pool)
      BY <2>1 DEF NoncesOf
    <3>. QED
      BY <2>1, <3>1
  <2>4. PICK c \in Nat : c = Cardinality(held) /\ 0..(c - 1) \subseteq 0..(m - 1)
    BY <2>2, <2>3
  <2>5. CASE c = 0
    BY <2>1, <2>4, <2>5
  <2>6. CASE c # 0
    <3>1. c - 1 \in 0..(c - 1)
      BY <2>6
    <3>. QED
      BY <2>1, <2>4, <3>1
  <2>. QED
    BY <2>5, <2>6
<1>4. m \in Range1 /\ Next1(m)
  <2>1. m \in Range1
    BY <1>2, <1>3
  <2>2. \A i \in Latest..(m - 1) : i \in 0..(m - 1)
    BY <1>3
  <2>3. m \notin 0..(m - 1)
    OBVIOUS
  <2>. QED
    BY <1>1, <2>1, <2>2, <2>3
<1>5. ASSUME NEW n \in Range1, Next1(n) PROVE n = m
  <2>1. n \notin 0..(m - 1)
    BY <1>1, <1>5
  <2>2. n \in Nat /\ ~(n < m)
    BY <1>2, <1>3, <1>5, <2>1
  <2>3. m \notin 0..(m - 1)
    OBVIOUS
  <2>4. m \notin Latest..(n - 1)
    BY <1>1, <1>5, <2>3
  <2>. QED
    BY <1>3, <2>2, <2>4
<1>6. Pending = CHOOSE n \in Range1 : Next1(n)
  BY DEF Pending
<1>. HIDE DEF Next1, Range1
<1>. QED
  BY <1>4, <1>5, <1>6

-----------------------------------------------------------------------------

LEMMA LocalsStep == JournalInv /\ NonceLocals /\ [Next]_vars => NonceLocals'
<1>. SUFFICES ASSUME JournalInv, NonceLocals, [Next]_vars PROVE NonceLocals'
  OBVIOUS
<1>1. CASE Sign
  <2>1. /\ pc = "sign" /\ pc' = "observe" /\ journal' = Journaled(Pending, None)
        /\ UNCHANGED <<command, plan>>
    BY <1>1 DEF Sign, SignWith, Goto, world
  <2>2. key \in Keys
    BY <2>1 DEF JournalInv, Signing
  <2>. QED
    BY <2>1, <2>2, JournaledEntry DEF NonceLocals, Idle, Keys
<1>2. CASE ReadBlock
  <2>1. pc = "block" /\ key \in DOMAIN journal
    BY <1>2 DEF ReadBlock, JournalInv, Holding
  <2>2. /\ command' = command
        /\ journal' = journal \/ journal' = Journaled(record, receipt.block)
        /\ \/ pc' \in {"begin", "wait"} /\ plan' = plan
           \/ pc' = "stopped" /\ key' = 1 /\ plan' = {}
    BY <1>2 DEF ReadBlock, NextAttempt, Stop, Leave, Goto
  <2>3. DOMAIN (journal') = DOMAIN journal
    BY <2>1, <2>2, JournaledEntry
  <2>. QED
    BY <2>2, <2>3 DEF NonceLocals, Idle, Keys
<1>3. CASE Plan \/ Begin \/ Estimate \/ RecordPosition \/ Fail
  <2>1. /\ UNCHANGED <<command, journal>>
        /\ \/ plan' = plan /\ pc' \in {"begin", "estimate", "sign", "observe", "wait", "record"}
           \/ pc' = "begin" /\ plan' \subseteq command.planned
           \/ pc' \in {"stopped", "done"} /\ key' = 1 /\ plan' = {}
    BY <1>3 DEF Plan, Begin, Estimate, RecordPosition, Fail, Goto, Step, Stop, Leave, disk
  <2>. QED
    BY <2>1 DEF NonceLocals, Idle, Keys
<1>4. CASE Observe \/ LookUp \/ Count \/ Wait \/ Broadcast
  <2>1. /\ UNCHANGED <<command, journal>>
        /\ \/ plan' = plan /\ pc' \in {"lookup", "count", "send", "wait", "block"}
           \/ pc' \in {"stopped", "done"} /\ key' = 1 /\ plan' = {}
    BY <1>4 DEF Observe, LookUp, Count, Wait, Broadcast, NextAttempt, Goto, Step, Stop, Leave, disk
  <2>. QED
    BY <2>1 DEF NonceLocals, Idle, Keys
<1>5. CASE Restart
  <2>1. /\ UNCHANGED <<command, journal, key, plan>> /\ pc \in Idle
    BY <1>5 DEF Restart, Ended, Step, Goto, disk, Idle
  <2>. QED
    BY <2>1 DEF NonceLocals, Keys
<1>6. CASE Confirm(Fitting(chain)) \/ Replace \/ Drop \/ Elsewhere \/ Give \/ Tick \/ UNCHANGED vars
  <2>1. UNCHANGED <<command, journal, pc, key, plan>>
    BY <1>6 DEF Confirm, Replace, Drop, Elsewhere, Give, Tick, vars, process, disk
  <2>. QED
    BY <2>1 DEF NonceLocals, Keys
<1>. QED
  BY <1>1, <1>2, <1>3, <1>4, <1>5, <1>6 DEF Next, Run

(* Without a disturbance nothing that was sent, or made by others, is lost.*)
LEMMA NothingLost ==
    ASSUME [Next]_vars, Undisturbed', Undisturbed => submitted = pool
    PROVE  /\ Undisturbed /\ command' = command
           /\ given \subseteq given' /\ submitted \subseteq submitted' /\ submitted' = pool'
<1>1. CASE Replace
  <2>1. /\ events' = events \cup {"replaced"} \cup {e \in {"withdrawn"} : given' # given}
        /\ UNCHANGED <<pool, command, submitted>>
    BY <1>1 DEF Replace, Net!Reorg
  <2>. QED
    BY <2>1 DEF Undisturbed
<1>2. CASE Drop
  BY <1>2 DEF Drop, Undisturbed
<1>3. CASE Broadcast \/ Elsewhere
  <2>1. /\ UNCHANGED <<command, given, events>>
        /\ \E t : pool' = pool \cup {t} /\ submitted' = submitted \cup {t}
    BY <1>3 DEF Broadcast, Elsewhere, Net!Submit
  <2>. QED
    BY <2>1 DEF Undisturbed
<1>4. CASE Give
  BY <1>4 DEF Give, Undisturbed, network, history
<1>5. CASE Confirm(Fitting(chain))
  BY <1>5 DEF Confirm, Net!Mine, Undisturbed, history
<1>6. CASE \/ Plan \/ Begin \/ Estimate \/ Sign \/ Observe \/ LookUp \/ Count \/ Wait
           \/ ReadBlock \/ RecordPosition \/ Fail \/ Restart \/ Tick \/ UNCHANGED vars
  <2>1. UNCHANGED <<command, given, events, submitted, pool>>
    BY <1>6 DEF Plan, Begin, Estimate, Sign, SignWith, Observe, LookUp, Count, Wait,
                ReadBlock, RecordPosition, Fail, Restart, Tick, vars, world, network, history
  <2>. QED
    BY <2>1 DEF Undisturbed
<1>. QED
  BY <1>1, <1>2, <1>3, <1>4, <1>5, <1>6 DEF Next, Run

LEMMA StaysSent ==
    ASSUME submitted \subseteq submitted', given \subseteq given', command' = command
    PROVE  \A k : (Sent(k) => Sent(k)') /\ (Settled(k) => Settled(k)')
BY DEF Sent, Settled

(* A run that goes on passes only what is settled, and works on what no    *)
(* later write competes with; the journal has what it had.                 *)
LEMMA PassedStep ==
    ASSUME PassedInv, NonceLocals, key \in Nat \ {0},
           submitted \subseteq submitted', given \subseteq given', command' = command,
           DOMAIN (journal') = DOMAIN journal, plan' \subseteq plan,
           \/ pc' \in Idle
           \/ pc \notin Idle /\ key' = key /\ plan' = plan
           \/ pc \notin Idle /\ key' = key + 1 /\ plan' = plan /\ Settled(key),
           pc' \in Signing \cup Holding => key' = key /\ (Sent(key) \/ ~Competes(key))
    PROVE  PassedInv'
<1>. DEFINE Ahead(k) == Sent(k) \/ k \in plan \/ (k \in command.probed /\ k \in given)
<1>1. \A k : (Sent(k) => Sent(k)') /\ (Settled(k) => Settled(k)') /\ (Competes(k)' => Competes(k))
  BY StaysSent DEF Competes
<1>2. \A k \in plan' : (Sent(k) \/ k \in given)'
  BY <1>1 DEF PassedInv
<1>3. \A k \in Keys : Competes(k)' => Settled(k)'
  BY <1>1 DEF PassedInv
<1>4. ASSUME pc' \notin Idle
      PROVE  \/ \A k \in 1..(key' - 1) : Settled(k)'
             \/ key' >= Steps /\ Steps \in DOMAIN (journal')
  <2>1. \/ \A k \in 1..(key - 1) : Settled(k)
        \/ key >= Steps /\ Steps \in DOMAIN journal
    BY <1>4 DEF PassedInv
  <2>2. CASE key >= Steps /\ Steps \in DOMAIN journal
    <3>1. key' >= Steps
      BY <1>4, <2>2, HarnessAssumption
    <3>. QED
      BY <2>2, <3>1
  <2>3. CASE \A k \in 1..(key - 1) : Settled(k)
    <3>1. \A k \in 1..(key' - 1) : k \in 1..(key - 1) \/ (k = key /\ Settled(key))
      BY <1>4
    <3>. QED
      BY <1>1, <2>3, <3>1
  <2>. QED
    BY <2>1, <2>2, <2>3
<1>5. ASSUME pc' \notin Idle, NEW k \in Keys, k >= key', Competes(k)' PROVE Ahead(k)'
  <2>1. k >= key /\ pc \notin Idle /\ plan' = plan
    BY <1>4, <1>5 DEF Keys
  <2>2. Ahead(k)
    BY <1>1, <1>5, <2>1 DEF PassedInv
  <2>. QED
    BY <1>1, <2>1, <2>2
<1>6. pc' \in Signing \cup Holding => (Sent(key) \/ ~Competes(key))'
  <2>1. ASSUME pc' \in Signing \cup Holding PROVE (Sent(key) \/ ~Competes(key))'
    <3>1. key' = key /\ (Sent(key) \/ ~Competes(key))
      BY <2>1
    <3>. QED
      BY <3>1 DEF Sent, Competes
  <2>. QED
    BY <2>1
<1>. QED
  BY <1>2, <1>3, <1>4, <1>5, <1>6 DEF PassedInv, Keys

LEMMA SameGapless ==
    ASSUME GaplessInv, UNCHANGED <<pool, submitted>>, DOMAIN (journal') = DOMAIN journal,
           \A k \in DOMAIN journal : (journal')[k].nonce = journal[k].nonce
    PROVE  GaplessInv'
BY DEF GaplessInv, NoncesOf

LEMMA SameInOrder ==
    ASSUME InOrderInv, DOMAIN (journal') = DOMAIN journal,
           \A k \in DOMAIN journal : (journal')[k].nonce = journal[k].nonce,
           \A k \in DOMAIN journal : Sent(k)' => Sent(k)
    PROVE  InOrderInv'
BY DEF InOrderInv

LEMMA OnChainIsPooled ==
    ASSUME PackedInv, WitnessInv, NEW i \in DOMAIN chain, NEW t \in DOMAIN chain[i].txs
    PROVE  t \in pool
<1>1. Len(chain) \in 0..Len(chain) /\ i \in 1..Len(chain)
  BY HeldIsAll
<1>2. HeldUpTo(Len(chain)) \subseteq pool
  BY <1>1 DEF PackedInv, Packed
<1>. QED
  BY <1>1, <1>2 DEF HeldUpTo

LEMMA VisibleIsSent ==
    ASSUME PackedInv, WitnessInv, GaplessInv, NEW k, Visible(k)
    PROVE  Sent(k) \/ k \in given
BY OnChainIsPooled DEF GaplessInv, Visible, There, VisibleIn, Sent

(* The plan leaves out what is there; what was passed before, and has a    *)
(* later write in the journal, is left out of every plan.                  *)
LEMMA PlanPasses ==
    ASSUME JournalInv, NonceLocals, PackedInv, WitnessInv, GaplessInv, PassedInv, Plan
    PROVE  PassedInv'
<1>1. /\ UNCHANGED <<command, journal, submitted, given, chain>> /\ pc = "plan"
      /\ key = 1 /\ plan = {}
  BY DEF Plan, NonceLocals, Idle, history, world, network, disk
<1>2. \A k : (Sent(k) <=> Sent(k)') /\ (Settled(k) <=> Settled(k)') /\ (Competes(k)' <=> Competes(k))
  BY <1>1 DEF Sent, Settled, Competes
<1>3. CASE pc' \in Idle /\ plan' = {}
  BY <1>1, <1>2, <1>3 DEF PassedInv, Idle, Signing, Holding
<1>4. CASE /\ Resuming /\ pc' = "begin" /\ key' = Steps /\ plan' = plan
  <2>1. Steps \in DOMAIN journal /\ Steps \in Nat
    BY <1>4, OneDated, HarnessAssumption DEF Resuming
  <2>2. \A k \in Keys : k >= Steps => ~Competes(k)
    BY <2>1 DEF Competes, NonceLocals, Keys
  <2>. QED
    BY <1>1, <1>2, <1>4, <2>1, <2>2 DEF PassedInv, Idle, Signing, Holding
<1>5. CASE pc' = "begin" /\ key' = 1 /\ plan' = {k \in command.planned : Visible(k)}
  <2>1. \A k \in plan' : (Sent(k) \/ k \in given)'
    BY <1>1, <1>2, <1>5, VisibleIsSent
  <2>2. ASSUME NEW k \in Keys, Competes(k)
        PROVE  Sent(k) \/ k \in plan' \/ (k \in command.probed /\ k \in given)
    <3>1. Settled(k)
      BY <2>2 DEF PassedInv
    <3>. QED
      BY <1>5, <3>1 DEF Settled, Visible, There
  <2>. QED
    BY <1>1, <1>2, <1>5, <2>1, <2>2 DEF PassedInv, Idle, Signing, Holding
<1>. QED
  BY <1>1, <1>3, <1>4, <1>5 DEF Plan, Goto, Stop, Leave, Idle

(* What is looked at next is estimated or sent again only if no later      *)
(* write is in the journal, or it was sent before.                         *)
LEMMA BeginPasses ==
    ASSUME JournalInv, NonceLocals, PackedInv, WitnessInv, GaplessInv, PassedInv, Begin
    PROVE  PassedInv'
<1>1. /\ UNCHANGED <<command, journal, submitted, given>> /\ pc = "begin" /\ key \in Nat \ {0}
      /\ submitted \subseteq submitted' /\ given \subseteq given'
  BY DEF Begin, history, world, JournalInv
<1>2. CASE pc' \in Idle /\ plan' = {}
  BY <1>1, <1>2, PassedStep DEF Idle, Signing, Holding
<1>3. CASE pc' = "record" /\ key' = key /\ plan' = plan
  BY <1>1, <1>3, PassedStep DEF Idle, Signing, Holding
<1>4. CASE pc' = pc /\ key' = key + 1 /\ plan' = plan /\ LeftOut
  <2>1. Settled(key)
    BY <1>4, VisibleIsSent DEF LeftOut, PassedInv, NonceLocals, Settled
  <2>. QED
    BY <1>1, <1>4, <2>1, PassedStep DEF Idle, Signing, Holding
<1>5. CASE key' = key /\ plan' = plan /\ key <= Steps /\ ~LeftOut
  <2>1. key \in Keys /\ pc \notin Idle
    BY <1>1, <1>5, HarnessAssumption DEF Keys, Idle
  <2>2. Sent(key) \/ ~Competes(key)
    BY <1>1, <1>5, <2>1 DEF PassedInv, LeftOut, Visible, There
  <2>. QED
    BY <1>1, <1>5, <2>1, <2>2, PassedStep
<1>. QED
  BY <1>1, <1>2, <1>3, <1>4, <1>5 DEF Begin, Goto, Step, Stop, Leave, Idle

LEMMA SignPasses ==
    ASSUME JournalInv, NonceLocals, PackedInv, WitnessInv, GaplessInv, PassedInv, InOrderInv, Sign
    PROVE  GaplessInv' /\ PassedInv' /\ InOrderInv'
<1>1. /\ pc = "sign" /\ pc' = "observe" /\ journal' = Journaled(Pending, None)
      /\ UNCHANGED <<command, key, plan, submitted, given, pool>>
  BY DEF Sign, SignWith, Goto, world, network, history
<1>2. /\ DOMAIN (journal') = DOMAIN journal \cup {key}
      /\ (journal')[key].nonce = Pending
      /\ \A k \in DOMAIN journal \ {key} : (journal')[k] = journal[k]
  BY <1>1 DEF Journaled
<1>3. key \in Keys /\ key \notin DOMAIN journal /\ pc \notin Idle
  BY <1>1 DEF JournalInv, Signing, Idle
<1>4. PICK m \in Nat : /\ NoncesOf(pool) = 0..(m - 1)
                       /\ \A k \in DOMAIN journal : journal[k].nonce \in 0..m
  BY DEF GaplessInv
<1>5. Pending = m
  BY <1>4, PendingIsNext
<1>6. GaplessInv'
  <2>1. NoncesOf(pool)' = 0..(m - 1)
    BY <1>1, <1>4 DEF NoncesOf
  <2>2. \A k \in DOMAIN (journal') : (journal')[k].nonce \in 0..m
    BY <1>2, <1>4, <1>5
  <2>. QED
    BY <1>1, <2>1, <2>2 DEF GaplessInv
<1>7. ~Sent(key) /\ ~Competes(key)
  <2>1. ~Sent(key)
    BY <1>3 DEF JournalInv, WriteAhead, Sent
  <2>. QED
    BY <1>1, <2>1 DEF PassedInv, Signing
<1>8. \A k \in 1..(key - 1) : Settled(k)
  <2>1. ~(key >= Steps /\ Steps \in DOMAIN journal)
    BY <1>3, HarnessAssumption DEF Keys
  <2>. QED
    BY <1>3, <2>1 DEF PassedInv
<1>9. /\ \A k : (Sent(k) <=> Sent(k)') /\ (Settled(k) <=> Settled(k)')
      /\ \A k \in Keys : Competes(k)' => Competes(k) \/ k \in 1..(key - 1)
  <2>1. ASSUME NEW k \in Keys, Competes(k)', ~Competes(k) PROVE k \in 1..(key - 1)
    <3>1. key > k
      BY <1>2, <2>1 DEF Competes
    <3>. QED
      BY <1>3, <3>1 DEF Keys
  <2>. QED
    BY <1>1, <2>1 DEF Sent, Settled
<1>10. PassedInv'
  <2>1. \A k \in plan' : (Sent(k) \/ k \in given)'
    BY <1>1, <1>9 DEF PassedInv
  <2>2. \A k \in Keys : Competes(k)' => Settled(k)'
    BY <1>8, <1>9 DEF PassedInv
  <2>3. \A k \in 1..(key' - 1) : Settled(k)'
    BY <1>1, <1>8, <1>9
  <2>4. ASSUME NEW k \in Keys, k >= key', Competes(k)'
        PROVE  (Sent(k) \/ k \in plan \/ (k \in command.probed /\ k \in given))'
    <3>1. Competes(k)
      BY <1>1, <1>3, <1>9, <2>4 DEF Keys
    <3>. QED
      BY <1>1, <1>3, <1>9, <2>4, <3>1 DEF PassedInv
  <2>5. ~Competes(key)'
    BY <1>1, <1>2, <1>3, <1>7 DEF Competes, Keys
  <2>. QED
    BY <1>1, <2>1, <2>2, <2>3, <2>4, <2>5 DEF PassedInv, Keys
<1>11. InOrderInv'
  <2>. SUFFICES ASSUME NEW j \in DOMAIN (journal'), NEW k \in DOMAIN (journal'), j < k, Sent(j)
                PROVE  (journal')[j].nonce < (journal')[k].nonce
    BY <1>9 DEF InOrderInv
  <2>1. j # key
    BY <1>7
  <2>2. j \in DOMAIN journal /\ (journal')[j] = journal[j]
    BY <1>2, <2>1
  <2>3. CASE k = key
    <3>1. PICK t \in submitted : t.key = j
      BY DEF Sent
    <3>2. j \in Keys
      BY <2>2 DEF NonceLocals
    <3>3. t.nonce = journal[j].nonce /\ t \in pool
      BY <3>1, <3>2 DEF JournalInv, WriteAhead, GaplessInv
    <3>4. t.nonce \in 0..(m - 1)
      BY <1>4, <3>3 DEF NoncesOf
    <3>. QED
      BY <1>2, <1>5, <2>2, <2>3, <3>3, <3>4
  <2>4. CASE k # key
    BY <1>2, <2>2, <2>4 DEF InOrderInv
  <2>. QED
    BY <2>3, <2>4
<1>. QED
  BY <1>6, <1>10, <1>11

(* A transaction of the record's or of the next nonce joins the pool.      *)
LEMMA SubmitGapless ==
    ASSUME GaplessInv, journal' = journal, NEW t,
           pool' = pool \cup {t}, submitted' = submitted \cup {t},
           \A m \in Nat : NoncesOf(pool) = 0..(m - 1)
                /\ (\A k \in DOMAIN journal : journal[k].nonce \in 0..m) => t.nonce \in 0..m
    PROVE  GaplessInv'
<1>1. PICK m \in Nat : /\ NoncesOf(pool) = 0..(m - 1)
                       /\ \A k \in DOMAIN journal : journal[k].nonce \in 0..m
  BY DEF GaplessInv
<1>2. t.nonce \in 0..m
  BY <1>1
<1>3. NoncesOf(pool)' = 0..(m - 1) \cup {t.nonce}
  BY <1>1 DEF NoncesOf
<1>4. CASE t.nonce = m
  <2>1. NoncesOf(pool)' = 0..(m + 1 - 1)
    <3>1. 0..(m - 1) \cup {m} = 0..(m + 1 - 1)
      OBVIOUS
    <3>. QED
      BY <1>3, <1>4, <3>1
  <2>2. \A k \in DOMAIN journal : journal[k].nonce \in 0..(m + 1)
    BY <1>1
  <2>. QED
    BY <2>1, <2>2 DEF GaplessInv
<1>5. CASE t.nonce # m
  <2>1. NoncesOf(pool)' = 0..(m - 1)
    <3>1. t.nonce \in 0..(m - 1)
      BY <1>2, <1>5
    <3>2. 0..(m - 1) \cup {t.nonce} = 0..(m - 1)
      BY <3>1
    <3>. QED
      BY <1>3, <3>2
  <2>. QED
    BY <1>1, <2>1 DEF GaplessInv
<1>. QED
  BY <1>4, <1>5

LEMMA BroadcastOrders ==
    ASSUME JournalInv, NonceLocals, GaplessInv, PassedInv, InOrderInv, Broadcast
    PROVE  GaplessInv' /\ PassedInv' /\ InOrderInv'
<1>1. /\ pc = "send" /\ pool' = pool \cup {Ours} /\ submitted' = submitted \cup {Ours}
      /\ UNCHANGED <<command, journal, given>> /\ key \in Nat \ {0}
      /\ submitted \subseteq submitted' /\ given \subseteq given'
      /\ \/ pc' = "wait" /\ key' = key /\ plan' = plan
         \/ pc' = "stopped" /\ plan' = {}
  BY DEF Broadcast, Net!Submit, Step, Stop, Leave, Goto, disk, JournalInv
<1>2. /\ key \in DOMAIN journal /\ journal[key].nonce = Ours.nonce
      /\ Ours.key = key /\ (Sent(key) \/ ~Competes(key)) /\ pc \notin Idle
  BY <1>1 DEF JournalInv, Holding, Ours, PassedInv, Idle
<1>3. GaplessInv'
  BY <1>1, <1>2, SubmitGapless
<1>4. PassedInv'
  BY <1>1, <1>2, PassedStep DEF Idle, Signing, Holding
<1>5. InOrderInv'
  <2>. SUFFICES ASSUME NEW j \in DOMAIN journal, NEW k \in DOMAIN journal, j < k, Sent(j)'
                PROVE  journal[j].nonce < journal[k].nonce
    BY <1>1 DEF InOrderInv
  <2>1. Sent(j) \/ j = key
    BY <1>1, <1>2 DEF Sent
  <2>2. Sent(j)
    BY <1>2, <2>1 DEF Competes
  <2>. QED
    BY <2>2 DEF InOrderInv
<1>. QED
  BY <1>3, <1>4, <1>5

LEMMA ElsewhereOrders ==
    ASSUME JournalInv, NonceLocals, PackedInv, WitnessInv,
           GaplessInv, PassedInv, InOrderInv, Elsewhere
    PROVE  GaplessInv' /\ PassedInv' /\ InOrderInv'
<1>. DEFINE t == [key |-> 0, nonce |-> Pending, due |-> None]
<1>1. /\ pool' = pool \cup {t} /\ submitted' = submitted \cup {t}
      /\ UNCHANGED <<command, journal, given, pc, key, plan>> /\ key \in Nat \ {0}
      /\ submitted \subseteq submitted' /\ given \subseteq given'
  BY DEF Elsewhere, Net!Submit, process, disk, JournalInv
<1>2. t.key = 0 /\ t.nonce = Pending
  OBVIOUS
<1>. HIDE DEF t
<1>3. \A m \in Nat : NoncesOf(pool) = 0..(m - 1) => t.nonce \in 0..m
  BY <1>2, PendingIsNext
<1>4. GaplessInv'
  BY <1>1, <1>3, SubmitGapless
<1>5. PassedInv'
  BY <1>1, PassedStep DEF PassedInv, Idle, Signing, Holding
<1>6. \A k \in DOMAIN journal : Sent(k)' => Sent(k)
  BY <1>1, <1>2 DEF Sent, NonceLocals, Keys
<1>7. InOrderInv'
  BY <1>1, <1>6, SameInOrder
<1>. QED
  BY <1>4, <1>5, <1>7

(* A write is passed on a receipt only if its transaction is on the chain. *)
LEMMA ReadBlockOrders ==
    ASSUME JournalInv, NonceLocals, PackedInv, WitnessInv,
           GaplessInv, PassedInv, InOrderInv, ReadBlock
    PROVE  GaplessInv' /\ PassedInv' /\ InOrderInv'
<1>1. /\ pc = "block" /\ UNCHANGED <<command, given, pool, submitted>> /\ key \in Nat \ {0}
      /\ submitted \subseteq submitted' /\ given \subseteq given'
  BY DEF ReadBlock, history, world, network, JournalInv
<1>2. /\ key \in DOMAIN journal /\ journal[key].nonce = record
      /\ Sent(key) \/ ~Competes(key)
  BY <1>1 DEF JournalInv, PassedInv, Holding
<1>3. journal' = journal \/ journal' = Journaled(record, receipt.block)
  BY DEF ReadBlock
<1>4. /\ DOMAIN (journal') = DOMAIN journal
      /\ \A k \in DOMAIN journal : (journal')[k].nonce = journal[k].nonce
  BY <1>2, <1>3, JournaledEntry
<1>5. GaplessInv'
  BY <1>1, <1>4, SameGapless
<1>6. InOrderInv'
  BY <1>1, <1>4, SameInOrder DEF Sent
<1>7. CASE pc' = "begin" /\ key' = key + 1 /\ plan' = plan /\ Matches
  <2>1. Witnessed(receipt, Ours) /\ Net!Canonical(receipt)
    BY <1>1, <1>7 DEF WitnessInv, Matches, Net!Canonical, Net!Known
  <2>2. receipt.height \in DOMAIN chain /\ Ours \in DOMAIN chain[receipt.height].txs
    BY <2>1 DEF Witnessed, Net!Canonical, Net!Known
  <2>3. Ours \in submitted /\ Ours.key = key
    BY <2>2, OnChainIsPooled DEF GaplessInv, Ours
  <2>4. Settled(key)
    BY <2>3 DEF Settled, Sent
  <2>. QED
    BY <1>1, <1>4, <1>5, <1>6, <1>7, <2>4, PassedStep DEF Idle, Signing, Holding
<1>8. CASE pc' = "stopped" /\ plan' = {}
  BY <1>1, <1>4, <1>5, <1>6, <1>8, PassedStep DEF Idle, Signing, Holding
<1>9. CASE pc' = "wait" /\ key' = key /\ plan' = plan
  BY <1>1, <1>2, <1>4, <1>5, <1>6, <1>9, PassedStep DEF Idle, Signing, Holding
<1>. QED
  BY <1>7, <1>8, <1>9 DEF ReadBlock, NextAttempt, Stop, Leave, Goto

LEMMA NoncesStep ==
    /\ JournalInv /\ NonceLocals /\ PackedInv /\ WitnessInv
    /\ Undisturbed => NoncesInv
    /\ [Next]_vars
    => (Undisturbed => NoncesInv)'
<1>. SUFFICES ASSUME JournalInv, NonceLocals, PackedInv, WitnessInv, Undisturbed => NoncesInv,
                     [Next]_vars, Undisturbed'
              PROVE  NoncesInv'
  OBVIOUS
<1>1. /\ Undisturbed /\ command' = command
      /\ given \subseteq given' /\ submitted \subseteq submitted' /\ submitted' = pool'
  BY NothingLost DEF NoncesInv, GaplessInv
<1>. GaplessInv /\ PassedInv /\ InOrderInv /\ key \in Nat \ {0}
  BY <1>1 DEF NoncesInv, JournalInv
<1>2. CASE Plan \/ Begin
  <2>1. PassedInv'
    BY <1>2, PlanPasses, BeginPasses
  <2>2. UNCHANGED <<pool, submitted, journal>>
    BY <1>2 DEF Plan, Begin, world, network, history, disk
  <2>. QED
    BY <2>1, <2>2, SameGapless, SameInOrder DEF NoncesInv, Sent
<1>3. CASE Sign \/ Broadcast \/ Elsewhere \/ ReadBlock
  BY <1>3, SignPasses, BroadcastOrders, ElsewhereOrders, ReadBlockOrders DEF NoncesInv
<1>4. CASE Estimate \/ Observe \/ LookUp \/ Count \/ Wait
  <2>1. /\ UNCHANGED <<pool, submitted, journal>> /\ pc \in Signing \cup Holding
        /\ \/ pc' \in Signing \cup Holding /\ key' = key /\ plan' = plan
           \/ pc' = "stopped" /\ plan' = {}
    BY <1>4 DEF Estimate, Observe, LookUp, Count, Wait, NextAttempt, Goto, Step, Stop, Leave,
                Holding, Signing, world, network, history, disk
  <2>2. (Sent(key) \/ ~Competes(key)) /\ pc \notin Idle
    BY <2>1 DEF PassedInv, Signing, Holding, Idle
  <2>3. PassedInv'
    BY <1>1, <2>1, <2>2, PassedStep DEF Idle, Signing, Holding
  <2>. QED
    BY <2>1, <2>3, SameGapless, SameInOrder DEF NoncesInv, Sent
<1>5. CASE RecordPosition \/ Fail \/ Restart
  <2>1. /\ UNCHANGED <<pool, submitted, journal>>
        /\ pc' \in Idle /\ plan' \subseteq plan
    BY <1>5 DEF RecordPosition, Fail, Restart, Goto, Step, Stop, Leave, Idle,
                world, network, history, disk
  <2>2. PassedInv'
    BY <1>1, <2>1, PassedStep DEF Idle, Signing, Holding
  <2>. QED
    BY <2>1, <2>2, SameGapless, SameInOrder DEF NoncesInv, Sent
<1>6. CASE Confirm(Fitting(chain)) \/ Replace \/ Drop \/ Give \/ Tick \/ UNCHANGED vars
  <2>1. UNCHANGED <<submitted, journal, pc, key, plan>>
    BY <1>6 DEF Confirm, Replace, Drop, Give, Tick, vars, process, disk, history
  <2>2. PassedInv'
    BY <1>1, <2>1, PassedStep DEF PassedInv, Idle, Signing, Holding
  <2>3. pool' = pool
    BY <1>1, <2>1 DEF GaplessInv
  <2>. QED
    BY <2>1, <2>2, <2>3, SameGapless, SameInOrder DEF NoncesInv, Sent
<1>. QED
  BY <1>2, <1>3, <1>4, <1>5, <1>6 DEF Next, Run

(* However often the command is started, and whatever others make in the   *)
(* meantime, the account's nonces are those of its writes in their order:  *)
(* a nonce that comes from the count of what is pending is above all that  *)
(* was ever sent, and what was journaled below another and never sent is   *)
(* not sent any more, as every later run passes it.                        *)
THEOREM NoncesStayApart == Spec => []NoncesApart
<1>1. Init => WitnessInv
  BY InitChain DEF Init, Net!Init, WitnessInv
<1>2. Init => NonceLocals /\ PackedInv /\ NoncesInv
  <2>. SUFFICES ASSUME Init PROVE NonceLocals /\ PackedInv /\ NoncesInv
    OBVIOUS
  <2>1. NonceLocals
    BY DEF Init, NonceLocals, Idle
  <2>2. PackedInv
    <3>1. pool = {} /\ chain = <<>> /\ Len(chain) = 0
      BY DEF Init, Net!Init
    <3>2. HeldUpTo(0) = {}
      BY DEF HeldUpTo
    <3>3. IsFiniteSet({}) /\ Cardinality({}) = 0
      BY FS_EmptySet
    <3>4. NoncesOf({}) = 0..(0 - 1)
      BY DEF NoncesOf
    <3>5. Packed(0)
      BY <3>2, <3>3, <3>4 DEF Packed
    <3>6. \A n \in 0..Len(chain) : n = 0
      BY <3>1
    <3>. QED
      BY <3>1, <3>3, <3>5, <3>6 DEF PackedInv
  <2>3. GaplessInv
    <3>1. NoncesOf({}) = 0..(0 - 1)
      BY DEF NoncesOf
    <3>2. submitted = {} /\ pool = {} /\ DOMAIN journal = {}
      BY DEF Init, Net!Init
    <3>3. \E m \in Nat : NoncesOf(pool) = 0..(m - 1)
      <4>. WITNESS 0 \in Nat
      <4>. QED
        BY <3>1, <3>2
    <3>. QED
      BY <3>2, <3>3 DEF GaplessInv
  <2>4. PassedInv /\ InOrderInv
    BY DEF Init, PassedInv, InOrderInv, Competes, Idle, Signing, Holding
  <2>. QED
    BY <2>1, <2>2, <2>3, <2>4 DEF NoncesInv
<1>3. JournalInv /\ NonceLocals /\ (Undisturbed => NoncesInv) => NoncesApart
  <2>. SUFFICES ASSUME JournalInv, NoncesInv, NEW t \in submitted, NEW u \in submitted,
                       t.key \in Keys, u.key \in Keys, t.key < u.key
                PROVE  t.nonce < u.nonce
    BY DEF NoncesApart, Undisturbed
  <2>. QED
    BY DEF JournalInv, WriteAhead, NoncesInv, InOrderInv, Sent
<1>. QED
  BY <1>1, <1>2, <1>3, JournalInvariant, WitnessStep, LocalsStep, PackedStep, NoncesStep, PTL
  DEF Spec

=============================================================================
