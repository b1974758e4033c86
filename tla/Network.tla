------------------------------- MODULE Network -------------------------------
(***************************************************************************)
(* A chain as a client of its JSON-RPC sees it: transactions it has given  *)
(* to the network wait in a pool, blocks take some of them, and the head   *)
(* may be replaced by a sibling, which puts what it held back in the pool. *)
(* Both programs that send transactions, the terminal and the testnet      *)
(* harness, ask a node the same two questions about one of them.           *)
(***************************************************************************)
EXTENDS Naturals, Sequences

CONSTANTS
    Txs,          \* transactions
    Outcomes,     \* what executing one can come to
    MaxBlocks     \* bound on the blocks ever mined, replaced ones included

VARIABLES
    pool,         \* the transactions the network was given
    chain,        \* the canonical chain; a block is [hash, txs]
    mined         \* blocks mined so far: the hash of the latest

Init ==
    /\ pool = {} /\ mined = 0
    /\ chain = <<>>

HeldBy(blocks) == UNION {DOMAIN blocks[i].txs : i \in DOMAIN blocks}
InChain(t) == t \in HeldBy(chain)

(* A block on top of parents holding any of the sets of transactions in    *)
(* fitting that are still due.                                             *)
Extend(parents, fitting) ==
    /\ mined < MaxBlocks
    /\ mined' = mined + 1
    /\ \E taken \in fitting : \E result \in [taken -> Outcomes] :
          /\ taken \cap HeldBy(parents) = {}
          /\ chain' = Append(parents, [hash |-> mined + 1, txs |-> result])

Mine(fitting) == Extend(chain, fitting) /\ UNCHANGED pool

Reorg(fitting) ==
    /\ chain # <<>>
    /\ Extend(SubSeq(chain, 1, Len(chain) - 1), fitting)
    /\ UNCHANGED pool

Submit(t) == pool' = pool \cup {t}

(* eth_getTransactionReceipt of a transaction in a block.                  *)
Receipt(t) ==
    LET height == CHOOSE i \in DOMAIN chain : t \in DOMAIN chain[i].txs
    IN  [block |-> chain[height].hash, height |-> height, outcome |-> chain[height].txs[t]]

(* eth_getBlockByNumber of the receipt's height.                           *)
Known(receipt) == receipt.height \in DOMAIN chain
Canonical(receipt) == Known(receipt) /\ chain[receipt.height].hash = receipt.block

==============================================================================
