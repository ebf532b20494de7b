------------------------------- MODULE Blocks -------------------------------
(***************************************************************************)
(* The data every module about the block chain talks about: blocks, their  *)
(* headers, their transactions and the outputs these create and spend.     *)
(*                                                                         *)
(* A block is an opaque value that stands for its hash.  Its header fields *)
(* are constant functions of the hash (a hash commits to its header), and  *)
(* so are its transactions.  The universe Block is every block the node    *)
(* may ever be given; in it each block descends from Genesis, although     *)
(* nothing forces the ancestors of a block to be delivered.                *)
(***************************************************************************)
EXTENDS Integers, Sequences

CONSTANTS
  Block,            \* the blocks the node may be given, Genesis among them
  Genesis,          \* config.GenesisBlock()
  None,             \* no block: a nil node, an absent store status
  Prev,             \* Prev[b]: BlockHeader.PreviousBlockHash
  Height,           \* Height[b]: BlockHeader.Height, as the header claims it
  Work,             \* Work[b]: difficulty.CalcWork(BlockHeader.Bits)
  NextWork,         \* NextWork[p]: CalcWork(p.CalcNextBits()), asked of p's children
  Sound,            \* blocks that pass every other check of ValidateBlock
  Early,            \* blocks whose timestamp may still be too far in the future
  Branch,           \* Branch[b]: the path Genesis .. b along Prev
  TotalWork,        \* TotalWork[b]: the sum of Work over Branch[b]
  Output,           \* output IDs
  NonBTM,           \* the outputs of an asset other than BTM
  Txs,              \* Txs[b]: the block's transactions, the coinbase first
  CoinbasePending   \* consensus.CoinbasePendingBlockNumber

(***************************************************************************)
(* A transaction: the outputs it spends (SpentOutputIDs), those it creates *)
(* (ResultIds without the retirements) and its verification status in this *)
(* block (TransactionStatus, stored with the block).                       *)
(***************************************************************************)
Tx == [spends : SUBSET Output, outs : SUBSET Output, fail : BOOLEAN]

ASSUME BlockAssumption ==
  /\ Genesis \in Block
  /\ None \notin Block
  /\ Prev \in [Block -> Block \cup {None}]
  /\ Prev[Genesis] = None
  /\ \A b \in Block \ {Genesis} : Prev[b] \in Block
  /\ Height \in [Block -> Nat]
  /\ Height[Genesis] = 0
  /\ Work \in [Block -> Nat]
  /\ NextWork \in [Block -> Nat]
  /\ Sound \subseteq Block
  /\ Early \subseteq Block
  /\ CoinbasePending \in Nat

\* What the names Branch and TotalWork mean: both are determined by Prev and Work.
ASSUME BranchAssumption ==
  /\ Branch \in [Block -> Seq(Block)]
  /\ Branch[Genesis] = <<Genesis>>
  /\ \A b \in Block \ {Genesis} : Branch[b] = Append(Branch[Prev[b]], b)
  /\ TotalWork \in [Block -> Nat]
  /\ TotalWork[Genesis] = Work[Genesis]
  /\ \A b \in Block \ {Genesis} : TotalWork[b] = TotalWork[Prev[b]] + Work[b]

ASSUME TxAssumption ==
  /\ Txs \in [Block -> Seq(Tx)]
  /\ NonBTM \subseteq Output
  /\ \A i \in 1..Len(Txs[Genesis]) : Txs[Genesis][i].spends = {}

(***************************************************************************)
(* ValidateBlock(b, parent), clock aside: the height follows the parent's, *)
(* the bits are the ones the parent asks for, and the rest of the checks   *)
(* (version, proof of work, transactions, coinbase amount, merkle roots).  *)
(***************************************************************************)
ValidateBlock(b) ==
  /\ Height[b] = Height[Prev[b]] + 1
  /\ Work[b] = NextWork[Prev[b]]
  /\ b \in Sound

(***************************************************************************)
(* A transaction whose verification failed (statusFail) still pays its     *)
(* gas: only its BTM inputs are spent and only its BTM outputs created.    *)
(***************************************************************************)
Spends(tx) == {o \in tx.spends : ~(tx.fail /\ o \in NonBTM)}
Outs(tx) == {o \in tx.outs : ~(tx.fail /\ o \in NonBTM)}
-----------------------------------------------------------------------------
(***************************************************************************)
(* The reference ledger: the unspent outputs of a branch, read off the     *)
(* branch itself.  A position <<b, n>> is the point of b's branch after    *)
(* the first n transactions of b.                                          *)
(***************************************************************************)
OnBranch(b) == {Branch[b][k] : k \in 1..Len(Branch[b])}

\* The transactions up to a position, as pairs of a block and an index.
UpTo(b, n) ==
  UNION {{c} \X (1..Len(Txs[c])) : c \in OnBranch(b) \ {b}} \cup ({b} \X (1..n))

Created(b, n) == UNION {Outs(Txs[p[1]][p[2]]) : p \in UpTo(b, n)}
SpentUpTo(b, n) == UNION {Spends(Txs[p[1]][p[2]]) : p \in UpTo(b, n)}
Unspent(b, n) == Created(b, n) \ SpentUpTo(b, n)

\* The unspent outputs of the chain that ends in b.
UnspentAt == [b \in Block |-> Unspent(b, Len(Txs[b]))]

\* The outputs of the first transaction of block c.
CoinbaseOuts == [c \in Block |-> IF Txs[c] = <<>> THEN {} ELSE Outs(Txs[c][1])]

\* The branches on which every transaction spends outputs that are unspent where
\* it stands, and a coinbase output only once it is mature.
LedgerSound ==
  {b \in Block : \A c \in OnBranch(b) : \A i \in 1..Len(Txs[c]) :
     /\ Spends(Txs[c][i]) \subseteq Unspent(c, i - 1)
     /\ \A d \in OnBranch(c) : Spends(Txs[c][i]) \cap CoinbaseOuts[d] # {} =>
          Height[d] + CoinbasePending <= Height[c]}
=============================================================================
