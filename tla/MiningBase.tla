----------------------------- MODULE MiningBase -----------------------------
(***************************************************************************)
(* What the two miners share: the chain, as far as they look at it, and    *)
(* the channel on which they announce their blocks to netsync.  Best       *)
(* blocks only grow in height (NeverWorse of module Chain), so a best      *)
(* block is its height here, and a template is known by the block it       *)
(* builds on and by what else is in it.                                    *)
(***************************************************************************)
EXTENDS Integers, Sequences, FiniteSets

CONSTANTS
  MaxHeight,        \* bound on the height of the chain
  NewBlockCap,      \* maxNewBlockChSize
  None

ASSUME BaseAssumption == MaxHeight \in Nat

VARIABLES
  best,             \* the height of the best block
  newBlockCh        \* the heights of the blocks announced

baseVars == <<best, newBlockCh>>

BaseTypeOK ==
  best \in 0..MaxHeight /\ newBlockCh \in Seq(1..MaxHeight) /\ Len(newBlockCh) <= NewBlockCap

BaseInit(height) == best = height /\ newBlockCh = <<>>

\* ProcessBlock for a block on prev: it becomes the best one if prev is, and ends
\* on a side branch otherwise.
ProcessBlock(prev) == best' = IF prev = best THEN best + 1 ELSE best

\* A block came from the network; a reorganisation may gain more than one height.
BlockArrives == best' \in (best + 1)..MaxHeight /\ UNCHANGED newBlockCh

Announce(height) ==
  /\ Len(newBlockCh) < NewBlockCap
  /\ newBlockCh' = Append(newBlockCh, height)

\* minedBroadcastLoop: the chain has every block announced, and sends it on.
MinedBroadcast == newBlockCh # <<>> /\ newBlockCh' = Tail(newBlockCh) /\ UNCHANGED best
=============================================================================
