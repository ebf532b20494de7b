------------------------------ MODULE NetChain ------------------------------
(***************************************************************************)
(* The chain as package netsync uses it (netsync.Chain): the blocks in the *)
(* index, the orphans and the best block.  Module Chain models the same    *)
(* code step by step, with its store and its transactions.  Here a call of *)
(* ProcessBlock is one step, every block that passes ValidateBlock can be  *)
(* connected, and what is kept is what the callers see: which block is the *)
(* best one, and whether the call answers "orphan" or an error.            *)
(***************************************************************************)
EXTENDS Blocks, FiniteSets

CONSTANT Worked     \* blocks that pass difficulty.CheckProofOfWork

VARIABLES
  known,            \* the blocks in the BlockIndex
  orphans,          \* the blocks in the OrphanManage
  best              \* Chain.bestNode

chainVars == <<known, orphans, best>>

ChainTypeOK ==
  /\ known \subseteq Block
  /\ orphans \subseteq Block
  /\ best \in known

ChainInit == known = {Genesis} /\ orphans = {} /\ best = Genesis

BestBlockHeight == Height[best]

(***************************************************************************)
(* saveBlock.  A block whose hash is in tensority's cache (cached) is not  *)
(* asked for its proof of work.                                            *)
(***************************************************************************)
CanSave(b, cached) == ValidateBlock(b) /\ (cached \/ b \in Worked)

\* saveSubBlock: the orphans that b's arrival links into the index.
SaveSubBlock(b) ==
  {o \in orphans : /\ b \in OnBranch(o)
                   /\ \A c \in OnBranch(o) \ OnBranch(b) : c \in orphans /\ CanSave(c, FALSE)}

(***************************************************************************)
(* ProcessBlock: the possible outcomes.  Among equally high blocks the     *)
(* order in which saveSubBlock meets the orphans decides.                  *)
(***************************************************************************)
Unmoved(isOrphan, err) ==
  [known |-> known, orphans |-> orphans, best |-> best, isOrphan |-> isOrphan, err |-> err]

ProcessBlock(b, cached) ==
  IF b \in known \cup orphans THEN {Unmoved(b \in orphans, FALSE)}
  ELSE IF Prev[b] \notin known
    THEN {[Unmoved(TRUE, FALSE) EXCEPT !.orphans = @ \cup {b}]}
  ELSE IF ~CanSave(b, cached) THEN {Unmoved(FALSE, TRUE)}
  ELSE LET new == {b} \cup SaveSubBlock(b)
           tops == {t \in new : \A c \in new : Height[c] <= Height[t]}
           moves(t) == \/ Prev[t] = best
                       \/ Height[t] > Height[best] /\ TotalWork[t] >= TotalWork[best]
       IN {[known |-> known \cup new, orphans |-> orphans \ new,
            best |-> IF moves(t) THEN t ELSE best, isOrphan |-> FALSE, err |-> FALSE] : t \in tops}

\* The chain is left as an outcome r of ProcessBlock says.
Becomes(r) == known' = r.known /\ orphans' = r.orphans /\ best' = r.best

OrphanExpire ==
  /\ \E o \in orphans : orphans' = orphans \ {o}
  /\ UNCHANGED <<known, best>>
-----------------------------------------------------------------------------
(***************************************************************************)
(* How a node answers for its main chain, the branch of tip.  Heights are  *)
(* uint64: a stop below the start wraps and asks for the maximum.          *)
(***************************************************************************)
CONSTANTS
  MaxHeaders,       \* maxBlockHeadersPerMsg
  MaxBlocks         \* maxBlockPerMsg

HeaderByHeight(tip, h) == Branch[tip][h + 1]

\* Mutant: the last hash of the locator on the main chain.
LastStartHeader(tip, locator) ==
  LET On(k) == locator[k] \in OnBranch(tip)
  IN IF \E k \in 1..Len(locator) : On(k)
     THEN locator[CHOOSE k \in 1..Len(locator) : On(k) /\ \A j \in (k + 1)..Len(locator) : ~On(j)]
     ELSE Genesis

\* The first hash of the locator on the main chain, or else the genesis block.
StartHeader(tip, locator) ==
  LET On(k) == locator[k] \in OnBranch(tip)
  IN IF \E k \in 1..Len(locator) : On(k)
     THEN locator[CHOOSE k \in 1..Len(locator) : On(k) /\ \A j \in 1..(k - 1) : ~On(j)]
     ELSE Genesis

\* At most max headers after start.  index: the blocks the answering node has.  <<>> also
\* stands for an error: both leave the request without an answer.
Locate(tip, index, locator, stop, max) ==
  LET from == Height[StartHeader(tip, locator)]
      total == IF Height[stop] - from \in 0..MaxHeaders THEN Height[stop] - from ELSE MaxHeaders
  IN IF stop \notin index \/ from + total > Height[tip] THEN <<>>
     ELSE SubSeq(Branch[tip], from + 2, from + (IF total < max THEN total ELSE max) + 1)

LocateHeaders(tip, index, locator, stop) == Locate(tip, index, locator, stop, MaxHeaders)
LocateBlocks(tip, index, locator, stop) == Locate(tip, index, locator, stop, MaxBlocks)

(***************************************************************************)
(* blockLocator: the best block and its ancestors at distance 1 to 9, then *)
(* at gaps that double, and the genesis block.                             *)
(***************************************************************************)
Distance(k) == IF k <= 9 THEN k ELSE 9 + 2^(k - 8) - 2

BlockLocator ==
  LET h == Height[best]
      steps == {k \in 0..h : Distance(k) < h}
  IN [k \in 1..(Cardinality(steps) + 1) |->
        HeaderByHeight(best, IF k <= Cardinality(steps) THEN h - Distance(k - 1) ELSE 0)]
=============================================================================
