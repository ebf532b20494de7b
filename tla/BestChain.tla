----------------------------- MODULE BestChain ------------------------------
(***************************************************************************)
(* What the chain promises, with neither orphans nor an index nor a crash: *)
(* a growing set of accepted blocks, one of which is the best, and the set *)
(* of unspent outputs of the chain that ends in the best block.            *)
(***************************************************************************)
EXTENDS Blocks

VARIABLES
  accepted,   \* the blocks accepted so far
  best,       \* the end of the main chain, None before the first start
  unspent     \* the outputs that may be spent

vars == <<accepted, best, unspent>>

TypeOK ==
  /\ accepted \subseteq Block
  /\ best \in Block \cup {None}
  /\ unspent \subseteq Output

Init == accepted = {} /\ best = None /\ unspent = {}

\* A block is accepted after its parent, and only if it is valid.
Accept(b) ==
  /\ b \notin accepted
  /\ b = Genesis \/ (Prev[b] \in accepted /\ ValidateBlock(b))
  /\ accepted' = accepted \cup {b}
  /\ UNCHANGED <<best, unspent>>

Start ==
  /\ best = None
  /\ Genesis \in accepted
  /\ best' = Genesis
  /\ unspent' = UnspentAt[Genesis]
  /\ UNCHANGED accepted

\* The main chain moves only to a longer chain of no less work, all of whose
\* blocks are accepted and whose transactions spend only what they may.
Adopt(b) ==
  /\ best # None
  /\ b \in accepted
  /\ OnBranch(b) \subseteq accepted
  /\ Height[b] > Height[best]
  /\ TotalWork[b] >= TotalWork[best]
  /\ b \in LedgerSound
  /\ best' = b
  /\ unspent' = UnspentAt[b]
  /\ UNCHANGED accepted

Next == Start \/ \E b \in Block : Accept(b) \/ Adopt(b)

Spec == Init /\ [][Next]_vars
=============================================================================
