--------------------------- MODULE Blocks_proofs ----------------------------
(***************************************************************************)
(* What the proofs about the chain need to know of branches.  Arguments by *)
(* induction on the length of a branch are written as arguments by a least *)
(* counterexample, with NatMin.                                            *)
(***************************************************************************)
EXTENDS Blocks, WellFoundedInduction, NaturalsInduction, TLAPS

\* A nonempty set of naturals has a least element.
LEMMA NatMin ==
  ASSUME NEW T \in SUBSET Nat, T # {}
  PROVE  \E m \in T : \A k \in T : m <= k
<1>1. PICK x \in T : \A y \in T : ~(<<y, x>> \in OpToRel(<, Nat))
  BY NatLessThanWellFounded, WFMin
<1>2. ASSUME NEW y \in T
      PROVE  ~(y < x)
  <2>1. y \in Nat /\ x \in Nat
    OBVIOUS
  <2>2. <<y, x>> \in OpToRel(<, Nat) <=> <<y, x>> \in {ss \in Nat \X Nat : ss[1] < ss[2]}
    BY Zenon DEF OpToRel
  <2>3. <<y, x>> \in {ss \in Nat \X Nat : ss[1] < ss[2]} <=> y < x
    BY <2>1
  <2> QED
    BY <2>2, <2>3, <1>1
<1> QED
  BY <1>2

\* A branch is not empty and ends in its block; the branch of the parent is the
\* rest of it.
LEMMA BranchStep ==
  ASSUME NEW b \in Block
  PROVE  /\ Len(Branch[b]) \in Nat \ {0}
         /\ Branch[b][Len(Branch[b])] = b
         /\ \A i \in 1..Len(Branch[b]) : Branch[b][i] \in Block
         /\ b # Genesis =>
              /\ Prev[b] \in Block
              /\ Len(Branch[b]) = Len(Branch[Prev[b]]) + 1
              /\ \A i \in 1..Len(Branch[Prev[b]]) : Branch[b][i] = Branch[Prev[b]][i]
<1>1. Branch[b] \in Seq(Block)
  BY BranchAssumption
<1>2. CASE b = Genesis
  BY <1>1, <1>2, BranchAssumption
<1>3. CASE b # Genesis
  <2>1. Prev[b] \in Block /\ Branch[Prev[b]] \in Seq(Block)
    BY <1>3, BlockAssumption, BranchAssumption
  <2>2. Branch[b] = Append(Branch[Prev[b]], b)
    BY <1>3, BranchAssumption
  <2> QED
    BY <1>1, <1>3, <2>1, <2>2
<1> QED
  BY <1>2, <1>3

\* Cutting a branch at any of its blocks gives the branch of that block.
LEMMA BranchPrefix ==
  ASSUME NEW b \in Block, NEW i \in 1..Len(Branch[b])
  PROVE  /\ Len(Branch[Branch[b][i]]) = i
         /\ \A k \in 1..i : Branch[Branch[b][i]][k] = Branch[b][k]
<1> DEFINE Cut(c, j) ==
      /\ Len(Branch[Branch[c][j]]) = j
      /\ \A k \in 1..j : Branch[Branch[c][j]][k] = Branch[c][k]
    Bad == {c \in Block : \E j \in 1..Len(Branch[c]) : ~Cut(c, j)}
    T == {Len(Branch[c]) : c \in Bad}
<1>1. SUFFICES ASSUME Bad # {}
               PROVE  FALSE
  OBVIOUS
<1>2. T \in SUBSET Nat /\ T # {}
  <2>1. \A c \in Bad : Len(Branch[c]) \in Nat
    BY BranchStep
  <2> QED
    BY <1>1, <2>1
<1>3. PICK m \in T : \A k \in T : m <= k
  BY <1>2, NatMin
<1>4. PICK c \in Bad : m = Len(Branch[c])
  BY <1>3
<1>5. PICK j \in 1..Len(Branch[c]) : ~Cut(c, j)
  BY <1>4
<1>6. c \in Block /\ Branch[c][Len(Branch[c])] = c /\ Len(Branch[c]) \in Nat \ {0}
  BY <1>4, BranchStep
<1>7. j # Len(Branch[c])
  BY <1>5, <1>6
<1>8. c # Genesis
  <2>1. Len(Branch[Genesis]) = 1
    BY BranchAssumption
  <2>2. j \in 1..Len(Branch[c])
    OBVIOUS
  <2>3. ASSUME c = Genesis
        PROVE  FALSE
    <3>1. Len(Branch[c]) = 1
      BY <2>1, <2>3
    <3>2. j \in 1..1 /\ j # 1
      BY <1>7, <2>2, <3>1
    <3> QED
      BY <3>2
  <2> QED
    BY <2>3
<1>9. /\ Prev[c] \in Block
      /\ Len(Branch[c]) = Len(Branch[Prev[c]]) + 1
      /\ \A k \in 1..Len(Branch[Prev[c]]) : Branch[c][k] = Branch[Prev[c]][k]
  BY <1>6, <1>8, BranchStep
<1>10. Len(Branch[Prev[c]]) \in Nat \ {0}
  BY <1>9, BranchStep
<1>11. j \in 1..Len(Branch[Prev[c]])
  <2> HIDE DEF Bad, T, Cut
  <2> QED
    BY <1>5, <1>6, <1>7, <1>9, <1>10
<1>12. ~Cut(Prev[c], j)
  <2>1. Branch[c][j] = Branch[Prev[c]][j]
    BY <1>9, <1>11
  <2>2. \A k \in 1..j : k \in 1..Len(Branch[Prev[c]])
    BY <1>10, <1>11
  <2>3. \A k \in 1..j : Branch[c][k] = Branch[Prev[c]][k]
    BY <1>9, <2>2
  <2> QED
    BY <1>5, <2>1, <2>3
<1>13. Len(Branch[Prev[c]]) \in T
  BY <1>9, <1>11, <1>12
<1> HIDE DEF T
<1> QED
  BY <1>2, <1>3, <1>4, <1>9, <1>10, <1>13
=============================================================================
