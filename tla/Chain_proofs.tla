---------------------------- MODULE Chain_proofs ----------------------------
(***************************************************************************)
(* Proofs about Chain, for every block tree, every set of transactions and *)
(* every bound.  The inductive invariant IInv says, beside the types:      *)
(*   StoreInv    what the store holds is closed under Prev and valid;      *)
(*   IndexInv    the index is a part of the store, closed under Prev;      *)
(*   OrphanInv   a list of prevOrphans holds children of its key;          *)
(*   StackInv    the calls of saveSubBlock work on such lists;             *)
(*   MainInv     the main chain is the branch of its tip;                  *)
(*   ControlInv  what is known at each point of the goroutine.             *)
(***************************************************************************)
EXTENDS Chain, Blocks_proofs

StoreInv ==
  /\ \A b \in dbBlocks \ {Genesis} : Prev[b] \in dbBlocks /\ ValidateBlock(b)
  /\ \A b \in dbBlocks : \A i \in 1..Len(Branch[b]) :
       Branch[b][i] \in dbBlocks /\ Height[Branch[b][i]] = i - 1
  /\ dbStatus # None => dbStatus \in dbBlocks /\ Genesis \in dbBlocks

IndexInv ==
  \A b \in DOMAIN index :
    /\ b \in dbBlocks
    /\ b # Genesis => Prev[b] \in DOMAIN index
    /\ index[b] = TotalWork[b]

OrphanInv ==
  \A p \in Block : \A i \in 1..Len(prevOrphans[p]) :
    prevOrphans[p][i] # Genesis /\ Prev[prevOrphans[p][i]] = p

StackInv ==
  \A k \in 1..Len(stack) :
    /\ stack[k].block \in DOMAIN index
    /\ stack[k].best \in DOMAIN index
    /\ \A i \in 1..Len(stack[k].todo) :
         stack[k].todo[i] # Genesis /\ Prev[stack[k].todo[i]] = stack[k].block

MainInv ==
  /\ bestNode # None => bestNode \in DOMAIN index /\ mainChain = Branch[Tip]
  /\ pc \notin Working \cup {"panic"} => bestNode = None

\* The points at which a block has been chosen, and those before it is written.
Connecting == {"load utxo", "detach", "attach", "commit", "setMain", "setBest"}

ControlInv ==
  /\ pc \in Working => Genesis \in DOMAIN index /\ bestNode # None
  /\ pc \in Working \ {"setMain", "setBest"} => bestNode = dbStatus
  /\ pc \in {"setMain", "setBest"} => dbStatus = cur
  /\ pc \in {"save", "link"} => cur \in Block \ {Genesis} /\ Prev[cur] \in DOMAIN index
  /\ pc = "link" => cur \in dbBlocks
  /\ pc = "sub" => stack # <<>>
  /\ pc \in Connecting \cup {"select", "evict"} => cur \in DOMAIN index
  /\ pc \in Connecting =>
       Height[cur] > Height[bestNode] /\ TotalWork[cur] >= TotalWork[bestNode]
  /\ pc = "detach" => detach # <<>>
  /\ pc = "attach" => attach # <<>>
  /\ pc \in {"down", "init", "init status"} => DOMAIN index = {}
  /\ pc \in {"init", "init status"} => dbStatus = None
  /\ pc = "init status" => Genesis \in dbBlocks
  /\ pc = "index" =>
       /\ dbStatus # None
       /\ dbBlocks = toLoad \cup DOMAIN index
       /\ \A b \in DOMAIN index, c \in toLoad : Height[b] <= Height[c]
  /\ pc # "failed"

IInv == TypeOK /\ StoreInv /\ IndexInv /\ OrphanInv /\ StackInv /\ MainInv /\ ControlInv

-----------------------------------------------------------------------------
(***************************************************************************)
(* Facts about sequences, and about the helpers of Chain.                  *)
(***************************************************************************)
\* A sequence is the function on its positions.
LEMMA SeqIsFunction ==
  ASSUME NEW S, NEW s \in Seq(S), NEW f, f = [i \in 1..Len(s) |-> s[i]]
  PROVE  s = f
  OBVIOUS

\* The end of a sequence is a sequence.
LEMMA FromType ==
  ASSUME NEW S, NEW s \in Seq(S), NEW k \in Nat \ {0}
  PROVE  From(s, k) \in Seq(S)
  BY DEF From

\* A reversed sequence is a sequence.
LEMMA ReversedType ==
  ASSUME NEW S, NEW s \in Seq(S)
  PROVE  Reversed(s) \in Seq(S)
<1>1. Reversed(s) \in [1..Len(s) -> S]
  BY DEF Reversed
<1>2. Len(s) \in Nat
  OBVIOUS
<1> QED
  BY <1>1, <1>2

\* Conjuncts of IInv whose variables a step leaves alone still hold after it.
LEMMA Frames ==
  /\ StoreInv /\ UNCHANGED <<dbBlocks, dbStatus>> => StoreInv'
  /\ IndexInv /\ UNCHANGED <<dbBlocks, index>> => IndexInv'
  /\ OrphanInv /\ UNCHANGED prevOrphans => OrphanInv'
  /\ StackInv /\ UNCHANGED <<stack, index>> => StackInv'
<1>1. StoreInv /\ UNCHANGED <<dbBlocks, dbStatus>> => StoreInv'
  BY DEF StoreInv, ValidateBlock
<1>2. IndexInv /\ UNCHANGED <<dbBlocks, index>> => IndexInv'
  BY DEF IndexInv
<1>3. OrphanInv /\ UNCHANGED prevOrphans => OrphanInv'
  BY DEF OrphanInv
<1>4. StackInv /\ UNCHANGED <<stack, index>> => StackInv'
  BY DEF StackInv
<1> QED
  BY <1>1, <1>2, <1>3, <1>4

\* The end of processBlock keeps the types.
LEMMA ReturnType ==
  ASSUME TypeOK, Return, UNCHANGED <<dbVars, index, mainChain>>, bestNode' \in Block \cup {None}
  PROVE  TypeOK'
<1>1. detach' \in Seq(Block) /\ attach' \in Seq(Block)
  BY DEF Return
<1>2. pc' \in Working /\ cur' \in Block \cup {None} /\ txi' \in Nat
  BY DEF Return, Working
<1>3. UNCHANGED <<dbBlocks, dbStatus, index, mainChain, orphan, prevOrphans, stack, toLoad>>
  BY DEF Return, dbVars, orphanVars
<1> QED
  BY <1>1, <1>2, <1>3 DEF TypeOK

\* Deleting orphans leaves lists of children, each with its own parent.
LEMMA DeleteKeeps ==
  ASSUME TypeOK, OrphanInv, NEW S, Delete(S)
  PROVE  /\ orphan' \subseteq Block
         /\ prevOrphans' \in [Block -> Seq(Block)]
         /\ OrphanInv'
<1>1. orphan' \subseteq Block
  BY DEF TypeOK, Delete
<1>2. \A p \in Block : prevOrphans'[p] = <<>> \/ prevOrphans'[p] = prevOrphans[p]
  BY DEF TypeOK, Delete
<1>3. prevOrphans' \in [Block -> Seq(Block)]
  BY DEF TypeOK, Delete
<1>4. OrphanInv'
  BY <1>2 DEF OrphanInv
<1> QED
  BY <1>1, <1>3, <1>4

\* A stored block stands on its branch at the position after its height.
LEMMA StoredHeight ==
  ASSUME StoreInv, NEW b \in dbBlocks, b \in Block
  PROVE  Len(Branch[b]) = Height[b] + 1
<1>1. Len(Branch[b]) \in 1..Len(Branch[b]) /\ Branch[b][Len(Branch[b])] = b
  BY BranchStep
<1>2. Height[b] = Len(Branch[b]) - 1
  BY <1>1 DEF StoreInv
<1>3. Height[b] \in Nat /\ Len(Branch[b]) \in Nat
  BY BlockAssumption, BranchStep
<1> QED
  BY <1>2, <1>3

\* SetMainChain on top of the branch of another stored block, or of none, yields
\* the branch of its block.
LEMMA NewMainChainIsBranch ==
  ASSUME StoreInv, dbBlocks \subseteq Block,
         NEW b \in dbBlocks, NEW f \in 0..Len(Branch[b]),
         f > 0 => InMainChain(Branch[b][f]),
         f > 0 => \E c \in Block : mainChain = Branch[c]
  PROVE  NewMainChain(b, f) = Branch[b]
<1>1. b \in Block /\ Branch[b] \in Seq(Block) /\ Height[b] + 1 = Len(Branch[b])
  BY StoredHeight, BranchAssumption
<1>2. ASSUME NEW k \in 1..Len(Branch[b]), k <= f
      PROVE  mainChain[k] = Branch[b][k]
  <2>1. f \in 1..Len(Branch[b]) /\ k \in 1..f
    BY <1>2
  <2>2. PICK c \in Block : mainChain = Branch[c]
    BY <2>1
  <2>3. Height[Branch[b][f]] = f - 1
    BY <2>1 DEF StoreInv
  <2>4. f \in DOMAIN mainChain /\ mainChain[f] = Branch[b][f]
    BY <2>1, <2>3 DEF InMainChain
  <2>5. f \in 1..Len(Branch[c]) /\ Branch[c][f] = Branch[b][f]
    <3>1. Branch[c] \in Seq(Block)
      BY BranchAssumption
    <3> QED
      BY <2>2, <2>4, <3>1
  <2>6. Branch[Branch[c][f]][k] = Branch[c][k]
    BY <2>1, <2>5, BranchPrefix
  <2>7. Branch[Branch[b][f]][k] = Branch[b][k]
    BY <1>1, <2>1, BranchPrefix
  <2> QED
    BY <2>2, <2>5, <2>6, <2>7
<1>3. NewMainChain(b, f) = [k \in 1..Len(Branch[b]) |-> Branch[b][k]]
  BY <1>1, <1>2 DEF NewMainChain
<1> QED
  BY <1>1, <1>3, SeqIsFunction
-----------------------------------------------------------------------------
(***************************************************************************)
(* Each action keeps IInv.                                                 *)
(***************************************************************************)

\* processBlock takes a block whose parent is indexed.
LEMMA ReceiveBlockStep ==
  ASSUME NEW b \in Block, IInv, ReceiveBlock(b)
  PROVE  IInv'
<1>1. TypeOK'
  BY DEF ReceiveBlock, BlockExist, dbVars, indexVars, orphanVars, reorgVars, IInv,
       TypeOK, ControlInv, Working, Connecting
<1>2. MainInv'
  BY DEF ReceiveBlock, BlockExist, dbVars, indexVars, orphanVars, reorgVars, IInv,
       MainInv, ControlInv, Tip, Working
<1>3. ControlInv'
  BY DEF ReceiveBlock, BlockExist, dbVars, indexVars, orphanVars, reorgVars, IInv,
       ControlInv, MainInv, Working, Connecting
<1> QED
  BY <1>1, <1>2, <1>3, Frames DEF ReceiveBlock, BlockExist, dbVars, indexVars,
       orphanVars, reorgVars, IInv

\* ValidateBlock refuses the block.
LEMMA SaveRejectStep ==
  ASSUME IInv, SaveReject
  PROVE  IInv'
<1>1. TypeOK'
  BY DEF SaveReject, dbVars, indexVars, orphanVars, reorgVars, IInv, TypeOK, ControlInv,
       Working, Connecting
<1>2. MainInv'
  BY DEF SaveReject, dbVars, indexVars, orphanVars, reorgVars, IInv, MainInv, ControlInv,
       Tip, Working
<1>3. ControlInv'
  BY DEF SaveReject, dbVars, indexVars, orphanVars, reorgVars, IInv, ControlInv, MainInv,
       Working, Connecting
<1> QED
  BY <1>1, <1>2, <1>3, Frames DEF SaveReject, dbVars, indexVars, orphanVars, reorgVars, IInv

\* saveSubBlock asks for an orphan that is gone.
LEMMA SubBlockMissingStep ==
  ASSUME IInv, SubBlockMissing
  PROVE  IInv'
<1>1. TypeOK'
  BY DEF SubBlockMissing, dbVars, indexVars, orphanVars, reorgVars, IInv, TypeOK,
       ControlInv, Working, Connecting
<1>2. MainInv'
  BY DEF SubBlockMissing, dbVars, indexVars, orphanVars, reorgVars, IInv, MainInv,
       ControlInv, Tip, Working
<1>3. ControlInv'
  BY DEF SubBlockMissing, dbVars, indexVars, orphanVars, reorgVars, IInv, ControlInv,
       MainInv, Working, Connecting
<1> QED
  BY <1>1, <1>2, <1>3, Frames DEF SubBlockMissing, dbVars, indexVars, orphanVars,
       reorgVars, IInv

\* A block on top of the best node is higher and adds its work.
LEMMA ConnectBlockStep ==
  ASSUME IInv, ConnectBlock
  PROVE  IInv'
<1>1. cur \in Block \ {Genesis} /\ Prev[cur] \in Block /\ cur \in dbBlocks
  BY BlockAssumption DEF ConnectBlock, IInv, ControlInv, MainInv, IndexInv, TypeOK, Working
<1>2. Height[cur] > Height[bestNode] /\ TotalWork[cur] >= TotalWork[bestNode]
  <2>1. Prev[cur] = bestNode
    BY DEF ConnectBlock
  <2>2. Height[cur] = Height[Prev[cur]] + 1
    BY <1>1 DEF IInv, StoreInv, ValidateBlock
  <2>3. TotalWork[cur] = TotalWork[Prev[cur]] + Work[cur]
    BY <1>1, BranchAssumption
  <2>4. /\ Height[Prev[cur]] \in Nat
        /\ TotalWork[Prev[cur]] \in Nat
        /\ Work[cur] \in Nat
    BY <1>1, BlockAssumption, BranchAssumption
  <2> QED
    BY <2>1, <2>2, <2>3, <2>4
<1>3. TypeOK'
  <2>1. <<cur>> \in Seq(Block) /\ <<>> \in Seq(Block)
    BY <1>1
  <2>2. detach' \in Seq(Block) /\ attach' \in Seq(Block)
    BY <2>1 DEF ConnectBlock, StartReorg
  <2> QED
    BY <2>2 DEF ConnectBlock, StartReorg, dbVars, indexVars, orphanVars, IInv, TypeOK,
         Working
<1>4. MainInv'
  BY DEF ConnectBlock, StartReorg, dbVars, indexVars, orphanVars, reorgVars, IInv,
       MainInv, ControlInv, Tip, Working
<1>5. ControlInv'
  BY <1>2 DEF ConnectBlock, StartReorg, dbVars, indexVars, orphanVars, IInv, ControlInv,
         Working, Connecting
<1> QED
  BY <1>3, <1>4, <1>5, Frames DEF ConnectBlock, StartReorg, dbVars, indexVars,
       orphanVars, reorgVars, IInv

\* reorganizeChain is entered with a better block and two lists of blocks.
LEMMA ReorganizeChainStep ==
  ASSUME IInv, ReorganizeChain
  PROVE  IInv'
<1>1. cur \in Block /\ bestNode \in Block /\ cur \in DOMAIN index /\ bestNode \in DOMAIN index
  BY DEF ReorganizeChain, IInv, ControlInv, MainInv, TypeOK, Working
<1>2. Height[cur] > Height[bestNode] /\ TotalWork[cur] >= TotalWork[bestNode]
  BY <1>1 DEF ReorganizeChain, Better, IInv, IndexInv
<1>3. PICK f \in 1..Len(Branch[cur]) :
        StartReorg(Reversed(From(Branch[bestNode], f + 1)), From(Branch[cur], f + 1))
  BY DEF ReorganizeChain
<1>4. detach' \in Seq(Block) /\ attach' \in Seq(Block)
  <2>1. Branch[bestNode] \in Seq(Block) /\ Branch[cur] \in Seq(Block) /\ f + 1 \in Nat \ {0}
    BY <1>1, BranchAssumption
  <2> QED
    BY <1>3, <2>1, FromType, ReversedType DEF StartReorg
<1>5. TypeOK'
  BY <1>3, <1>4 DEF StartReorg, dbVars, indexVars, orphanVars, IInv, TypeOK, Working
<1>6. MainInv'
  BY <1>3 DEF ReorganizeChain, StartReorg, dbVars, indexVars, orphanVars, IInv, MainInv,
       Tip, Working
<1>7. ControlInv'
  BY <1>2, <1>3 DEF ReorganizeChain, StartReorg, dbVars, indexVars, orphanVars, IInv,
       ControlInv,
         Working, Connecting
<1> QED
  BY <1>5, <1>6, <1>7, Frames DEF ReorganizeChain, StartReorg, Better, dbVars, indexVars,
       orphanVars, reorgVars, IInv

\* The best node stays.
LEMMA KeepBestStep ==
  ASSUME IInv, KeepBest
  PROVE  IInv'
<1>1. TypeOK'
  BY ReturnType DEF KeepBest, dbVars, indexVars, IInv, TypeOK
<1>2. MainInv'
  BY DEF KeepBest, Return, dbVars, indexVars, orphanVars, reorgVars, IInv, MainInv,
       ControlInv, Tip, Working
<1>3. ControlInv'
  BY DEF KeepBest, Return, dbVars, indexVars, orphanVars, reorgVars, IInv, ControlInv,
       MainInv, Working, Connecting
<1> QED
  BY <1>1, <1>2, <1>3, Frames DEF KeepBest, Return, dbVars, indexVars, orphanVars,
       reorgVars, IInv

\* The entries of the next block are loaded.
LEMMA LoadUtxoStep ==
  ASSUME IInv, LoadUtxo
  PROVE  IInv'
<1>1. TypeOK'
  BY DEF LoadUtxo, dbVars, indexVars, orphanVars, reorgVars, IInv, TypeOK, ControlInv,
       Working, Connecting
<1>2. MainInv'
  BY DEF LoadUtxo, dbVars, indexVars, orphanVars, reorgVars, IInv, MainInv, ControlInv,
       Tip, Working
<1>3. ControlInv'
  BY DEF LoadUtxo, dbVars, indexVars, orphanVars, reorgVars, IInv, ControlInv, MainInv,
       Working, Connecting
<1> QED
  BY <1>1, <1>2, <1>3, Frames DEF LoadUtxo, dbVars, indexVars, orphanVars, reorgVars, IInv

\* A transaction is detached, or the reorganisation given up.
LEMMA DetachTxStep ==
  ASSUME IInv, DetachTx
  PROVE  IInv'
<1>1. TypeOK'
  <2>1. CASE Return
    BY <2>1, ReturnType DEF DetachTx, dbVars, indexVars, IInv, TypeOK
  <2>2. CASE ~Return
    <3>1. txi' = txi + 1 /\ UNCHANGED <<orphanVars, pc, cur, stack, detach, attach, toLoad>>
      BY <2>2 DEF DetachTx
    <3>2. UNCHANGED <<dbVars, indexVars>>
      BY DEF DetachTx
    <3> QED
      BY <3>1, <3>2 DEF dbVars, indexVars, orphanVars, IInv, TypeOK
  <2> QED
    BY <2>1, <2>2
<1>2. MainInv'
  BY DEF DetachTx, Return, dbVars, indexVars, orphanVars, reorgVars, IInv, MainInv,
       ControlInv, Tip, Working
<1>3. ControlInv'
  BY DEF DetachTx, Return, dbVars, indexVars, orphanVars, reorgVars, IInv, ControlInv,
       MainInv, Working, Connecting
<1> QED
  BY <1>1, <1>2, <1>3, Frames DEF DetachTx, Return, dbVars, indexVars, orphanVars,
       reorgVars, IInv

\* The next block to detach.
LEMMA DetachNextStep ==
  ASSUME IInv, DetachNext
  PROVE  IInv'
<1>1. TypeOK'
  <2>1. detach \in Seq(Block) /\ detach # <<>>
    BY DEF DetachNext, IInv, TypeOK, ControlInv
  <2>2. Tail(detach) \in Seq(Block)
    BY <2>1
  <2> QED
    BY <2>2 DEF DetachNext, dbVars, indexVars, orphanVars, IInv, TypeOK, Working
<1>2. MainInv'
  BY DEF DetachNext, dbVars, indexVars, orphanVars, reorgVars, IInv, MainInv, ControlInv,
       Tip, Working
<1>3. ControlInv'
  BY DEF DetachNext, dbVars, indexVars, orphanVars, reorgVars, IInv, ControlInv, MainInv,
       Working, Connecting
<1> QED
  BY <1>1, <1>2, <1>3, Frames DEF DetachNext, dbVars, indexVars, orphanVars, reorgVars, IInv

\* The next block to attach.
LEMMA ApplyNextStep ==
  ASSUME IInv, ApplyNext
  PROVE  IInv'
<1>1. TypeOK'
  <2>1. attach \in Seq(Block) /\ attach # <<>>
    BY DEF ApplyNext, IInv, TypeOK, ControlInv
  <2>2. Tail(attach) \in Seq(Block)
    BY <2>1
  <2> QED
    BY <2>2 DEF ApplyNext, dbVars, indexVars, orphanVars, IInv, TypeOK, Working
<1>2. MainInv'
  BY DEF ApplyNext, dbVars, indexVars, orphanVars, reorgVars, IInv, MainInv, ControlInv,
       Tip, Working
<1>3. ControlInv'
  BY DEF ApplyNext, dbVars, indexVars, orphanVars, reorgVars, IInv, ControlInv, MainInv,
       Working, Connecting
<1> QED
  BY <1>1, <1>2, <1>3, Frames DEF ApplyNext, dbVars, indexVars, orphanVars, reorgVars, IInv

\* A transaction is applied.
LEMMA ApplyTxStep ==
  ASSUME IInv, ApplyTx
  PROVE  IInv'
<1>1. TypeOK'
  <2>1. TypeOK
    BY DEF IInv
  <2>2. txi' \in Nat
    BY <2>1 DEF ApplyTx, TypeOK
  <2>3. UNCHANGED <<dbVars, indexVars, orphanVars, pc, cur, stack, detach, attach, toLoad>>
    BY DEF ApplyTx
  <2> QED
    BY <2>1, <2>2, <2>3 DEF TypeOK, dbVars, indexVars, orphanVars
<1>2. MainInv'
  BY DEF ApplyTx, dbVars, indexVars, orphanVars, reorgVars, IInv, MainInv, ControlInv,
       Tip, Working
<1>3. ControlInv'
  BY DEF ApplyTx, dbVars, indexVars, orphanVars, reorgVars, IInv, ControlInv, MainInv,
       Working, Connecting
<1> QED
  BY <1>1, <1>2, <1>3, Frames DEF ApplyTx, dbVars, indexVars, orphanVars, reorgVars, IInv

\* A transaction cannot be applied.
LEMMA ApplyFailStep ==
  ASSUME IInv, ApplyFail
  PROVE  IInv'
<1>1. TypeOK'
  BY ReturnType DEF ApplyFail, dbVars, indexVars, IInv, TypeOK
<1>2. MainInv'
  BY DEF ApplyFail, Return, dbVars, indexVars, orphanVars, reorgVars, IInv, MainInv,
       ControlInv, Tip, Working
<1>3. ControlInv'
  BY DEF ApplyFail, Return, dbVars, indexVars, orphanVars, reorgVars, IInv, ControlInv,
       MainInv, Working, Connecting
<1> QED
  BY <1>1, <1>2, <1>3, Frames DEF ApplyFail, Return, dbVars, indexVars, orphanVars,
       reorgVars, IInv

\* connectBlock takes a transaction out of the pool.
LEMMA EvictTxStep ==
  ASSUME IInv, EvictTx
  PROVE  IInv'
<1>1. TypeOK'
  <2>1. CASE Return
    BY <2>1, ReturnType DEF EvictTx, dbVars, indexVars, IInv, TypeOK
  <2>2. CASE ~Return
    BY <2>2 DEF EvictTx, dbVars, indexVars, orphanVars, IInv, TypeOK
  <2> QED
    BY <2>1, <2>2
<1>2. MainInv'
  BY DEF EvictTx, Return, dbVars, indexVars, orphanVars, reorgVars, IInv, MainInv,
       ControlInv, Tip, Working
<1>3. ControlInv'
  BY DEF EvictTx, Return, dbVars, indexVars, orphanVars, reorgVars, IInv, ControlInv,
       MainInv, Working, Connecting
<1> QED
  BY <1>1, <1>2, <1>3, Frames DEF EvictTx, Return, dbVars, indexVars, orphanVars,
       reorgVars, IInv

\* The node starts.
LEMMA NewChainStep ==
  ASSUME IInv, NewChain
  PROVE  IInv'
<1>1. TypeOK'
  BY DEF NewChain, dbVars, indexVars, orphanVars, reorgVars, IInv, TypeOK, ControlInv,
       Working, Starting, Connecting
<1>2. MainInv'
  BY DEF NewChain, dbVars, indexVars, orphanVars, reorgVars, IInv, MainInv, ControlInv,
       Tip, Working, Starting
<1>3. ControlInv'
  BY DEF NewChain, dbVars, indexVars, orphanVars, reorgVars, IInv, ControlInv, MainInv,
       Working, Starting, Connecting
<1> QED
  BY <1>1, <1>2, <1>3, Frames DEF NewChain, dbVars, indexVars, orphanVars, reorgVars, IInv
\* processBlock keeps a block without a parent, which is not the genesis block.
LEMMA ReceiveOrphanStep ==
  ASSUME NEW b \in Block, IInv, ReceiveOrphan(b)
  PROVE  IInv'
<1>1. b # Genesis /\ Prev[b] \in Block
  BY BlockAssumption DEF ReceiveOrphan, BlockExist, IInv, ControlInv, Working
<1>2. prevOrphans \in [Block -> Seq(Block)]
  BY DEF IInv, TypeOK
<1>3. \A p \in Block : prevOrphans'[p] = IF p = Prev[b] THEN Append(prevOrphans[p], b)
                                         ELSE prevOrphans[p]
  BY <1>1, <1>2 DEF ReceiveOrphan, Add
<1>4. prevOrphans' \in [Block -> Seq(Block)]
  BY <1>1, <1>2 DEF ReceiveOrphan, Add
<1>5. TypeOK'
  BY <1>4 DEF ReceiveOrphan, Add, dbVars, indexVars, reorgVars, IInv, TypeOK
<1>6. OrphanInv'
  <2>1. SUFFICES ASSUME NEW p \in Block, NEW i \in 1..Len(prevOrphans'[p])
                 PROVE  prevOrphans'[p][i] # Genesis /\ Prev[prevOrphans'[p][i]] = p
    BY DEF OrphanInv
  <2>2. CASE p = Prev[b]
    <3>1. prevOrphans'[p] = Append(prevOrphans[p], b) /\ prevOrphans[p] \in Seq(Block)
      BY <1>2, <1>3, <2>2
    <3>2. CASE i \in 1..Len(prevOrphans[p])
      BY <3>1, <3>2 DEF IInv, OrphanInv
    <3>3. CASE i = Len(prevOrphans[p]) + 1
      BY <1>1, <2>2, <3>1, <3>3
    <3> QED
      BY <3>1, <3>2, <3>3
  <2>3. CASE p # Prev[b]
    BY <1>3, <2>3 DEF IInv, OrphanInv
  <2> QED
    BY <2>2, <2>3
<1>7. MainInv'
  BY DEF ReceiveOrphan, indexVars, IInv, MainInv, Tip
<1>8. ControlInv'
  BY DEF ReceiveOrphan, dbVars, indexVars, reorgVars, IInv, ControlInv
<1> QED
  BY <1>5, <1>6, <1>7, <1>8, Frames DEF ReceiveOrphan, dbVars, indexVars, IInv

\* orphanExpire deletes orphans.
LEMMA OrphanExpireStep ==
  ASSUME IInv, OrphanExpire
  PROVE  IInv'
<1>1. PICK S \in (SUBSET orphan) \ {{}} : Delete(S)
  BY DEF OrphanExpire
<1>2. orphan' \subseteq Block /\ prevOrphans' \in [Block -> Seq(Block)] /\ OrphanInv'
  BY <1>1, DeleteKeeps DEF IInv
<1>3. TypeOK'
  BY <1>2 DEF OrphanExpire, dbVars, indexVars, reorgVars, IInv, TypeOK
<1>4. MainInv'
  BY DEF OrphanExpire, indexVars, IInv, MainInv, Tip
<1>5. ControlInv'
  BY ZenonT(40) DEF OrphanExpire, dbVars, indexVars, reorgVars, IInv, ControlInv
<1> QED
  BY <1>2, <1>3, <1>4, <1>5, Frames DEF OrphanExpire, dbVars, indexVars, IInv

\* A valid block whose parent is stored may be added to the store.
LEMMA StoreGrows ==
  ASSUME StoreInv, dbBlocks \subseteq Block, NEW b \in Block,
         b # Genesis => Prev[b] \in dbBlocks /\ ValidateBlock(b),
         dbBlocks' = dbBlocks \cup {b}, dbStatus' = dbStatus
  PROVE  StoreInv'
<1>1. \A c \in dbBlocks' \ {Genesis} : Prev[c] \in dbBlocks' /\ ValidateBlock(c)
  BY DEF StoreInv
<1>2. ASSUME NEW c \in dbBlocks', NEW i \in 1..Len(Branch[c])
      PROVE  Branch[c][i] \in dbBlocks' /\ Height[Branch[c][i]] = i - 1
  <2>1. CASE c \in dbBlocks
    BY <2>1 DEF StoreInv
  <2>2. CASE c = b /\ b = Genesis
    <3>1. Len(Branch[Genesis]) = 1 /\ Branch[Genesis][1] = Genesis
      BY BranchAssumption
    <3>2. i = 1
      BY <2>2, <3>1
    <3> QED
      BY <2>2, <3>1, <3>2, BlockAssumption
  <2>3. CASE c = b /\ b # Genesis
    <3>1. /\ Prev[b] \in dbBlocks /\ Prev[b] \in Block
          /\ Height[b] = Height[Prev[b]] + 1
      BY <2>3 DEF ValidateBlock
    <3>2. /\ Len(Branch[b]) = Len(Branch[Prev[b]]) + 1
          /\ Branch[b][Len(Branch[b])] = b
          /\ \A k \in 1..Len(Branch[Prev[b]]) : Branch[b][k] = Branch[Prev[b]][k]
      BY <2>3, BranchStep
    <3>3. Len(Branch[Prev[b]]) = Height[Prev[b]] + 1 /\ Height[Prev[b]] \in Nat
      BY <3>1, StoredHeight, BlockAssumption
    <3>4. CASE i = Len(Branch[b])
      BY <2>3, <3>1, <3>2, <3>3, <3>4
    <3>5. CASE i # Len(Branch[b])
      <4>1. i \in 1..Len(Branch[Prev[b]])
        BY <2>3, <3>2, <3>3, <3>5
      <4>2. Branch[b][i] = Branch[Prev[b]][i]
        BY <3>2, <4>1
      <4>3. Branch[Prev[b]][i] \in dbBlocks /\ Height[Branch[Prev[b]][i]] = i - 1
        BY <3>1, <4>1 DEF StoreInv
      <4> QED
        BY <2>3, <4>2, <4>3
    <3> QED
      BY <3>4, <3>5
  <2> QED
    BY <2>1, <2>2, <2>3
<1>3. dbStatus' # None => dbStatus' \in dbBlocks' /\ Genesis \in dbBlocks'
  BY DEF StoreInv
<1> QED
  BY <1>1, <1>2, <1>3 DEF StoreInv

\* A valid block is written.
LEMMA SaveBlockStep ==
  ASSUME IInv, SaveBlock
  PROVE  IInv'
<1>1. TypeOK'
  BY DEF SaveBlock, indexVars, orphanVars, reorgVars, IInv, TypeOK, ControlInv, Working
<1>2. StoreInv'
  BY StoreGrows DEF SaveBlock, IInv, TypeOK, ControlInv, IndexInv
<1>3. IndexInv'
  BY DEF SaveBlock, indexVars, IInv, IndexInv
<1>4. MainInv'
  BY DEF SaveBlock, indexVars, IInv, MainInv, Tip, Working
<1>5. ControlInv'
  BY DEF SaveBlock, indexVars, orphanVars, reorgVars, IInv, ControlInv, Working, Connecting
<1> QED
  BY <1>1, <1>2, <1>3, <1>4, <1>5, Frames DEF SaveBlock, indexVars, orphanVars, IInv

\* A stored block may be indexed after its parent.
LEMMA IndexGrows ==
  ASSUME IndexInv, DOMAIN index \subseteq Block, NEW b \in dbBlocks, b \in Block,
         b # Genesis => Prev[b] \in DOMAIN index,
         AddNode(b), UNCHANGED dbBlocks
  PROVE  IndexInv' /\ DOMAIN index' = DOMAIN index \cup {b}
<1>1. DOMAIN index' = DOMAIN index \cup {b}
  BY DEF AddNode
<1>2. WorkSum(b) = TotalWork[b]
  BY BranchAssumption DEF WorkSum, IndexInv
<1>3. \A x \in DOMAIN index' : index'[x] = TotalWork[x]
  BY <1>2 DEF AddNode, IndexInv
<1>4. \A x \in DOMAIN index' : x \in dbBlocks' /\ (x # Genesis => Prev[x] \in DOMAIN index')
  BY <1>1 DEF IndexInv
<1> QED
  BY <1>1, <1>3, <1>4 DEF IndexInv

\* The written block is indexed and its orphans are listed.
LEMMA LinkBlockStep ==
  ASSUME IInv, LinkBlock
  PROVE  IInv'
<1> DEFINE call == [block |-> cur, todo |-> prevOrphans[cur], best |-> cur]
<1>1. cur \in Block \ {Genesis} /\ Prev[cur] \in DOMAIN index /\ cur \in dbBlocks
  BY DEF LinkBlock, IInv, ControlInv
<1>2. IndexInv' /\ DOMAIN index' = DOMAIN index \cup {cur}
  BY <1>1, IndexGrows DEF LinkBlock, dbVars, IInv, TypeOK
<1>3. orphan' \subseteq Block /\ prevOrphans' \in [Block -> Seq(Block)] /\ OrphanInv'
  BY DeleteKeeps DEF LinkBlock, IInv
<1>4. /\ call \in [block : Block, todo : Seq(Block), best : Block]
      /\ call.block = cur /\ call.best = cur /\ call.todo = prevOrphans[cur]
  BY <1>1 DEF IInv, TypeOK
<1>5. /\ stack \in Seq([block : Block, todo : Seq(Block), best : Block])
      /\ stack' = Append(stack, call)
  BY DEF LinkBlock, IInv, TypeOK
<1> HIDE DEF call
<1>6. /\ stack' \in Seq([block : Block, todo : Seq(Block), best : Block])
      /\ Len(stack') = Len(stack) + 1
      /\ stack'[Len(stack')] = call
      /\ \A k \in 1..Len(stack) : stack'[k] = stack[k]
  BY <1>4, <1>5
<1>7. TypeOK'
  <2>1. \A x \in DOMAIN index' : x \in Block /\ index'[x] \in Nat
    <3>1. DOMAIN index' \subseteq Block
      BY <1>1, <1>2 DEF IInv, TypeOK
    <3>2. \A x \in DOMAIN index' : index'[x] = TotalWork[x]
      BY <1>2 DEF IndexInv
    <3>3. TotalWork \in [Block -> Nat]
      BY BranchAssumption
    <3> QED
      BY <3>1, <3>2, <3>3
  <2> QED
    BY <1>3, <1>6, <2>1 DEF LinkBlock, dbVars, reorgVars, IInv, TypeOK, Working
<1>8. StackInv'
  <2>1. SUFFICES ASSUME NEW k \in 1..Len(stack')
                 PROVE  /\ stack'[k].block \in DOMAIN index'
                        /\ stack'[k].best \in DOMAIN index'
                        /\ \A i \in 1..Len(stack'[k].todo) :
                             /\ stack'[k].todo[i] # Genesis
                             /\ Prev[stack'[k].todo[i]] = stack'[k].block
    BY DEF StackInv
  <2>2. CASE k = Len(stack')
    BY <1>1, <1>2, <1>4, <1>6, <2>2 DEF IInv, OrphanInv
  <2>3. CASE k # Len(stack')
    <3>1. k \in 1..Len(stack) /\ stack'[k] = stack[k]
      BY <1>5, <1>6, <2>3
    <3> QED
      BY <1>2, <3>1 DEF IInv, StackInv
  <2> QED
    BY <2>2, <2>3
<1>9. MainInv'
  BY <1>2 DEF LinkBlock, IInv, MainInv, ControlInv, Tip, Working
<1>10. ControlInv'
  <2>1. stack' # <<>>
    BY <1>5, <1>6
  <2> QED
    BY <1>2, <2>1 DEF LinkBlock, dbVars, reorgVars, IInv, ControlInv, Working, Connecting
<1> QED
  BY <1>2, <1>3, <1>7, <1>8, <1>9, <1>10, Frames DEF LinkBlock, dbVars, IInv

\* saveSubBlock takes the next orphan of its list.
LEMMA SubBlockStep ==
  ASSUME IInv, SubBlock
  PROVE  IInv'
<1> DEFINE n == Len(stack)
           Call == [block : Block, todo : Seq(Block), best : Block]
<1>1. stack \in Seq(Call) /\ n \in 1..Len(stack) /\ stack[n] \in Call
  <2>1. stack \in Seq(Call) /\ stack # <<>>
    BY DEF SubBlock, IInv, TypeOK, ControlInv
  <2> HIDE DEF Call
  <2> QED
    BY <2>1
<1>2. stack[n].todo \in Seq(Block) /\ stack[n].todo # <<>>
  BY <1>1 DEF SubBlock, Top
<1>3. /\ cur' = stack[n].todo[1]
      /\ stack' = [stack EXCEPT ![n].todo = Tail(stack[n].todo)]
  BY <1>2 DEF SubBlock, Top
<1>4. Tail(stack[n].todo) \in Seq(Block)
  BY <1>2
<1>5. /\ \A k \in 1..Len(stack) : k # n => stack'[k] = stack[k]
      /\ stack'[n] = [stack[n] EXCEPT !.todo = Tail(stack[n].todo)]
      /\ Len(stack') = n
      /\ stack' \in Seq(Call)
  <2>1. [stack[n] EXCEPT !.todo = Tail(stack[n].todo)] \in Call
    BY <1>1, <1>4
  <2>2. stack' = [stack EXCEPT ![n] = [stack[n] EXCEPT !.todo = Tail(stack[n].todo)]]
    BY <1>3
  <2> HIDE DEF Call, n
  <2>3. stack \in [1..Len(stack) -> Call] /\ Len(stack) \in Nat
    BY <1>1
  <2>4. stack' \in [1..Len(stack) -> Call]
    BY <2>1, <2>2, <2>3
  <2>5. stack' \in Seq(Call) /\ Len(stack') = Len(stack)
    BY <2>3, <2>4
  <2>6. /\ \A k \in 1..Len(stack) : k # n => stack'[k] = stack[k]
        /\ stack'[n] = [stack[n] EXCEPT !.todo = Tail(stack[n].todo)]
    BY <1>1, <2>2, <2>3
  <2> QED
    BY <2>5, <2>6 DEF n
<1>6. /\ stack'[n].block = stack[n].block
      /\ stack'[n].best = stack[n].best
      /\ stack'[n].todo = Tail(stack[n].todo)
  BY <1>1, <1>5
<1>7. /\ \A i \in 1..Len(stack[n].todo) :
           stack[n].todo[i] # Genesis /\ Prev[stack[n].todo[i]] = stack[n].block
      /\ stack[n].block \in DOMAIN index
      /\ stack[n].best \in DOMAIN index
  BY <1>1 DEF IInv, StackInv
<1>8. cur' \in Block \ {Genesis} /\ Prev[cur'] \in DOMAIN index
  BY <1>2, <1>3, <1>7
<1>9. TypeOK'
  BY <1>5, <1>8 DEF SubBlock, dbVars, indexVars, orphanVars, reorgVars, IInv, TypeOK,
       Working
<1>10. StackInv'
  <2>1. SUFFICES ASSUME NEW k \in 1..Len(stack)
                 PROVE  /\ stack'[k].block \in DOMAIN index
                        /\ stack'[k].best \in DOMAIN index
                        /\ \A i \in 1..Len(stack'[k].todo) :
                             /\ stack'[k].todo[i] # Genesis
                             /\ Prev[stack'[k].todo[i]] = stack'[k].block
    BY <1>5 DEF StackInv, SubBlock, indexVars
  <2>2. CASE k = n
    <3>1. \A i \in 1..Len(Tail(stack[n].todo)) :
            i + 1 \in 1..Len(stack[n].todo) /\ Tail(stack[n].todo)[i] = stack[n].todo[i + 1]
      BY <1>2
    <3>2. \A i \in 1..Len(stack'[n].todo) :
            stack'[n].todo[i] # Genesis /\ Prev[stack'[n].todo[i]] = stack[n].block
      BY <1>6, <1>7, <3>1
    <3> QED
      BY <1>6, <1>7, <2>2, <3>2
  <2>3. CASE k # n
    BY <1>5, <2>3 DEF IInv, StackInv
  <2> QED
    BY <2>2, <2>3
<1>11. MainInv'
  BY DEF SubBlock, indexVars, IInv, MainInv, ControlInv, Tip, Working
<1>12. ControlInv'
  BY <1>8 DEF SubBlock, dbVars, indexVars, orphanVars, reorgVars, IInv, ControlInv,
       Working, Connecting
<1> QED
  BY <1>9, <1>10, <1>11, <1>12, Frames DEF SubBlock, dbVars, indexVars, orphanVars, IInv

\* saveSubBlock returns, to its caller or to processBlock.
LEMMA SubReturnStep ==
  ASSUME IInv, SubReturn
  PROVE  IInv'
<1> DEFINE n == Len(stack)
           Call == [block : Block, todo : Seq(Block), best : Block]
<1>1. stack \in Seq(Call) /\ n \in Nat \ {0} /\ stack # <<>>
  <2>1. stack \in Seq(Call) /\ stack # <<>>
    BY DEF SubReturn, IInv, TypeOK, ControlInv
  <2> HIDE DEF Call
  <2> QED
    BY <2>1
<1>2. \A k \in 1..n :
        /\ stack[k] \in Call
        /\ stack[k].block \in DOMAIN index
        /\ stack[k].best \in DOMAIN index
        /\ stack[k].best \in Block
        /\ \A i \in 1..Len(stack[k].todo) :
             stack[k].todo[i] # Genesis /\ Prev[stack[k].todo[i]] = stack[k].block
  <2>1. \A k \in 1..n : stack[k] \in Call
    <3> HIDE DEF Call
    <3> QED
      BY <1>1
  <2>2. \A k \in 1..n : stack[k].best \in Block
    BY <2>1
  <2> HIDE DEF Call
  <2> QED
    BY <2>1, <2>2 DEF IInv, StackInv
<1>3. CASE n = 1
  <2>1. stack' = <<>> /\ pc' = "select" /\ cur' = stack[1].best
    BY <1>3 DEF SubReturn, Top
  <2>2. cur' \in DOMAIN index /\ cur' \in Block
    BY <1>2, <1>3, <2>1
  <2>3. StackInv'
    BY <2>1 DEF StackInv
  <2>4. TypeOK'
    <3>1. TypeOK
      BY DEF IInv
    <3>2. pc' \in Working /\ stack' \in Seq(Call)
      BY <2>1 DEF Working
    <3>3. UNCHANGED <<dbVars, indexVars, orphanVars, reorgVars, toLoad>>
      BY DEF SubReturn
    <3> QED
      BY <2>2, <3>1, <3>2, <3>3 DEF TypeOK, dbVars, indexVars, orphanVars, reorgVars
  <2>5. MainInv'
    BY <2>1 DEF SubReturn, indexVars, IInv, MainInv, ControlInv, Tip, Working
  <2>6. ControlInv'
    BY <2>1, <2>2 DEF SubReturn, dbVars, indexVars, reorgVars, IInv, ControlInv, Working,
         Connecting
  <2> QED
    BY <2>3, <2>4, <2>5, <2>6, Frames DEF SubReturn, dbVars, indexVars, orphanVars, IInv
<1>4. CASE n # 1
  <2>1. PICK x \in {stack[n].best, stack[n - 1].best} :
          stack' = [Pop EXCEPT ![n - 1].best = x]
    BY <1>4 DEF SubReturn, Top
  <2>2. n - 1 \in 1..n /\ n \in 1..n /\ n - 1 \in Nat \ {0}
    <3> HIDE DEF Call, n
    <3> QED
      BY <1>1, <1>4
  <2>3. x \in Block /\ x \in DOMAIN index
    BY <1>2, <2>2
  <2>4. /\ Pop \in [1..(n - 1) -> Call]
        /\ \A k \in 1..(n - 1) : Pop[k] = stack[k]
    <3> HIDE DEF Call
    <3>1. Pop \in Seq(Call) /\ Len(Pop) = n - 1 /\ \A k \in 1..(n - 1) : Pop[k] = stack[k]
      BY <1>1, <2>2 DEF Pop
    <3> QED
      BY <3>1
  <2>5. stack' = [Pop EXCEPT ![n - 1] = [stack[n - 1] EXCEPT !.best = x]]
    BY <2>1, <2>2, <2>4
  <2>6. /\ [stack[n - 1] EXCEPT !.best = x] \in Call
        /\ [stack[n - 1] EXCEPT !.best = x].block = stack[n - 1].block
        /\ [stack[n - 1] EXCEPT !.best = x].todo = stack[n - 1].todo
        /\ [stack[n - 1] EXCEPT !.best = x].best = x
    BY <1>2, <2>2, <2>3
  <2>7. /\ stack' \in Seq(Call) /\ Len(stack') = n - 1
        /\ stack'[n - 1] = [stack[n - 1] EXCEPT !.best = x]
        /\ \A k \in 1..(n - 1) : k # n - 1 => stack'[k] = stack[k]
    <3> HIDE DEF Call, n
    <3>1. stack' \in [1..(n - 1) -> Call]
      BY <2>2, <2>4, <2>5, <2>6
    <3>2. stack' \in Seq(Call) /\ Len(stack') = n - 1
      BY <2>2, <3>1
    <3> QED
      BY <2>2, <2>4, <2>5, <3>2
  <2>8. pc' = pc /\ cur' = cur /\ pc = "sub"
    BY <1>4 DEF SubReturn
  <2>9. TypeOK'
    BY <2>7, <2>8 DEF SubReturn, dbVars, indexVars, orphanVars, reorgVars, IInv, TypeOK
  <2>10. StackInv'
    <3>1. SUFFICES ASSUME NEW k \in 1..(n - 1)
                   PROVE  /\ stack'[k].block \in DOMAIN index
                          /\ stack'[k].best \in DOMAIN index
                          /\ \A i \in 1..Len(stack'[k].todo) :
                               /\ stack'[k].todo[i] # Genesis
                               /\ Prev[stack'[k].todo[i]] = stack'[k].block
      BY <2>7 DEF StackInv, SubReturn, indexVars
    <3>2. k \in 1..n
      BY <1>1
    <3>3. CASE k = n - 1
      <4>1. /\ stack'[k].block = stack[k].block
            /\ stack'[k].todo = stack[k].todo
            /\ stack'[k].best = x
        BY <2>6, <2>7, <3>3
      <4> HIDE DEF Call, n
      <4> QED
        BY <1>2, <2>3, <3>2, <4>1
    <3>4. CASE k # n - 1
      BY <1>2, <2>7, <3>2, <3>4
    <3> QED
      BY <3>3, <3>4
  <2>11. MainInv'
    BY <2>8 DEF SubReturn, indexVars, IInv, MainInv, Tip
  <2>12. ControlInv'
    <3>1. stack' # <<>>
      BY <2>2, <2>7
    <3> QED
      BY <2>8, <3>1 DEF SubReturn, dbVars, indexVars, reorgVars, IInv, ControlInv,
           Working, Connecting
  <2> QED
    BY <2>9, <2>10, <2>11, <2>12, Frames DEF SubReturn, dbVars, indexVars, orphanVars, IInv
<1> QED
  BY <1>3, <1>4

\* The view and the status are written.
LEMMA SaveChainStatusStep ==
  ASSUME IInv, SaveChainStatus
  PROVE  IInv'
<1>1. cur \in dbBlocks /\ Genesis \in dbBlocks
  BY DEF SaveChainStatus, IInv, ControlInv, IndexInv, Connecting, Working
<1>2. TypeOK'
  BY <1>1 DEF SaveChainStatus, indexVars, orphanVars, reorgVars, IInv, TypeOK, Working
<1>3. StoreInv'
  BY <1>1 DEF SaveChainStatus, IInv, StoreInv, ValidateBlock
<1>4. MainInv'
  BY DEF SaveChainStatus, indexVars, IInv, MainInv, ControlInv, Tip, Working
<1>5. ControlInv'
  BY DEF SaveChainStatus, indexVars, orphanVars, reorgVars, IInv, ControlInv, Working,
       Connecting
<1> QED
  BY <1>2, <1>3, <1>4, <1>5, Frames DEF SaveChainStatus, indexVars, orphanVars, IInv

\* SetMainChain turns the main chain into the branch of the new block.
LEMMA SetMainChainStep ==
  ASSUME IInv, SetMainChain
  PROVE  IInv'
<1>1. /\ cur \in dbBlocks /\ cur \in Block /\ dbBlocks \subseteq Block
      /\ bestNode \in Block /\ mainChain = Branch[bestNode]
  BY DEF SetMainChain, IInv, TypeOK, ControlInv, IndexInv, MainInv, Tip, Connecting, Working
<1>2. PICK f \in 0..Len(Branch[cur]) : ForkPoint(cur, f) /\ mainChain' = NewMainChain(cur, f)
  BY DEF SetMainChain
<1>3. mainChain' = Branch[cur]
  BY <1>1, <1>2, NewMainChainIsBranch DEF ForkPoint, IInv
<1>4. TypeOK'
  BY <1>1, <1>3, BranchAssumption
     DEF SetMainChain, dbVars, orphanVars, reorgVars, IInv, TypeOK, Working
<1>5. MainInv'
  BY <1>3 DEF SetMainChain, IInv, MainInv, Tip, Working
<1>6. ControlInv'
  BY DEF SetMainChain, dbVars, orphanVars, reorgVars, IInv, ControlInv, Working, Connecting
<1> QED
  BY <1>4, <1>5, <1>6, Frames DEF SetMainChain, dbVars, orphanVars, IInv

\* setState assigns the best node.
LEMMA SetBestNodeStep ==
  ASSUME IInv, SetBestNode
  PROVE  IInv'
<1>1. /\ pc = "setBest" /\ cur \in Block /\ cur \in DOMAIN index
      /\ dbStatus = cur /\ mainChain = Branch[cur] /\ bestNode' = cur
  BY DEF SetBestNode, IInv, TypeOK, ControlInv, MainInv, Tip, Connecting, Working
<1>2. UNCHANGED <<dbVars, index, mainChain, orphanVars, stack>>
  BY DEF SetBestNode, Return
<1>3. \/ Return
      \/ pc' = "evict" /\ UNCHANGED <<orphanVars, cur, stack, reorgVars, toLoad>>
  BY DEF SetBestNode
<1>4. pc' \in {"evict", "idle"} /\ (pc' = "evict" => cur' = cur)
  BY <1>3 DEF Return
<1>5. TypeOK'
  <2>1. CASE Return
    BY <1>1, <1>2, <2>1, ReturnType DEF IInv
  <2>2. CASE ~Return
    BY <1>1, <1>2, <1>3, <2>2 DEF dbVars, orphanVars, reorgVars, IInv, TypeOK, Working
  <2> QED
    BY <2>1, <2>2
<1>6. MainInv'
  BY <1>1, <1>2, <1>4 DEF MainInv, Tip, Working
<1>7. ControlInv'
  BY <1>1, <1>2, <1>4, BlockAssumption DEF dbVars, IInv, ControlInv, Working, Connecting
<1> QED
  BY <1>2, <1>5, <1>6, <1>7, Frames DEF dbVars, orphanVars, IInv

\* A crash leaves the store.
LEMMA CrashStep ==
  ASSUME IInv, Crash
  PROVE  IInv'
<1>1. index' = Empty /\ DOMAIN index' = {}
  BY DEF Crash, Forget, Empty
<1>2. /\ prevOrphans' = [p \in Block |-> <<>>]
      /\ mainChain' = <<>> /\ bestNode' = None /\ orphan' = {} /\ cur' = None
      /\ stack' = <<>> /\ detach' = <<>> /\ attach' = <<>> /\ txi' = 0 /\ toLoad' = {}
      /\ pc' = "down" /\ UNCHANGED <<dbBlocks, dbStatus>>
  BY DEF Crash, Forget, dbVars
<1>3. TypeOK'
  <2>1. prevOrphans' \in [Block -> Seq(Block)]
    BY <1>2
  <2> QED
    BY <1>1, <1>2, <2>1 DEF IInv, TypeOK
<1>4. IndexInv' /\ OrphanInv' /\ StackInv'
  BY <1>1, <1>2 DEF IndexInv, OrphanInv, StackInv
<1>5. MainInv'
  BY <1>2 DEF MainInv
<1>6. ControlInv'
  BY <1>1, <1>2 DEF ControlInv, Working, Connecting
<1> QED
  BY <1>2, <1>3, <1>4, <1>5, <1>6, Frames DEF IInv

\* initChainStatus writes the genesis block.
LEMMA InitSaveGenesisStep ==
  ASSUME IInv, InitSaveGenesis
  PROVE  IInv'
<1>1. TypeOK'
  BY BlockAssumption
     DEF InitSaveGenesis, indexVars, orphanVars, reorgVars, IInv, TypeOK, Starting
<1>2. StoreInv'
  BY StoreGrows, BlockAssumption DEF InitSaveGenesis, IInv, TypeOK
<1>3. IndexInv'
  BY DEF InitSaveGenesis, indexVars, IInv, IndexInv
<1>4. MainInv'
  BY DEF InitSaveGenesis, indexVars, IInv, MainInv, Tip, Working
<1>5. ControlInv'
  BY DEF InitSaveGenesis, indexVars, orphanVars, reorgVars, IInv, ControlInv, Working,
       Connecting
<1> QED
  BY <1>1, <1>2, <1>3, <1>4, <1>5, Frames DEF InitSaveGenesis, indexVars, orphanVars, IInv

\* initChainStatus writes the status.
LEMMA InitSaveStatusStep ==
  ASSUME IInv, InitSaveStatus
  PROVE  IInv'
<1>1. TypeOK'
  BY BlockAssumption
     DEF InitSaveStatus, indexVars, orphanVars, reorgVars, IInv, TypeOK, Starting
<1>2. StoreInv'
  BY DEF InitSaveStatus, IInv, StoreInv, ControlInv, ValidateBlock
<1>3. MainInv'
  BY DEF InitSaveStatus, indexVars, IInv, MainInv, Tip, Working
<1>4. ControlInv'
  BY BlockAssumption
     DEF InitSaveStatus, indexVars, orphanVars, reorgVars, IInv, ControlInv, Working, Connecting
<1> QED
  BY <1>1, <1>2, <1>3, <1>4, Frames DEF InitSaveStatus, indexVars, orphanVars, IInv

\* LoadBlockIndex meets the parent of a block before the block: it is stored, of
\* less height, and headers are read in the order of their heights.
LEMMA LoadHeaderStep ==
  ASSUME NEW b \in Block, IInv, LoadHeader(b)
  PROVE  IInv'
<1>1. /\ pc = "index" /\ b \in toLoad /\ dbBlocks = toLoad \cup DOMAIN index
      /\ \A c \in toLoad : Height[b] <= Height[c]
      /\ \A c \in DOMAIN index, d \in toLoad : Height[c] <= Height[d]
      /\ Height \in [Block -> Nat] /\ toLoad \subseteq Block /\ DOMAIN index \subseteq Block
  BY BlockAssumption DEF LoadHeader, NextHeader, IInv, ControlInv, TypeOK
<1>2. b # Genesis => Prev[b] \in DOMAIN index
  <2>1. SUFFICES ASSUME b # Genesis
                 PROVE  Prev[b] \notin toLoad
    BY <1>1 DEF IInv, StoreInv
  <2>2. Height[b] = Height[Prev[b]] + 1 /\ Prev[b] \in Block
    BY <1>1, <2>1, BlockAssumption DEF IInv, StoreInv, ValidateBlock
  <2> QED
    BY <1>1, <2>2
<1>3. AddNode(b) /\ toLoad' = toLoad \ {b} /\ pc' = "index"
  BY <1>1, <1>2 DEF LoadHeader
<1>4. IndexInv' /\ DOMAIN index' = DOMAIN index \cup {b}
  BY <1>1, <1>2, <1>3, IndexGrows DEF LoadHeader, dbVars, IInv
<1>5. UNCHANGED <<dbVars, mainChain, bestNode, orphanVars, cur, stack, reorgVars>>
  BY DEF LoadHeader
<1>6. TypeOK'
  <2>1. \A x \in DOMAIN index' : x \in Block /\ index'[x] \in Nat
    <3>1. DOMAIN index' \subseteq Block
      BY <1>1, <1>4
    <3>2. \A x \in DOMAIN index' : index'[x] = TotalWork[x]
      BY <1>4 DEF IndexInv
    <3>3. TotalWork \in [Block -> Nat]
      BY BranchAssumption
    <3> QED
      BY <3>1, <3>2, <3>3
  <2> QED
    BY <1>3, <1>5, <2>1 DEF dbVars, orphanVars, reorgVars, IInv, TypeOK, Starting
<1>7. StackInv'
  BY <1>4, <1>5 DEF IInv, StackInv
<1>8. MainInv'
  BY <1>1, <1>3, <1>5 DEF IInv, MainInv, Working
<1>9. ControlInv'
  <2>1. dbBlocks' = toLoad' \cup DOMAIN index'
    BY <1>1, <1>3, <1>4, <1>5 DEF dbVars
  <2>2. \A c \in DOMAIN index', d \in toLoad' : Height[c] <= Height[d]
    BY <1>1, <1>3, <1>4
  <2>3. dbStatus' # None
    BY <1>1, <1>5 DEF dbVars, IInv, ControlInv
  <2> QED
    BY <1>3, <2>1, <2>2, <2>3 DEF ControlInv, Working, Connecting
<1> QED
  BY <1>4, <1>5, <1>6, <1>7, <1>8, <1>9, Frames DEF dbVars, orphanVars, IInv

\* When LoadBlockIndex stops, every block no higher than the status is indexed.
LEMMA IndexComplete ==
  ASSUME IInv, pc = "index", \A b \in toLoad : ~NextHeader(b)
  PROVE  /\ dbStatus \in Block /\ dbStatus \in dbBlocks
         /\ dbStatus \in DOMAIN index
         /\ Genesis \in DOMAIN index
<1>1. /\ dbBlocks = toLoad \cup DOMAIN index /\ toLoad \subseteq Block
      /\ dbStatus \in dbBlocks /\ Genesis \in dbBlocks /\ dbStatus \in Block
  BY DEF IInv, ControlInv, StoreInv, TypeOK
<1>2. ASSUME NEW c \in toLoad, Height[c] <= Height[dbStatus]
      PROVE  FALSE
  <2> DEFINE T == {Height[d] : d \in toLoad}
  <2>1. T \in SUBSET Nat /\ T # {}
    BY <1>1, BlockAssumption
  <2>2. PICK m \in T : \A k \in T : m <= k
    BY <2>1, NatMin
  <2>3. PICK d \in toLoad : m = Height[d]
    BY <2>2
  <2>4. /\ \A e \in toLoad : Height[d] <= Height[e]
        /\ Height[d] \in Nat /\ Height[c] \in Nat /\ Height[dbStatus] \in Nat
    BY <1>1, <2>2, <2>3, BlockAssumption
  <2>5. Height[d] <= Height[dbStatus]
    BY <1>2, <2>4
  <2> QED
    BY <2>3, <2>4, <2>5 DEF NextHeader
<1>3. Height[dbStatus] \in Nat /\ Height[Genesis] = 0
  BY <1>1, BlockAssumption
<1>4. Height[dbStatus] <= Height[dbStatus] /\ Height[Genesis] <= Height[dbStatus]
  BY <1>3
<1> QED
  BY <1>1, <1>2, <1>4

\* NewChain finds the block of the status in the index.
LEMMA ChainReadyStep ==
  ASSUME IInv, ChainReady
  PROVE  IInv'
<1>1. /\ pc = "index" /\ dbStatus \in DOMAIN index /\ Genesis \in DOMAIN index
      /\ dbStatus \in Block /\ dbStatus \in dbBlocks
  BY IndexComplete DEF ChainReady
<1>2. /\ bestNode' = dbStatus /\ mainChain' = NewMainChain(dbStatus, 0) /\ pc' = "idle"
      /\ toLoad' = {} /\ UNCHANGED <<dbVars, index, orphanVars, cur, stack, reorgVars>>
  BY <1>1 DEF ChainReady
<1>3. mainChain' = Branch[dbStatus]
  <2>1. 0 \in 0..Len(Branch[dbStatus])
    BY <1>1, BranchStep
  <2> QED
    BY <1>1, <1>2, <2>1, NewMainChainIsBranch DEF IInv, TypeOK
<1>4. TypeOK'
  BY <1>1, <1>2, <1>3, BranchAssumption
     DEF dbVars, orphanVars, reorgVars, IInv, TypeOK, Working
<1>5. MainInv'
  BY <1>1, <1>2, <1>3 DEF MainInv, Tip, Working
<1>6. ControlInv'
  BY <1>1, <1>2, BlockAssumption DEF dbVars, ControlInv, Working, Connecting
<1> QED
  BY <1>2, <1>4, <1>5, <1>6, Frames DEF dbVars, orphanVars, IInv
-----------------------------------------------------------------------------
(***************************************************************************)
(* The theorems.                                                           *)
(***************************************************************************)
\* IInv holds initially.
LEMMA InitIInv == Init => IInv
<1> SUFFICES ASSUME Init
             PROVE  IInv
  OBVIOUS
<1>1. DOMAIN index = {}
  BY DEF Init, Empty
<1>2. TypeOK
  <2>1. prevOrphans \in [Block -> Seq(Block)]
    BY DEF Init
  <2> QED
    BY <1>1, <2>1 DEF Init, TypeOK
<1>3. StoreInv /\ IndexInv /\ OrphanInv /\ StackInv
  BY <1>1 DEF Init, StoreInv, IndexInv, OrphanInv, StackInv
<1>4. MainInv /\ ControlInv
  BY <1>1 DEF Init, MainInv, ControlInv, Working, Connecting
<1> QED
  BY <1>2, <1>3, <1>4 DEF IInv

\* Every step keeps IInv.
LEMMA NextIInv == IInv /\ [Next]_vars => IInv'
<1> SUFFICES ASSUME IInv, [Next]_vars
             PROVE  IInv'
  OBVIOUS
<1>1. CASE Process
  BY <1>1, SaveRejectStep, SaveBlockStep, LinkBlockStep, SubBlockStep, SubBlockMissingStep,
     SubReturnStep, ConnectBlockStep, ReorganizeChainStep, KeepBestStep, LoadUtxoStep,
     DetachTxStep, DetachNextStep, ApplyTxStep, ApplyFailStep, ApplyNextStep,
     SaveChainStatusStep, SetMainChainStep, SetBestNodeStep, EvictTxStep
     DEF Process
<1>2. CASE StartUp
  BY <1>2, NewChainStep, InitSaveGenesisStep, InitSaveStatusStep, LoadHeaderStep,
       ChainReadyStep
     DEF StartUp
<1>3. CASE Receive
  BY <1>3, ReceiveBlockStep, ReceiveOrphanStep DEF Receive
<1>4. CASE OrphanExpire \/ Crash
  BY <1>4, OrphanExpireStep, CrashStep
<1>5. CASE UNCHANGED vars
  <2>1. TypeOK'
    BY <1>5 DEF vars, dbVars, indexVars, orphanVars, reorgVars, IInv, TypeOK
  <2>2. MainInv'
    BY <1>5 DEF vars, indexVars, IInv, MainInv, Tip
  <2>3. ControlInv'
    <3>1. /\ pc' = pc /\ cur' = cur /\ stack' = stack /\ toLoad' = toLoad
          /\ detach' = detach /\ attach' = attach /\ index' = index /\ bestNode' = bestNode
          /\ dbBlocks' = dbBlocks /\ dbStatus' = dbStatus
      BY <1>5 DEF vars, dbVars, indexVars, reorgVars
    <3>2. ControlInv
      BY DEF IInv
    <3> QED
      BY <3>1, <3>2, ZenonT(40) DEF ControlInv, Working, Connecting
  <2> QED
    BY <1>5, <2>1, <2>2, <2>3, Frames DEF vars, dbVars, indexVars, orphanVars, IInv
<1> QED
  BY <1>1, <1>2, <1>3, <1>4, <1>5 DEF Next

\* The inductive invariant holds in every reachable state of Chain.
THEOREM Invariance == Spec => []IInv
  BY InitIInv, NextIInv, PTL DEF Spec

\* Every variable of Chain keeps its type.
THEOREM TypeCorrect == Spec => []TypeOK
<1>1. IInv => TypeOK
  BY DEF IInv
<1> QED
  BY <1>1, Invariance, PTL

\* InMainchain and NodeByHeight always answer for the branch of the best node:
\* SetMainChain, which stops at the first entry that is in place already, never
\* leaves an entry of another branch below it.
THEOREM MainChainCorrect == Spec => []MainChainIsBranch
<1>1. IInv => MainChainIsBranch
  BY BlockAssumption DEF IInv, MainInv, ControlInv, MainChainIsBranch, Tip, Working
<1> QED
  BY <1>1, Invariance, PTL

\* Every indexed block is stored, has its parent in the index and carries the
\* total work of its branch, whether saveBlock or LoadBlockIndex added it.
THEOREM IndexCorrect == Spec => []IndexSound
<1>1. IInv => IndexSound
  BY DEF IInv, IndexInv, IndexSound
<1> QED
  BY <1>1, Invariance, PTL

\* After a crash at any point NewChain succeeds: LoadBlockIndex finds the parent
\* of every header it reads and reaches the block of the status.
THEOREM RestartCorrect == Spec => []RestartSucceeds
<1>1. IInv => RestartSucceeds
  <2> SUFFICES ASSUME IInv
               PROVE  RestartSucceeds
    OBVIOUS
  <2>1. pc = "index" /\ (\A b \in toLoad : ~NextHeader(b)) => dbStatus \in DOMAIN index
    BY IndexComplete
  <2> QED
    BY <2>1 DEF IInv, StoreInv, ControlInv, RestartSucceeds
<1> QED
  BY <1>1, Invariance, PTL

\* Outside the last assignments of setState the best node is the durable one.
THEOREM BestDurable == Spec => []BestIsDurable
<1>1. IInv => BestIsDurable
  BY DEF IInv, ControlInv, MainInv, BestIsDurable, Working
<1> QED
  BY <1>1, Invariance, PTL

\* A step changes the durable status only in SaveChainStatus and at the first start.
LEMMA StatusStep ==
  ASSUME [Next]_vars, dbStatus' # dbStatus
  PROVE  SaveChainStatus \/ InitSaveStatus
<1>1. CASE Process
  BY <1>1 DEF Process, SaveReject, SaveBlock, LinkBlock, SubBlock, SubBlockMissing,
       SubReturn,
     ConnectBlock, ReorganizeChain, KeepBest, LoadUtxo, DetachTx, DetachNext, ApplyTx,
     ApplyFail, ApplyNext, SetMainChain, SetBestNode, EvictTx, StartReorg, dbVars
<1>2. CASE StartUp
  BY <1>2 DEF StartUp, NewChain, InitSaveGenesis, LoadHeader, ChainReady, dbVars
<1>3. CASE Receive \/ OrphanExpire \/ Crash
  BY <1>3 DEF Receive, ReceiveBlock, ReceiveOrphan, OrphanExpire, Crash, dbVars
<1>4. CASE UNCHANGED vars
  BY <1>4 DEF vars, dbVars
<1> QED
  BY <1>1, <1>2, <1>3, <1>4 DEF Next

\* connectBlock and reorganizeChain move the durable status only to a higher block
\* of no less work; neither a crash nor a restart moves it.
THEOREM StatusNeverWorse == Spec => NeverWorse
<1>1. ASSUME IInv, [Next]_vars, dbStatus' # dbStatus
      PROVE  \/ dbStatus = None /\ dbStatus' = Genesis
             \/ /\ dbStatus \in Block
                /\ Height[dbStatus'] > Height[dbStatus]
                /\ TotalWork[dbStatus'] >= TotalWork[dbStatus]
  <2>1. CASE SaveChainStatus
    <3>1. bestNode = dbStatus /\ bestNode # None /\ dbStatus' = cur
      BY <1>1, <2>1 DEF SaveChainStatus, IInv, ControlInv, Working
    <3>2. Height[cur] > Height[bestNode] /\ TotalWork[cur] >= TotalWork[bestNode]
      BY <1>1, <2>1 DEF SaveChainStatus, IInv, ControlInv, Connecting
    <3> QED
      BY <1>1, <3>1, <3>2 DEF IInv, TypeOK
  <2>2. CASE InitSaveStatus
    BY <1>1, <2>2 DEF InitSaveStatus, IInv, ControlInv
  <2> QED
    BY <1>1, <2>1, <2>2, StatusStep
<1> QED
  BY <1>1, Invariance, PTL DEF Spec, NeverWorse
=============================================================================
