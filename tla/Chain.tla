------------------------------- MODULE Chain --------------------------------
(***************************************************************************)
(* protocol.Chain: the goroutine blockProcesser takes one block at a time  *)
(* from ProcessBlock, keeps blocks without a parent in OrphanManage, links *)
(* the others into the BlockIndex, and moves the best node by connectBlock *)
(* or reorganizeChain, which rewrite the unspent outputs in the store.     *)
(*                                                                         *)
(* The goroutine is the process pc.  Running beside it: the worker that    *)
(* expires orphans, and a crash of the node at any point followed by       *)
(* NewChain, which rebuilds the volatile state from the store.  Each batch *)
(* the store writes (SaveBlock, SaveChainStatus) is atomic and durable.    *)
(***************************************************************************)
EXTENDS Blocks

CONSTANT MaxPrevOrphans   \* bound on the length of one prevOrphans list

VARIABLES                 \* the store (database/leveldb), which survives a crash
  dbBlocks,               \* blocks saved by SaveBlock
  dbStatus,               \* the hash in BlockStoreState, None before the first start
  dbUtxo                  \* saved utxo entries, a function on some outputs

VARIABLES                 \* BlockIndex, Chain.bestNode and OrphanManage
  index,                  \* the WorkSum of each indexed block: a function on them
  mainChain,              \* BlockIndex.mainChain; height h is position h + 1
  bestNode,               \* Chain.bestNode, None while there is no Chain
  orphan,                 \* OrphanManage.orphan
  prevOrphans             \* OrphanManage.prevOrphans, <<>> for an absent key

VARIABLES                 \* the goroutine blockProcesser, and NewChain
  pc,                     \* where it stands
  cur,                    \* the block in hand
  stack,                  \* active calls of saveSubBlock, the innermost last
  detach, attach,         \* blocks still to detach, to attach; the first in progress
  txi,                    \* transactions of that block already done
  view,                   \* the UtxoViewpoint, a function on some outputs
  toLoad                  \* headers LoadBlockIndex has not read yet

dbVars == <<dbBlocks, dbStatus, dbUtxo>>
indexVars == <<index, mainChain, bestNode>>
orphanVars == <<orphan, prevOrphans>>
reorgVars == <<detach, attach, txi, view>>
vars == <<dbVars, indexVars, orphanVars, pc, cur, stack, reorgVars, toLoad>>

Entry == [coinbase : BOOLEAN, height : Nat, spent : BOOLEAN]
NewUtxoEntry(isCoinBase, height, spent) ==
  [coinbase |-> isCoinBase, height |-> height, spent |-> spent]

Empty == [x \in {} |-> x]

\* Processing a block, as opposed to being down or starting up.
Working == {"idle", "save", "link", "sub", "select", "load utxo", "detach", "attach",
            "commit", "setMain", "setBest", "evict"}
Starting == {"init", "init status", "index"}

TypeOK ==
  /\ dbBlocks \subseteq Block
  /\ dbStatus \in Block \cup {None}
  /\ DOMAIN index \subseteq Block /\ \A b \in DOMAIN index : index[b] \in Nat
  /\ mainChain \in Seq(Block)
  /\ bestNode \in Block \cup {None}
  /\ orphan \subseteq Block
  /\ prevOrphans \in [Block -> Seq(Block)]
  /\ pc \in Working \cup Starting \cup {"down", "panic", "failed"}
  /\ cur \in Block \cup {None}
  /\ stack \in Seq([block : Block, todo : Seq(Block), best : Block])
  /\ detach \in Seq(Block) /\ attach \in Seq(Block)
  /\ txi \in Nat
  /\ toLoad \subseteq Block
-----------------------------------------------------------------------------
(***************************************************************************)
(* OrphanManage.  delete compares the list's pointers with the pointer it  *)
(* is given, and its callers (saveBlock and orphanExpire) pass the address *)
(* of a hash of their own: the comparison never holds, so a list of one is *)
(* dropped and a longer list is left as it is.                             *)
(***************************************************************************)
Add(b) ==
  /\ orphan' = orphan \cup {b}
  /\ prevOrphans' = [prevOrphans EXCEPT ![Prev[b]] = Append(@, b)]

\* Mutant: a deleted orphan takes the whole list of its siblings with it.
DeleteList(S) ==
  /\ orphan' = orphan \ S
  /\ prevOrphans' = [p \in Block |->
       IF \E b \in S \cap orphan : Prev[b] = p THEN <<>> ELSE prevOrphans[p]]

Delete(S) ==
  /\ orphan' = orphan \ S
  /\ prevOrphans' = [p \in Block |->
       IF Len(prevOrphans[p]) = 1 /\ (\E b \in S \cap orphan : Prev[b] = p)
       THEN <<>> ELSE prevOrphans[p]]

\* orphanExpire: the worker deletes every orphan whose time is over.
OrphanExpire ==
  /\ pc \in Working
  /\ \E S \in (SUBSET orphan) \ {{}} : Delete(S)
  /\ UNCHANGED <<dbVars, indexVars, pc, cur, stack, reorgVars, toLoad>>
-----------------------------------------------------------------------------
(***************************************************************************)
(* processBlock up to the call of saveBlock.                               *)
(***************************************************************************)
\* Mutant: a block in the store counts as processed.
BlockExistInStore(b) == b \in dbBlocks \/ b \in orphan

BlockExist(b) == b \in DOMAIN index \/ b \in orphan

ReceiveOrphan(b) ==
  /\ pc = "idle"
  /\ ~BlockExist(b)
  /\ Prev[b] \notin DOMAIN index
  /\ Len(prevOrphans[Prev[b]]) < MaxPrevOrphans
  /\ Add(b)
  /\ UNCHANGED <<dbVars, indexVars, pc, cur, stack, reorgVars, toLoad>>

ReceiveBlock(b) ==
  /\ pc = "idle"
  /\ ~BlockExist(b)
  /\ Prev[b] \in DOMAIN index
  /\ pc' = "save"
  /\ cur' = b
  /\ UNCHANGED <<dbVars, indexVars, orphanVars, stack, reorgVars, toLoad>>

(***************************************************************************)
(* saveBlock, called by processBlock and by saveSubBlock: validate, write  *)
(* the block to the store, forget the orphan, add the node to the index.   *)
(* On an error processBlock returns and saveSubBlock goes on.              *)
(***************************************************************************)
SaveReject ==
  /\ pc = "save"
  /\ ~ValidateBlock(cur) \/ cur \in Early
  /\ pc' = IF stack = <<>> THEN "idle" ELSE "sub"
  /\ cur' = None
  /\ UNCHANGED <<dbVars, indexVars, orphanVars, stack, reorgVars, toLoad>>

SaveBlock ==
  /\ pc = "save"
  /\ ValidateBlock(cur)
  /\ dbBlocks' = dbBlocks \cup {cur}
  /\ pc' = "link"
  /\ UNCHANGED <<dbStatus, dbUtxo, indexVars, orphanVars, cur, stack, reorgVars, toLoad>>

\* Mutant: the parent's work forgotten.
WorkOfBlock(b) == Work[b]
\* NewBlockNode: the WorkSum of a block.
WorkSum(b) == IF b = Genesis THEN Work[b] ELSE index[Prev[b]] + Work[b]

AddNode(b) == index' = [x \in DOMAIN index \cup {b} |-> IF x = b THEN WorkSum(b) ELSE index[x]]

\* The rest of saveBlock, and the call of saveSubBlock that follows it.
LinkBlock ==
  /\ pc = "link"
  /\ Delete({cur})
  /\ AddNode(cur)
  /\ stack' = Append(stack, [block |-> cur, todo |-> prevOrphans[cur], best |-> cur])
  /\ pc' = "sub"
  /\ cur' = None
  /\ UNCHANGED <<dbVars, mainChain, bestNode, reorgVars, toLoad>>

(***************************************************************************)
(* saveSubBlock, one iteration of its loop or its return at a time.        *)
(***************************************************************************)
Top == stack[Len(stack)]
Pop == SubSeq(stack, 1, Len(stack) - 1)

\* Get returns the orphan ...
SubBlock ==
  /\ pc = "sub"
  /\ Top.todo # <<>>
  /\ Head(Top.todo) \in orphan
  /\ cur' = Head(Top.todo)
  /\ stack' = [stack EXCEPT ![Len(stack)].todo = Tail(@)]
  /\ pc' = "save"
  /\ UNCHANGED <<dbVars, indexVars, orphanVars, reorgVars, toLoad>>

\* ... and dereferences a nil *orphanBlock when there is none.
SubBlockMissing ==
  /\ pc = "sub"
  /\ Top.todo # <<>>
  /\ Head(Top.todo) \notin orphan
  /\ pc' = "panic"
  /\ UNCHANGED <<dbVars, indexVars, orphanVars, cur, stack, reorgVars, toLoad>>

\* Mutant: the block that came with the orphans is connected, not the best of them.
SubReturnFirst ==
  /\ pc = "sub"
  /\ Top.todo = <<>>
  /\ IF Len(stack) = 1
     THEN pc' = "select" /\ cur' = Top.block /\ stack' = <<>>
     ELSE stack' = Pop /\ UNCHANGED <<pc, cur>>
  /\ UNCHANGED <<dbVars, indexVars, orphanVars, reorgVars, toLoad>>

SubReturn ==
  /\ pc = "sub"
  /\ Top.todo = <<>>
  /\ IF Len(stack) = 1
     THEN /\ pc' = "select"
          /\ cur' = Top.best
          /\ stack' = <<>>
     ELSE /\ LET caller == stack[Len(stack) - 1].best IN
               stack' = [Pop EXCEPT ![Len(stack) - 1].best =
                           IF Height[Top.best] > Height[caller] THEN Top.best ELSE caller]
          /\ UNCHANGED <<pc, cur>>
  /\ UNCHANGED <<dbVars, indexVars, orphanVars, reorgVars, toLoad>>
-----------------------------------------------------------------------------
(***************************************************************************)
(* The choice processBlock makes: append to the main chain, reorganise, or *)
(* leave the best node.  Positions of a branch are heights plus one.       *)
(***************************************************************************)
InMainChain(b) == Height[b] + 1 \in DOMAIN mainChain /\ mainChain[Height[b] + 1] = b

\* The walk from b towards Genesis meets the main chain first at position f.
ForkPoint(b, f) ==
  /\ f \in 0..Len(Branch[b])
  /\ f > 0 => InMainChain(Branch[b][f])
  /\ \A k \in (f + 1)..Len(Branch[b]) : ~InMainChain(Branch[b][k])

From(s, k) == SubSeq(s, k, Len(s))
Reversed(s) == [i \in 1..Len(s) |-> s[Len(s) + 1 - i]]

Better(b) == Height[b] > Height[bestNode] /\ index[b] >= index[bestNode]

StartReorg(d, a) ==
  /\ detach' = d
  /\ attach' = a
  /\ view' = Empty
  /\ txi' = 0
  /\ pc' = "load utxo"
  /\ UNCHANGED <<dbVars, indexVars, orphanVars, cur, stack, toLoad>>

ConnectBlock ==
  /\ pc = "select"
  /\ Prev[cur] = bestNode
  /\ StartReorg(<<>>, <<cur>>)

ReorganizeChain ==
  /\ pc = "select"
  /\ Prev[cur] # bestNode
  /\ Better(cur)
  /\ \E f \in 1..Len(Branch[cur]) :
       /\ ForkPoint(cur, f)
       /\ StartReorg(Reversed(From(Branch[bestNode], f + 1)), From(Branch[cur], f + 1))

Return ==
  /\ pc' = "idle"
  /\ cur' = None
  /\ detach' = <<>>
  /\ attach' = <<>>
  /\ view' = Empty
  /\ txi' = 0
  /\ UNCHANGED <<orphanVars, stack, toLoad>>

KeepBest ==
  /\ pc = "select"
  /\ Prev[cur] # bestNode
  /\ ~Better(cur)
  /\ Return
  /\ UNCHANGED <<dbVars, indexVars>>
-----------------------------------------------------------------------------
(***************************************************************************)
(* UtxoViewpoint.  The error returns of ApplyTransaction are the negation  *)
(* of CanApply, those of DetachTransaction of CanDetach; the caller drops  *)
(* the view on an error, so the order of the checks does not matter.       *)
(***************************************************************************)
AllSpends(b) == UNION {Txs[b][i].spends : i \in 1..Len(Txs[b])}

\* getTransactionsUtxo: entries the view does not have yet, from the store.
GetTransactionsUtxo(b) ==
  LET loaded == {o \in AllSpends(b) : o \in DOMAIN dbUtxo /\ o \notin DOMAIN view} IN
  [o \in DOMAIN view \cup loaded |-> IF o \in loaded THEN dbUtxo[o] ELSE view[o]]

\* Mutant: a transaction may spend a coinbase output at any height.
CanApplyImmature(b, tx) ==
  \A o \in Spends(tx) : o \in DOMAIN view /\ ~view[o].spent

CanApply(b, tx) ==
  \A o \in Spends(tx) :
    /\ o \in DOMAIN view
    /\ ~view[o].spent
    /\ view[o].coinbase => view[o].height + CoinbasePending <= Height[b]

ApplyTransaction(b, i) ==
  LET tx == Txs[b][i] IN
  [o \in DOMAIN view \cup Outs(tx) |->
     IF o \in Outs(tx) THEN NewUtxoEntry(i = 1, Height[b], FALSE)
     ELSE IF o \in Spends(tx) THEN [view[o] EXCEPT !.spent = TRUE]
     ELSE view[o]]

CanDetach(tx) == \A o \in Spends(tx) \cap DOMAIN view : view[o].spent

\* Mutant: the outputs of a detached transaction stay as they were.
DetachSpendsOnly(tx) ==
  [o \in DOMAIN view \cup Spends(tx) |->
     IF o \notin DOMAIN view THEN NewUtxoEntry(FALSE, 0, FALSE)
     ELSE IF o \in Spends(tx) THEN [view[o] EXCEPT !.spent = FALSE]
     ELSE view[o]]

DetachTransaction(tx) ==
  [o \in DOMAIN view \cup Spends(tx) \cup Outs(tx) |->
     IF o \in Outs(tx) THEN NewUtxoEntry(FALSE, 0, TRUE)
     ELSE IF o \notin DOMAIN view THEN NewUtxoEntry(FALSE, 0, FALSE)
     ELSE IF o \in Spends(tx) THEN [view[o] EXCEPT !.spent = FALSE]
     ELSE view[o]]
-----------------------------------------------------------------------------
(***************************************************************************)
(* connectBlock and reorganizeChain: for every block to detach, newest     *)
(* first, then for every block to attach, oldest first, load the entries   *)
(* its transactions spend and run over its transactions in block order.    *)
(***************************************************************************)
LoadUtxo ==
  /\ pc = "load utxo"
  /\ \/ /\ detach # <<>>
        /\ view' = GetTransactionsUtxo(detach[1])
        /\ pc' = "detach"
     \/ /\ detach = <<>>
        /\ attach # <<>>
        /\ view' = GetTransactionsUtxo(attach[1])
        /\ pc' = "attach"
     \/ /\ detach = <<>>
        /\ attach = <<>>
        /\ pc' = "commit"
        /\ UNCHANGED view
  /\ UNCHANGED <<dbVars, indexVars, orphanVars, cur, stack, detach, attach, txi, toLoad>>

DetachTx ==
  /\ pc = "detach"
  /\ txi < Len(Txs[detach[1]])
  /\ IF CanDetach(Txs[detach[1]][txi + 1])
     THEN /\ view' = DetachTransaction(Txs[detach[1]][txi + 1])
          /\ txi' = txi + 1
          /\ UNCHANGED <<orphanVars, pc, cur, stack, detach, attach, toLoad>>
     ELSE Return
  /\ UNCHANGED <<dbVars, indexVars>>

DetachNext ==
  /\ pc = "detach"
  /\ txi = Len(Txs[detach[1]])
  /\ detach' = Tail(detach)
  /\ txi' = 0
  /\ pc' = "load utxo"
  /\ UNCHANGED <<dbVars, indexVars, orphanVars, cur, stack, attach, view, toLoad>>

ApplyTx ==
  /\ pc = "attach"
  /\ txi < Len(Txs[attach[1]])
  /\ CanApply(attach[1], Txs[attach[1]][txi + 1])
  /\ view' = ApplyTransaction(attach[1], txi + 1)
  /\ txi' = txi + 1
  /\ UNCHANGED <<dbVars, indexVars, orphanVars, pc, cur, stack, detach, attach, toLoad>>

ApplyFail ==
  /\ pc = "attach"
  /\ txi < Len(Txs[attach[1]])
  /\ ~CanApply(attach[1], Txs[attach[1]][txi + 1])
  /\ Return
  /\ UNCHANGED <<dbVars, indexVars>>

ApplyNext ==
  /\ pc = "attach"
  /\ txi = Len(Txs[attach[1]])
  /\ attach' = Tail(attach)
  /\ txi' = 0
  /\ pc' = "load utxo"
  /\ UNCHANGED <<dbVars, indexVars, orphanVars, cur, stack, detach, view, toLoad>>
-----------------------------------------------------------------------------
(***************************************************************************)
(* setState: one batch with the view and the status, then the main chain   *)
(* (under the index lock), then the best node.                             *)
(***************************************************************************)
\* saveUtxoView deletes a spent entry, except that of a coinbase output.
SaveUtxoView ==
  LET deleted == {o \in DOMAIN view : view[o].spent /\ ~view[o].coinbase} IN
  [o \in (DOMAIN dbUtxo \cup DOMAIN view) \ deleted |->
     IF o \in DOMAIN view THEN view[o] ELSE dbUtxo[o]]

SaveChainStatus ==
  /\ pc = "commit"
  /\ dbUtxo' = SaveUtxoView
  /\ dbStatus' = cur
  /\ pc' = "setMain"
  /\ UNCHANGED <<dbBlocks, indexVars, orphanVars, cur, stack, reorgVars, toLoad>>

\* Mutant: only the last entry is written.
LastEntryOnly(b, f) ==
  [k \in 1..(Height[b] + 1) |->
     IF k <= Height[b] /\ k <= Len(mainChain) THEN mainChain[k] ELSE Branch[b][k]]

\* SetMainChain(b): the entries above the fork point are replaced.
NewMainChain(b, f) ==
  [k \in 1..(Height[b] + 1) |-> IF k <= f THEN mainChain[k] ELSE Branch[b][k]]

SetMainChain ==
  /\ pc = "setMain"
  /\ \E f \in 0..Len(Branch[cur]) : ForkPoint(cur, f) /\ mainChain' = NewMainChain(cur, f)
  /\ pc' = "setBest"
  /\ UNCHANGED <<dbVars, index, bestNode, orphanVars, cur, stack, reorgVars, toLoad>>

SetBestNode ==
  /\ pc = "setBest"
  /\ bestNode' = cur
  /\ IF Prev[cur] = bestNode       \* connectBlock goes on, reorganizeChain returns
     THEN /\ pc' = "evict"
          /\ UNCHANGED <<orphanVars, cur, stack, reorgVars, toLoad>>
     ELSE Return
  /\ UNCHANGED <<dbVars, index, mainChain>>

\* connectBlock takes the transactions of the block out of the pool, one by one.
\* What RemoveTransaction does to the pool is in module ChainPool.
EvictTx ==
  /\ pc = "evict"
  /\ IF txi < Len(Txs[cur])
     THEN /\ txi' = txi + 1
          /\ UNCHANGED <<orphanVars, pc, cur, stack, detach, attach, view, toLoad>>
     ELSE Return
  /\ UNCHANGED <<dbVars, indexVars>>
-----------------------------------------------------------------------------
(***************************************************************************)
(* A crash, and NewChain at the next start: write the genesis block and    *)
(* its status if there is no status, rebuild the index from the headers in *)
(* the store, in the order of their heights, and set the main chain.       *)
(***************************************************************************)
Forget ==
  /\ index' = Empty
  /\ mainChain' = <<>>
  /\ bestNode' = None
  /\ orphan' = {}
  /\ prevOrphans' = [p \in Block |-> <<>>]
  /\ cur' = None
  /\ stack' = <<>>
  /\ detach' = <<>>
  /\ attach' = <<>>
  /\ txi' = 0
  /\ view' = Empty
  /\ toLoad' = {}

Crash ==
  /\ pc # "down"
  /\ pc' = "down"
  /\ Forget
  /\ UNCHANGED dbVars

NewChain ==
  /\ pc = "down"
  /\ IF dbStatus = None
     THEN pc' = "init" /\ UNCHANGED toLoad
     ELSE pc' = "index" /\ toLoad' = dbBlocks
  /\ UNCHANGED <<dbVars, indexVars, orphanVars, cur, stack, reorgVars>>

\* initChainStatus, its two writes.
InitSaveGenesis ==
  /\ pc = "init"
  /\ dbBlocks' = dbBlocks \cup {Genesis}
  /\ pc' = "init status"
  /\ UNCHANGED <<dbStatus, dbUtxo, indexVars, orphanVars, cur, stack, reorgVars, toLoad>>

GenesisOuts(i) == Outs(Txs[Genesis][i])

InitSaveStatus ==
  /\ pc = "init status"
  /\ dbUtxo' = [o \in UNION {GenesisOuts(i) : i \in 1..Len(Txs[Genesis])} |->
                  NewUtxoEntry(o \in GenesisOuts(1), 0, FALSE)]
  /\ dbStatus' = Genesis
  /\ pc' = "index"
  /\ toLoad' = dbBlocks
  /\ UNCHANGED <<dbBlocks, indexVars, orphanVars, cur, stack, reorgVars>>

\* Mutant: the keys of the headers do not sort by height.
AnyHeader(b) == b \in toLoad /\ Height[b] <= Height[dbStatus]

\* The next header of LoadBlockIndex: of least height, no higher than the status.
NextHeader(b) ==
  /\ b \in toLoad
  /\ Height[b] <= Height[dbStatus]
  /\ \A c \in toLoad : Height[b] <= Height[c]

LoadHeader(b) ==
  /\ pc = "index"
  /\ NextHeader(b)
  /\ IF b = Genesis \/ Prev[b] \in DOMAIN index
     THEN AddNode(b) /\ toLoad' = toLoad \ {b} /\ UNCHANGED pc
     ELSE pc' = "failed" /\ UNCHANGED <<index, toLoad>>
  /\ UNCHANGED <<dbVars, mainChain, bestNode, orphanVars, cur, stack, reorgVars>>

ChainReady ==
  /\ pc = "index"
  /\ \A b \in toLoad : ~NextHeader(b)
  /\ IF dbStatus \in DOMAIN index
     THEN /\ bestNode' = dbStatus
          /\ mainChain' = NewMainChain(dbStatus, 0)
          /\ pc' = "idle"
     ELSE /\ pc' = "panic"
          /\ UNCHANGED <<bestNode, mainChain>>
  /\ toLoad' = {}
  /\ UNCHANGED <<dbVars, index, orphanVars, cur, stack, reorgVars>>
-----------------------------------------------------------------------------
Init ==
  /\ dbBlocks = {} /\ dbStatus = None /\ dbUtxo = Empty
  /\ index = Empty /\ mainChain = <<>> /\ bestNode = None
  /\ orphan = {} /\ prevOrphans = [p \in Block |-> <<>>]
  /\ pc = "down" /\ cur = None /\ stack = <<>>
  /\ detach = <<>> /\ attach = <<>> /\ txi = 0 /\ view = Empty
  /\ toLoad = {}

\* The steps of blockProcesser within one block, and of NewChain.
Process ==
  \/ SaveReject \/ SaveBlock \/ LinkBlock
  \/ SubBlock \/ SubBlockMissing \/ SubReturn
  \/ ConnectBlock \/ ReorganizeChain \/ KeepBest
  \/ LoadUtxo \/ DetachTx \/ DetachNext \/ ApplyTx \/ ApplyFail \/ ApplyNext
  \/ SaveChainStatus \/ SetMainChain \/ SetBestNode \/ EvictTx

StartUp ==
  \/ NewChain \/ InitSaveGenesis \/ InitSaveStatus
  \/ (\E b \in Block : LoadHeader(b)) \/ ChainReady

Receive == \E b \in Block : ReceiveBlock(b) \/ ReceiveOrphan(b)

Next == Process \/ StartUp \/ Receive \/ OrphanExpire \/ Crash

Spec == Init /\ [][Next]_vars

\* The goroutine and the start-up keep running, a node that panicked is started
\* again, and peers offer a block until it is taken.  Expiry and crashes may stop.
FairSpec ==
  /\ Spec
  /\ WF_vars(Process)
  /\ WF_vars(StartUp)
  /\ WF_vars(pc = "panic" /\ Crash)
  /\ \A b \in Block : SF_vars(ReceiveBlock(b) \/ ReceiveOrphan(b))
-----------------------------------------------------------------------------
(***************************************************************************)
(* Properties.                                                             *)
(***************************************************************************)
\* The end of the main chain: setState updates it just before the best node.
Tip == IF pc = "setBest" THEN cur ELSE bestNode

\* SetMainChain keeps BlockIndex.mainChain the branch of the best node, whatever
\* the index held before: InMainchain and NodeByHeight answer for that branch.
MainChainIsBranch == Tip # None => mainChain = Branch[Tip]

\* AddNode only follows an indexed parent, and a node's WorkSum is the work of
\* its whole branch, also for an index rebuilt by LoadBlockIndex.
IndexSound ==
  \A b \in DOMAIN index :
    /\ b \in dbBlocks
    /\ b # Genesis => Prev[b] \in DOMAIN index
    /\ index[b] = TotalWork[b]

\* A crash between any two writes of processBlock leaves a store from which
\* NewChain starts: each stored block has its parent in the store, the status
\* names a stored block, and no header fails to load.
RestartSucceeds ==
  /\ \A b \in dbBlocks \ {Genesis} : Prev[b] \in dbBlocks
  /\ dbStatus # None => dbStatus \in dbBlocks
  /\ pc # "failed"
  /\ (pc = "index" /\ \A b \in toLoad : ~NextHeader(b)) => dbStatus \in DOMAIN index

\* The best node is the durable one except while setState is between its write
\* and its last assignment.
BestIsDurable ==
  pc \in Working \ {"setMain", "setBest"} => bestNode = dbStatus /\ bestNode \in DOMAIN index

\* The outputs the store holds as unspent.
DbUnspent == {o \in DOMAIN dbUtxo : ~dbUtxo[o].spent}

\* Across appends, reorganisations, failed blocks and restarts the unspent
\* outputs in the store are those of the branch of the status, and the coinbase
\* entries among them still carry their flag and height for the maturity check.
UtxoExact ==
  dbStatus # None =>
    /\ DbUnspent = UnspentAt[dbStatus]
    /\ \A c \in OnBranch(dbStatus) : \A o \in CoinbaseOuts[c] \cap DbUnspent :
         dbUtxo[o].coinbase /\ dbUtxo[o].height = Height[c]

\* When processBlock returns no indexed block is both higher and of no less work
\* than the best node, if every block can be connected.
NoBetterIndexed ==
  pc = "idle" => \A b \in DOMAIN index :
    Height[b] > Height[bestNode] => TotalWork[b] < TotalWork[bestNode]

\* saveSubBlock leaves no orphan behind whose parent is indexed, except one that
\* ValidateBlock refused.
NoStrandedOrphan ==
  pc = "idle" => \A b \in orphan : Prev[b] \in DOMAIN index => ~ValidateBlock(b) \/ b \in Early

\* OrphanManage.Get is asked only for blocks it holds.
NoPanic == pc # "panic"

\* The durable status moves only to a higher block of no less work, and a
\* restart does not move it.
NeverWorse ==
  [][dbStatus' # dbStatus =>
       \/ dbStatus = None /\ dbStatus' = Genesis
       \/ /\ dbStatus \in Block
          /\ Height[dbStatus'] > Height[dbStatus]
          /\ TotalWork[dbStatus'] >= TotalWork[dbStatus]]_vars

\* Whatever the order of delivery, once crashes and expiry cease the node settles
\* on a block that no other is better than: no block saved before a crash, or kept
\* as an orphan, is lost to the choice of the main chain.
Converges ==
  \/ []<><<Crash \/ OrphanExpire>>_vars
  \/ <>[](/\ bestNode # None
          /\ \A b \in Block : Height[b] > Height[bestNode] => TotalWork[b] < TotalWork[bestNode])

\* The store implements BestChain.
Durable == INSTANCE BestChain WITH
  accepted <- dbBlocks, best <- dbStatus, unspent <- DbUnspent
ImplementsBestChain == Durable!Spec
=============================================================================
