------------------------------- MODULE Wallet -------------------------------
(***************************************************************************)
(* wallet.Wallet follows the main chain: its goroutine walletUpdater takes *)
(* back blocks that have left the main chain and attaches those it has not *)
(* seen, one at a time.  A rescan starts the work over from the genesis    *)
(* block without a change of the best block the wallet knows.              *)
(*                                                                         *)
(* The chain moves at any point between two looks of the wallet at it, and *)
(* the node may stop at any point: a block changes the database and the    *)
(* status in one batch, and the status in memory is the one written last.  *)
(* An address may be created at any time.                                  *)
(***************************************************************************)
EXTENDS Blocks

CONSTANTS
  Program,      \* Program[o]: the control program of an output
  P2W           \* the programs that are P2WPKH or P2WSH

VARIABLE best   \* the end of the main chain

VARIABLES       \* the wallet's database
  programs,     \* control programs of its accounts
  utxos,        \* the outputs it holds, each with its ValidHeight
  annotated,    \* transactions it lists, as pairs of a block and a position
  work,         \* StatusInfo.WorkHash, None for the zero hash
  bestHash      \* StatusInfo.BestHash

VARIABLES       \* lost when the node stops
  pc, block,    \* walletUpdater and the block it has in hand
  rescanCh      \* whether a rescan is asked for

VARIABLE covered  \* history: the programs known when the last rescan began

dbVars == <<programs, utxos, annotated, work, bestHash>>
vars == <<best, dbVars, pc, block, rescanCh, covered>>

\* Every block is accepted beforehand, as in ChainPool.
BC == INSTANCE BestChain WITH accepted <- Block, unspent <- UnspentAt[best]

HeightOf(b) == IF b = None THEN 0 ELSE Height[b]

\* filterAccountUtxo: outputs to a program in p, and all contracts.
Owned(p) == {o \in Output : Program[o] \notin P2W \/ Program[o] \in p}

ASSUME WalletAssumption ==
  /\ \A b \in Block \ {Genesis} : Height[b] = Height[Prev[b]] + 1
  /\ Output \subseteq DOMAIN Program
  /\ P2W \subseteq {Program[o] : o \in Output}

TypeOK ==
  /\ best \in Block
  /\ programs \subseteq P2W /\ covered \subseteq programs
  /\ DOMAIN utxos \subseteq Owned(programs) /\ utxos \in [DOMAIN utxos -> Nat]
  /\ \A p \in annotated : p[1] \in Block /\ p[2] \in DOMAIN Txs[p[1]]
  /\ work \in Block \cup {None} /\ bestHash \in Block \cup {None}
  /\ HeightOf(work) <= HeightOf(bestHash)
  /\ pc \in {"load", "top", "check", "detach", "fetch", "attach", "wait"}
  /\ pc # "load" => work # None /\ bestHash # None
  /\ block \in Block \cup {None} /\ rescanCh \in BOOLEAN

Init ==
  /\ best = Genesis
  /\ programs = {} /\ covered = {} /\ utxos = <<>> /\ annotated = {}
  /\ work = None /\ bestHash = None
  /\ pc = "load" /\ block = None /\ rescanCh = FALSE
-----------------------------------------------------------------------------
BlockSpends(b) == UNION {Spends(Txs[b][i]) : i \in DOMAIN Txs[b]}
BlockOuts(b) == UNION {Outs(Txs[b][i]) : i \in DOMAIN Txs[b]}

\* Mutant: the coinbase has no ValidHeight either.
AttachWithoutHeight(b) ==
  utxos' = [o \in (DOMAIN utxos \cup (BlockOuts(b) \cap Owned(programs))) \ BlockSpends(b) |->
    IF o \in BlockOuts(b) THEN 0 ELSE utxos[o]]

\* attachUtxos, one batch: in the order of the transactions, what they spend goes and
\* what they create comes, so an output spent in its own block goes.
AttachUtxos(b) ==
  utxos' = [o \in (DOMAIN utxos \cup (BlockOuts(b) \cap Owned(programs))) \ BlockSpends(b) |->
    IF o \in CoinbaseOuts[b] THEN Height[b] + CoinbasePending
    ELSE IF o \in BlockOuts(b) THEN 0 ELSE utxos[o]]

\* Mutant: from the first transaction to the last.
DetachForward(b) ==
  utxos' = [o \in (DOMAIN utxos \ BlockOuts(b)) \cup (BlockSpends(b) \cap Owned(programs)) |->
    IF o \in BlockSpends(b) THEN 0 ELSE utxos[o]]

\* detachUtxos, from the last transaction to the first.  What comes back has no
\* ValidHeight.
DetachUtxos(b) ==
  utxos' = [o \in (DOMAIN utxos \cup (BlockSpends(b) \cap Owned(programs))) \ BlockOuts(b) |->
    IF o \in BlockSpends(b) THEN 0 ELSE utxos[o]]

\* filterAccountTxs reads the database, which this block has not changed yet.
FilterAccountTxs(b) ==
  {i \in DOMAIN Txs[b] :
     \/ \E o \in Txs[b][i].outs : Program[o] \in programs
     \/ \E o \in Txs[b][i].spends \cap DOMAIN utxos : Program[o] \in P2W}

\* indexTransactions: a key is a height and a position.
IndexTransactions(b) ==
  LET is == FilterAccountTxs(b) IN
  annotated' = {p \in annotated : ~(Height[p[1]] = Height[b] /\ p[2] \in is)} \cup ({b} \X is)

\* Mutant: the height after the detach.
DeleteBelow(h) == annotated' = {p \in annotated : Height[p[1]] # h - 1}

DeleteTransactions(h) == annotated' = {p \in annotated : Height[p[1]] # h}

\* AttachBlock(b) when the status says from; a block that does not follow is skipped.
AttachBlock(from, b) ==
  IF Prev[b] # from THEN UNCHANGED dbVars
  ELSE /\ AttachUtxos(b)
       /\ IndexTransactions(b)
       /\ work' = b
       /\ bestHash' = IF Height[b] >= HeightOf(bestHash) THEN b ELSE bestHash
       /\ UNCHANGED programs

DetachBlock(b) ==
  /\ DetachUtxos(b)
  /\ DeleteTransactions(Height[bestHash])
  /\ bestHash' = Prev[b]
  /\ work' = IF Height[work] > Height[Prev[b]] THEN Prev[b] ELSE work
  /\ UNCHANGED programs

\* setRescanStatus: the zero hash and AttachBlock of the genesis block.
SetRescanStatus ==
  /\ AttachBlock(None, Genesis)
  /\ covered' = programs
  /\ rescanCh' = FALSE
-----------------------------------------------------------------------------
LoadWalletInfo ==
  /\ pc = "load"
  /\ IF bestHash # None THEN UNCHANGED dbVars ELSE AttachBlock(work, Genesis)
  /\ pc' = "top"
  /\ UNCHANGED <<best, block, rescanCh, covered>>

GetRescanNotification ==
  /\ pc = "top"
  /\ IF rescanCh THEN SetRescanStatus ELSE UNCHANGED <<dbVars, covered, rescanCh>>
  /\ pc' = "check"
  /\ UNCHANGED <<best, block>>

CheckMainChain ==
  /\ pc = "check"
  /\ pc' = IF bestHash \in OnBranch(best) THEN "fetch" ELSE "detach"
  /\ UNCHANGED <<best, dbVars, block, rescanCh, covered>>

Detach ==
  /\ pc = "detach"
  /\ DetachBlock(bestHash)
  /\ pc' = "check"
  /\ UNCHANGED <<best, block, rescanCh, covered>>

\* GetBlockByHeight(WorkHeight + 1).
Fetch ==
  /\ pc = "fetch"
  /\ IF Height[work] < Height[best]
     THEN block' = Branch[best][Height[work] + 2] /\ pc' = "attach"
     ELSE pc' = "wait" /\ UNCHANGED block
  /\ UNCHANGED <<best, dbVars, rescanCh, covered>>

Attach ==
  /\ pc = "attach"
  /\ AttachBlock(work, block)
  /\ block' = None
  /\ pc' = "top"
  /\ UNCHANGED <<best, rescanCh, covered>>

\* Mutant: it waits for one block more.
WaitTwoBlocks ==
  /\ pc = "wait"
  /\ Height[best] > Height[work] + 1
  /\ pc' = "top"
  /\ UNCHANGED <<best, dbVars, block, rescanCh, covered>>

\* walletBlockWaiter: a higher block, or a rescan.
WaitBlock ==
  /\ pc = "wait"
  /\ Height[best] > Height[work]
  /\ pc' = "top"
  /\ UNCHANGED <<best, dbVars, block, rescanCh, covered>>

WaitRescan ==
  /\ pc = "wait"
  /\ rescanCh
  /\ SetRescanStatus
  /\ pc' = "top"
  /\ UNCHANGED <<best, block>>

RescanBlocks ==
  /\ pc # "load"
  /\ rescanCh' = TRUE
  /\ UNCHANGED <<best, dbVars, pc, block, covered>>

CreateAddress(p) ==
  /\ programs' = programs \cup {p}
  /\ UNCHANGED <<best, utxos, annotated, work, bestHash, pc, block, rescanCh, covered>>

MainChainMoves(b) ==
  /\ BC!Adopt(b)
  /\ UNCHANGED <<dbVars, pc, block, rescanCh, covered>>

\* The node stops and starts again.
Restart ==
  /\ pc' = "load" /\ block' = None /\ rescanCh' = FALSE
  /\ UNCHANGED <<best, dbVars, covered>>

Updater ==
  \/ LoadWalletInfo \/ GetRescanNotification \/ CheckMainChain \/ Detach \/ Fetch
  \/ Attach \/ WaitBlock \/ WaitRescan
Others == Restart \/ RescanBlocks \/ \E p \in P2W : CreateAddress(p)
Next == Updater \/ Others \/ \E b \in Block : MainChainMoves(b)

Fairness == WF_vars(Updater)
Spec == Init /\ [][Next]_vars /\ Fairness

\* No reorganisation that drops the wallet's best block while a rescan is under way.
Calm(b) == work = bestHash \/ bestHash \in OnBranch(b)
CalmSpec ==
  Init /\ [][Updater \/ Others \/ \E b \in Block : Calm(b) /\ MainChainMoves(b)]_vars /\ Fairness
-----------------------------------------------------------------------------
\* "WalletUpdate process every valid block and reverse every invalid block which need
\* to rollback" (wallet/wallet.go:148): whenever no rescan is under way the wallet holds
\* only outputs that are unspent after its best block, and all of those whose program
\* it knew when it last began from the genesis block.
UtxosExact ==
  work = bestHash /\ bestHash # None =>
    /\ DOMAIN utxos \subseteq UnspentAt[bestHash]
    /\ Owned(covered) \cap UnspentAt[bestHash] \subseteq DOMAIN utxos

\* indexTransactions and deleteTransactions, keyed by height, leave no transaction of
\* another branch in the list, and miss none that pays to a program known in time.
AnnotatedExact ==
  work = bestHash /\ bestHash # None =>
    /\ \A p \in annotated : p[1] \in OnBranch(bestHash)
    /\ \A b \in OnBranch(bestHash) : \A i \in DOMAIN Txs[b] :
         (\E o \in Txs[b][i].outs : Program[o] \in covered) => <<b, i>> \in annotated

\* The ValidHeight that detachUtxos loses does no harm: a coinbase output that counts
\* as mature may be spent in the next block of the main chain.
MaturityHonest ==
  \A d \in OnBranch(best) : \A o \in CoinbaseOuts[d] \cap DOMAIN utxos :
    utxos[o] <= Height[best] => Height[d] + CoinbasePending <= Height[best] + 1

\* walletUpdater catches up: once the main chain, the rescans and the restarts stop it gets
\* to the best block and stays there, also when a block it fetched was skipped.
CatchesUp ==
  <>[][best' = best /\ rescanCh' = rescanCh /\ pc' # "load"]_vars
    => <>[](work = best /\ bestHash = best)
=============================================================================
