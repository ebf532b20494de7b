------------------------------ MODULE Template ------------------------------
(***************************************************************************)
(* mining.NewBlockTemplate at work on the pool and the chain.  It takes    *)
(* the parent from the best block and a list of transactions from the      *)
(* pool, and then goes through the list with a view of its own, reading    *)
(* the store as it goes: the chain and the pool move on meanwhile.  What   *)
(* it cannot apply it takes out of the pool.                               *)
(*                                                                         *)
(* The pool is what module Pool promises, so what other miners and the     *)
(* chain take out of it may leave at any time.  No transaction has a time  *)
(* range: what ValidateTx let into the pool it lets into a block.          *)
(***************************************************************************)
EXTENDS Pool, SequencesExt

CONSTANTS
  NoTx,           \* no transaction
  Gas,            \* Gas[t]: the gas t uses
  MaxBlockGas,    \* consensus.MaxBlockGas
  MaxTime         \* bound on the seconds that pass

ASSUME TemplateAssumption ==
  NoTx \notin PoolTx /\ Gas \in [PoolTx -> Nat] /\ MaxBlockGas \in Nat /\ MaxTime \in Nat

VARIABLES
  bestNode,       \* Chain.bestNode: best is the status of the store, which moves first
  now,            \* the clock, in seconds
  added,          \* added[t]: TxDesc.Added of t in the pool, 0 for one that is not
  parent,         \* the block the template builds on, None if none is being made
  listed,         \* the list as it was taken: a second for each transaction
  todo,           \* the rest of the list, in its order
  view,           \* view[o]: whether o is spent, for the entries of the view
  taken,          \* the transactions of the template, without the coinbase
  skip            \* the one to be taken out of the pool, or NoTx

blockVars == <<parent, listed, todo, view, taken, skip>>
poolVars == <<vars, bestNode, added>>
templateVars == <<poolVars, now, blockVars>>

GasUsed == FoldSeq(LAMBDA t, n : Gas[t] + n, 0, taken)

Nothing == [x \in {} |-> FALSE]
NoTemplate == listed' = Nothing /\ todo' = <<>> /\ view' = Nothing /\ taken' = <<>> /\ skip' = NoTx

TemplateInit ==
  /\ Init
  /\ bestNode = Genesis /\ now = 0 /\ added = [t \in PoolTx |-> 0]
  /\ parent = None /\ listed = Nothing /\ todo = <<>> /\ view = Nothing /\ taken = <<>> /\ skip = NoTx

\* addTransaction stamps what enters the pool, also if it was there before.
AddTransaction(t) ==
  /\ Enter(t)
  /\ added' = [added EXCEPT ![t] = now]
  /\ UNCHANGED <<bestNode, now, blockVars>>

Removed(t) == Leave(t) /\ added' = [added EXCEPT ![t] = 0]
RemoveTransaction(t) == t \in pool /\ Removed(t) /\ UNCHANGED <<bestNode, now, blockVars>>

\* setState: the batch of SaveChainStatus, then the best node.
SetState == bestNode = best /\ Move /\ UNCHANGED <<bestNode, now, added, blockVars>>
SetBestNode == bestNode # best /\ bestNode' = best /\ UNCHANGED <<vars, now, added, blockVars>>

Tick == now < MaxTime /\ now' = now + 1 /\ UNCHANGED <<poolVars, blockVars>>
-----------------------------------------------------------------------------
BestBlockHeader ==
  /\ parent = None
  /\ parent' = bestNode
  /\ NoTemplate
  /\ UNCHANGED <<poolVars, now>>

\* Mutant: the list stays in the order of the pool's map.
AnyOrder(s) == TRUE
\* sort.Sort(byTime): by the second; those of one second come in any order.
ByTime(s) == \A i, j \in DOMAIN s : i < j => added[s[i]] <= added[s[j]]

GetTransactions ==
  /\ parent # None /\ listed = Nothing
  /\ pool # {}
  /\ listed' = [t \in pool |-> added[t]]
  /\ \E s \in SetToSeqs(pool) : ByTime(s) /\ todo' = s
  /\ UNCHANGED <<poolVars, now, parent, view, taken, skip>>

\* The entries of the store: a coinbase output stays in it when it is spent.
Stored == unspent \cup UNION {CoinbaseOuts[b] : b \in OnBranch(best)}

\* Mutant: the store is read over the entries of the view.
LoadedAgain(t) == [o \in DOMAIN view \cup (t.spends \cap Stored) |->
                     IF o \in t.spends \cap Stored THEN o \notin unspent ELSE view[o]]
\* GetTransactionsUtxo for one transaction.
Loaded(t) == [o \in DOMAIN view \cup (t.spends \cap Stored) |->
                IF o \in DOMAIN view THEN view[o] ELSE o \notin unspent]

Immature(o) ==
  \E b \in Block : o \in CoinbaseOuts[b] /\ Height[b] + CoinbasePending > Height[parent] + 1

CanSpend(v, o) == o \in DOMAIN v /\ ~v[o] /\ ~Immature(o)

\* ApplyTransaction: a transaction that fails leaves the inputs before marked, and
\* these may be any, in the order of a map.
Applied(v, t) == [o \in DOMAIN v \cup Outs(t) |-> o \notin Outs(t) /\ (o \in Spends(t) \/ v[o])]

Take ==
  /\ skip = NoTx /\ todo # <<>>
  /\ LET t == Head(todo)
         v == Loaded(t)
     IN /\ GasUsed + Gas[t] <= MaxBlockGas
        /\ \A o \in Spends(t) : CanSpend(v, o)
        /\ view' = Applied(v, t)
        /\ taken' = Append(taken, t)
        /\ todo' = IF GasUsed + Gas[t] = MaxBlockGas THEN <<>> ELSE Tail(todo)
  /\ UNCHANGED <<poolVars, now, parent, listed, skip>>

Fail ==
  /\ skip = NoTx /\ todo # <<>>
  /\ LET t == Head(todo)
         v == Loaded(t)
         good == {o \in Spends(t) : CanSpend(v, o)}
     IN /\ GasUsed + Gas[t] <= MaxBlockGas
        /\ good # Spends(t)
        /\ \E marked \in SUBSET good : view' = [o \in DOMAIN v |-> v[o] \/ o \in marked]
        /\ skip' = t
        /\ todo' = Tail(todo)
  /\ UNCHANGED <<poolVars, now, parent, listed, taken>>

GasLimit ==
  /\ skip = NoTx /\ todo # <<>>
  /\ GasUsed + Gas[Head(todo)] > MaxBlockGas
  /\ todo' = <<>>
  /\ UNCHANGED <<poolVars, now, parent, listed, view, taken, skip>>

BlkGenSkipTxForErr ==
  /\ skip # NoTx
  /\ Removed(skip)
  /\ skip' = NoTx
  /\ UNCHANGED <<bestNode, now, parent, listed, todo, view, taken>>

Return ==
  /\ parent # None /\ skip = NoTx /\ todo = <<>>
  /\ listed # Nothing \/ pool = {}
  /\ parent' = None
  /\ NoTemplate
  /\ UNCHANGED <<poolVars, now>>

NewBlockTemplate ==
  BestBlockHeader \/ GetTransactions \/ Take \/ Fail \/ GasLimit \/ BlkGenSkipTxForErr \/ Return

TemplateNext ==
  \/ \E t \in PoolTx : AddTransaction(t) \/ RemoveTransaction(t)
  \/ SetState \/ SetBestNode
  \/ Tick
  \/ NewBlockTemplate

TemplateSpec == TemplateInit /\ [][TemplateNext]_templateVars
-----------------------------------------------------------------------------
Seen(t) == DOMAIN listed \ ({t} \cup ToSet(todo))

(***************************************************************************)
(* The block applies: as long as the best block is still the parent, what  *)
(* NewBlockTemplate takes spends outputs of the chain or of transactions   *)
(* taken before, mature ones, that none of these spends, and the gas of    *)
(* the block stays within its limit.                                       *)
(***************************************************************************)
TakenApplies ==
  [][\A t \in PoolTx : taken' = Append(taken, t) /\ parent = best =>
       /\ GasUsed' <= MaxBlockGas
       /\ \A o \in Spends(t) :
         /\ o \in UnspentAt[parent] \cup UNION {Outs(u) : u \in ToSet(taken)}
         /\ \A u \in ToSet(taken) : o \notin Spends(u)
         /\ ~Immature(o)]_templateVars

(***************************************************************************)
(* What is taken out of the pool, as long as the best block is still the   *)
(* parent, spends an immature output, or one that a transaction before it  *)
(* in the list spends too (even if that failed), or one that neither the   *)
(* chain nor a transaction of an earlier second has created: its parent    *)
(* came in the same second, later, or was refused itself.                  *)
(***************************************************************************)
DropJust ==
  [][\A t \in PoolTx : skip = NoTx /\ skip' = t /\ parent = best =>
       \E o \in Spends(t) :
         \/ Immature(o)
         \/ \E u \in Seen(t) : o \in Spends(u)
         \/ /\ o \notin UnspentAt[parent]
            /\ \A u \in DOMAIN listed : o \in Outs(u) =>
                 listed[u] >= listed[t] \/ u \in Seen(t) \ ToSet(taken)]_templateVars
=============================================================================
