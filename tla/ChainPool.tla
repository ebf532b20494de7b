----------------------------- MODULE ChainPool ------------------------------
(***************************************************************************)
(* The pool and the chain together.  The chain is the one BestChain        *)
(* specifies, every block accepted beforehand: the order in which blocks   *)
(* arrive shows only in the block that becomes the best.  setState moves   *)
(* the store in one batch; connectBlock then takes the transactions of the *)
(* block out of the pool, one call of RemoveTransaction after the other,   *)
(* and reorganizeChain does not.  Miners take out what they cannot use.    *)
(***************************************************************************)
EXTENDS TxPool

VARIABLES
  best,    \* the best block
  evict,   \* connectBlock: transactions still to be taken out of the pool
  missed   \* whether a reorganisation ever confirmed a transaction of the pool

chainVars == <<best, evict, missed>>
vars == <<unspent, poolVars, chainVars>>

BC == INSTANCE BestChain WITH accepted <- Block
PV == INSTANCE Pool

TypeOK ==
  /\ PoolTypeOK
  /\ best \in Block
  /\ evict \in Seq(Tx)
  /\ missed \in BOOLEAN

Init ==
  /\ best = Genesis
  /\ unspent = UnspentAt[Genesis]
  /\ evict = <<>> /\ missed = FALSE
  /\ PoolInit

Idle == evict = <<>> /\ mtx # "chain"

\* setState of connectBlock.
Connect(b) ==
  /\ Idle
  /\ Prev[b] = best
  /\ BC!Adopt(b)
  /\ evict' = Txs[b]
  /\ UNCHANGED <<poolVars, missed>>

\* Mutant: the loop ends after the first transaction.
EvictFirst ==
  /\ evict # <<>>
  /\ RemoveTransaction("chain", Head(evict))
  /\ evict' = <<>>
  /\ UNCHANGED <<unspent, best, missed>>

\* The loop of connectBlock over the transactions of the block.
Evict ==
  /\ evict # <<>>
  /\ RemoveTransaction("chain", Head(evict))
  /\ evict' = Tail(evict)
  /\ UNCHANGED <<unspent, best, missed>>

\* The transactions of the chain that ends in b.
Confirmed(b) == {Txs[p[1]][p[2]] : p \in UpTo(b, Len(Txs[b]))}

\* setState of reorganizeChain, which also appends two blocks at once.
Reorganize(b) ==
  /\ Idle
  /\ Prev[b] # best
  /\ BC!Adopt(b)
  /\ missed' = (missed \/ pool \cap Confirmed(b) # {})
  /\ UNCHANGED <<poolVars, evict>>

\* NewBlockTemplate drops a transaction that its view or the validation refuses.
\* Which ones depends on the view it has built, so it may be any.
BlkGenSkipTx(t) ==
  /\ t \in pool
  /\ RemoveTransaction("miner", t)
  /\ UNCHANGED <<unspent, chainVars>>

PoolStep == PoolNext /\ UNCHANGED chainVars
Next ==
  \/ PoolStep
  \/ Evict
  \/ \E b \in Block : Connect(b) \/ Reorganize(b)
  \/ \E t \in PoolTx : BlkGenSkipTx(t)

Spec == Init /\ [][Next]_vars

\* The holder of mtx, the listener and the broadcast loop keep running.
FairSpec ==
  /\ Spec
  /\ WF_vars(Holder /\ UNCHANGED chainVars)
  /\ WF_vars(Listener /\ UNCHANGED chainVars)
  /\ WF_vars(TxBroadcast /\ UNCHANGED chainVars)
-----------------------------------------------------------------------------
\* addTransaction and RemoveTransaction keep TxPool.utxo the outputs of the pool,
\* also when a transaction comes twice or only its BTM outputs count.
PoolUtxoExact == utxo = UNION {Outs(t) : t \in pool}

\* No entry of orphansByPrev outlives its orphan or stands under an output that the
\* orphan does not spend: every way out of orphans cleans the index up.
OrphanIndexSound == \A o \in Output : \A t \in orphansByPrev[o] : t \in orphans /\ o \in t.spends

\* The messages the wallet has not seen, in their order.
Pending == (IF listening = <<>> THEN <<>> ELSE <<listening>>) \o msgCh
           \o (IF toSend = <<>> THEN <<>> ELSE <<toSend>>)

\* Whether t is among the wallet's unconfirmed transactions S once it has read the
\* messages ms: the last message about t decides.
InWalletAfter(S, t, ms) ==
  LET about == {i \in DOMAIN ms : ms[i].tx = t} IN
  IF about = {} THEN t \in S
  ELSE \E i \in about : ms[i].type = "MsgNewTx" /\ \A j \in about : j <= i

\* What the wallet holds as unconfirmed, once it has read the messages on their
\* way, is the pool: each change of the pool sends its message before mtx is free.
WalletCatchesUp == \A t \in PoolTx : t \in pool <=> InWalletAfter(unconfirmed, t, Pending)

\* processOrphans promotes an orphan with one input when the transaction it waits
\* for enters the pool, through any chain of orphans.
SingleInputPromoted ==
  mtx = Free => \A t \in orphans : Cardinality(t.spends) = 1 => t.spends \cap utxo = {}

\* "TxPool is use for store the unconfirmed transaction" (protocol/txpool.go:60): once
\* connectBlock is done no transaction of the main chain is in the pool, unless a
\* reorganisation has confirmed one and left it there, for its children to follow.
PoolUnconfirmed == Idle /\ ~missed => pool \cap Confirmed(best) = {}

\* A transaction leaves the orphans by expiring or for the pool, unless the pool is
\* full: processOrphans never drops one that could enter.
OrphanFate ==
  [][\A t \in orphans \ orphans' : t \in pool' \/ ExpireOrphan \/ Full]_vars

\* The pool is what its readers may rely on: see module Pool.
ImplementsPool == PV!Spec

\* mtx is released: no method waits for ever for room in msgCh while the listener
\* and the broadcast loop run.
LockReleased == mtx # Free ~> mtx = Free
=============================================================================
