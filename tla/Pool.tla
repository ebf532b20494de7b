-------------------------------- MODULE Pool --------------------------------
(***************************************************************************)
(* What TxPool and the chain promise to those who read them: the main      *)
(* chain moves to better blocks only, a transaction enters the pool only   *)
(* while all of its inputs are there, on the chain or in the pool, and the *)
(* pool does not outgrow its limit.  A transaction may leave at any time.  *)
(***************************************************************************)
EXTENDS Blocks, FiniteSets

CONSTANTS PoolTx, MaxNewTxNum

VARIABLES
  best,       \* the best block
  unspent,    \* the outputs that the store lets a transaction spend
  pool        \* TxPool.pool

vars == <<best, unspent, pool>>

BC == INSTANCE BestChain WITH accepted <- Block

Init == best = Genesis /\ unspent = UnspentAt[Genesis] /\ pool = {}

Move == pool' = pool /\ \E b \in Block : BC!Adopt(b)

Enter(t) ==
  /\ t.spends \subseteq unspent \cup UNION {Outs(u) : u \in pool}
  /\ Cardinality(pool) < MaxNewTxNum
  /\ pool' = pool \cup {t}
  /\ UNCHANGED <<best, unspent>>

Leave(t) ==
  /\ pool' = pool \ {t}
  /\ UNCHANGED <<best, unspent>>

Next == Move \/ \E t \in PoolTx : Enter(t) \/ Leave(t)

Spec == Init /\ [][Next]_vars
=============================================================================
