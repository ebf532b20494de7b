------------------------------- MODULE TxPool -------------------------------
(***************************************************************************)
(* protocol.TxPool: the unconfirmed transactions, the outputs they create, *)
(* and the transactions that wait for an output nobody has created yet.    *)
(* Its actors: goroutines that call Chain.ValidateTx (the API, one per     *)
(* peer), callers of RemoveTransaction, the worker that expires orphans,   *)
(* and newPoolTxListener, which takes the pool's messages to the           *)
(* synchroniser and to the wallet.                                         *)
(*                                                                         *)
(* The pool's methods run under mtx.  A method that sends a message does   *)
(* so before it releases mtx, and waits there while msgCh is full.         *)
(* The store changes under the pool: unspent belongs to the chain.         *)
(***************************************************************************)
EXTENDS Blocks, FiniteSets

CONSTANTS
  PoolTx,         \* the transactions that may be submitted
  Invalid,        \* those that validation.ValidateTx refuses (not even gas is valid)
  Caller,         \* goroutines that call ValidateTx: the API, one per peer
  Offers,         \* Offers[c]: the transactions c may submit
  NoTx, Free,     \* no transaction; no holder of mtx
  MaxNewTxNum, MaxOrphanNum, MaxMsgChSize, MaxTxChanSize

ASSUME PoolAssumption ==
  /\ PoolTx \subseteq Tx
  /\ \A t \in PoolTx : Spends(t) # {}                          \* a transaction pays its gas
  /\ \A t, u \in PoolTx : t # u => t.outs \cap u.outs = {}     \* an output ID commits to its creator
  /\ Invalid \subseteq PoolTx
  /\ Offers \in [Caller -> SUBSET PoolTx]
  /\ NoTx \notin PoolTx
  /\ Free \notin Caller \cup {"chain", "miner"}
  /\ {MaxNewTxNum, MaxOrphanNum, MaxMsgChSize, MaxTxChanSize} \subseteq Nat \ {0}

VARIABLE unspent  \* the outputs that the store lets a transaction spend

VARIABLES
  pool,           \* TxPool.pool
  utxo,           \* TxPool.utxo, its keys
  orphans,        \* TxPool.orphans
  orphansByPrev   \* TxPool.orphansByPrev, {} for an absent key

VARIABLES         \* the method that holds mtx
  mtx,            \* its caller, or Free
  rely,           \* processOrphans: what is queued, a sequence of batches
  toSend          \* the message it must send first, <<>> if there is none

VARIABLES
  callTx,         \* callTx[c]: the transaction c is validating, or NoTx
  msgCh,          \* TxPool.msgCh
  listening,      \* the message newPoolTxListener has in hand, <<>> if none
  newTxCh,        \* SyncManager.newTxCh: how many transactions are in it
  unconfirmed     \* transactions whose outputs the wallet holds as unconfirmed

lockVars == <<mtx, rely, toSend>>
orphanVars == <<orphans, orphansByPrev>>
listenVars == <<listening, newTxCh, unconfirmed>>
poolVars == <<pool, utxo, orphanVars, lockVars, callTx, msgCh, listenVars>>

NewTx(t) == [type |-> "MsgNewTx", tx |-> t]
RemoveTx(t) == [type |-> "MsgRemoveTx", tx |-> t]
Msg == [type : {"MsgNewTx", "MsgRemoveTx"}, tx : PoolTx]

PoolTypeOK ==
  /\ pool \subseteq PoolTx /\ Cardinality(pool) <= MaxNewTxNum
  /\ utxo \subseteq Output
  /\ orphans \subseteq PoolTx /\ Cardinality(orphans) <= MaxOrphanNum
  /\ orphansByPrev \in [Output -> SUBSET PoolTx]
  /\ mtx \in Caller \cup {Free, "chain", "miner"}
  /\ rely \in Seq(SUBSET (Output \X PoolTx))
  /\ toSend \in Msg \cup {<<>>}
  /\ mtx = Free => rely = <<>> /\ toSend = <<>>
  /\ callTx \in [Caller -> PoolTx \cup {NoTx}]
  /\ msgCh \in Seq(Msg) /\ Len(msgCh) <= MaxMsgChSize
  /\ listening \in Msg \cup {<<>>}
  /\ newTxCh \in 0..MaxTxChanSize
  /\ unconfirmed \subseteq PoolTx

PoolInit ==
  /\ pool = {} /\ utxo = {} /\ orphans = {}
  /\ orphansByPrev = [o \in Output |-> {}]
  /\ mtx = Free /\ rely = <<>> /\ toSend = <<>>
  /\ callTx = [c \in Caller |-> NoTx]
  /\ msgCh = <<>> /\ listening = <<>> /\ newTxCh = 0 /\ unconfirmed = {}
-----------------------------------------------------------------------------
(***************************************************************************)
(* ValidateTx(t) called by c: ask the pool, validate without mtx, process. *)
(***************************************************************************)
\* TxPool.errCache is keyed by the address of the caller's own transaction, so an entry
\* for an earlier copy is never found, and the cache is left out.
HaveTransaction(t) == t \in pool

ValidateTx(c, t) ==
  /\ callTx[c] = NoTx
  /\ mtx = Free
  /\ ~HaveTransaction(t)
  /\ callTx' = [callTx EXCEPT ![c] = t]
  /\ UNCHANGED <<unspent, pool, utxo, orphanVars, lockVars, msgCh, listenVars>>

AddErrCache(c) ==
  /\ callTx[c] \in Invalid
  /\ mtx = Free
  /\ callTx' = [callTx EXCEPT ![c] = NoTx]
  /\ UNCHANGED <<unspent, pool, utxo, orphanVars, lockVars, msgCh, listenVars>>

\* checkOrphanUtxos: the outputs t needs that are neither in the store nor in the pool.
CheckOrphanUtxos(t) == {o \in t.spends : o \notin unspent /\ o \notin utxo}

(***************************************************************************)
(* addOrphan.  checkOrphanUtxos returns pointers to its loop variable: all *)
(* of them end up at the last output of the loop, missing or not.  The     *)
(* order of SpentOutputIDs is that of a map, so the last may be any.       *)
(***************************************************************************)
AddOrphan(t) ==
  IF Cardinality(orphans) >= MaxOrphanNum THEN UNCHANGED orphanVars
  ELSE /\ orphans' = orphans \cup {t}
       /\ \E last \in t.spends : orphansByPrev' = [orphansByPrev EXCEPT ![last] = @ \cup {t}]

\* Mutant: an output that nobody waits for ends the loop.
RelyBreak(t) ==
  {p \in t.outs \X PoolTx : p[2] \in orphansByPrev[p[1]] /\ \A o \in t.outs : orphansByPrev[o] # {}}

\* The orphans addRely queues for t; ResultIds covers every output of t.
Rely(t) == {p \in t.outs \X PoolTx : p[2] \in orphansByPrev[p[1]]}
Forget(byPrev, t) == [o \in Output |-> IF o \in t.outs THEN {} ELSE byPrev[o]]

\* Mutant: a failed transaction offers all of its outputs.
AddAllOuts(t) ==
  /\ pool' = pool \cup {t}
  /\ utxo' = utxo \cup t.outs
  /\ toSend' = NewTx(t)

\* addTransaction, for a pool that is not full.
AddTransaction(t) ==
  /\ pool' = pool \cup {t}
  /\ utxo' = utxo \cup Outs(t)
  /\ toSend' = NewTx(t)

\* Mutant: one transaction too many.
FullBeyond == Cardinality(pool) > MaxNewTxNum

Full == Cardinality(pool) >= MaxNewTxNum

\* ProcessTransaction up to the first send or to its return.
ProcessTransaction(c) ==
  /\ callTx[c] \notin Invalid \cup {NoTx}
  /\ mtx = Free
  /\ LET t == callTx[c] IN
     \/ /\ CheckOrphanUtxos(t) # {}
        /\ AddOrphan(t)
        /\ callTx' = [callTx EXCEPT ![c] = NoTx]
        /\ UNCHANGED <<pool, utxo, lockVars>>
     \/ /\ CheckOrphanUtxos(t) = {}
        /\ Full
        /\ callTx' = [callTx EXCEPT ![c] = NoTx]
        /\ UNCHANGED <<pool, utxo, orphanVars, lockVars>>
     \/ /\ CheckOrphanUtxos(t) = {}
        /\ ~Full
        /\ mtx' = c
        /\ AddTransaction(t)
        /\ rely' = <<Rely(t)>>
        /\ orphansByPrev' = Forget(orphansByPrev, t)
        /\ UNCHANGED <<orphans, callTx>>
  /\ UNCHANGED <<unspent, msgCh, listenVars>>

\* Mutant: the index by output is left alone.
RemoveOrphanOnly(byPrev, t) ==
  /\ orphans' = orphans \ {t}
  /\ orphansByPrev' = byPrev

\* removeOrphan does nothing for a transaction that is no longer an orphan.
RemoveOrphan(byPrev, t) ==
  /\ orphans' = orphans \ {t}
  /\ orphansByPrev' = [o \in Output |->
       IF t \in orphans /\ o \in t.spends THEN byPrev[o] \ {t} ELSE byPrev[o]]

\* Mutant: an orphan is removed whether or not its parents are all there.
ProcessOrphansDrop ==
  /\ mtx # Free /\ toSend = <<>>
  /\ rely # <<>> /\ Head(rely) # {}
  /\ \E p \in Head(rely) :
       /\ rely' = <<Head(rely) \ {p}>> \o Tail(rely)
       /\ RemoveOrphan(Forget(orphansByPrev, p[2]), p[2])
       /\ IF CheckOrphanUtxos(p[2]) # {} \/ Full THEN UNCHANGED <<pool, utxo, toSend>>
          ELSE AddTransaction(p[2])
  /\ UNCHANGED <<unspent, mtx, callTx, msgCh, listenVars>>

\* One iteration of processOrphans; the queue is a sequence of batches, each what
\* one addRely appended, in the order of the maps, that is in any.
ProcessOrphans ==
  /\ mtx # Free /\ toSend = <<>>
  /\ rely # <<>> /\ Head(rely) # {}
  /\ \E p \in Head(rely) :
       LET t == p[2]
           rest == <<Head(rely) \ {p}>> \o Tail(rely)
       IN \/ /\ CheckOrphanUtxos(t) # {}
             /\ rely' = rest
             /\ UNCHANGED <<pool, utxo, orphanVars, toSend>>
          \/ /\ CheckOrphanUtxos(t) = {}
             /\ rely' = Append(rest, Rely(t))
             /\ RemoveOrphan(Forget(orphansByPrev, t), t)
             /\ IF Full THEN UNCHANGED <<pool, utxo, toSend>> ELSE AddTransaction(t)
  /\ UNCHANGED <<unspent, mtx, callTx, msgCh, listenVars>>

NextBatch ==
  /\ mtx # Free /\ toSend = <<>>
  /\ rely # <<>> /\ Head(rely) = {}
  /\ rely' = Tail(rely)
  /\ UNCHANGED <<unspent, pool, utxo, orphanVars, mtx, toSend, callTx, msgCh, listenVars>>

Send ==
  /\ toSend # <<>>
  /\ Len(msgCh) < MaxMsgChSize
  /\ msgCh' = Append(msgCh, toSend)
  /\ toSend' = <<>>
  /\ UNCHANGED <<unspent, pool, utxo, orphanVars, mtx, rely, callTx, listenVars>>

Unlock ==
  /\ mtx # Free /\ toSend = <<>> /\ rely = <<>>
  /\ mtx' = Free
  /\ callTx' = [c \in Caller |-> IF c = mtx THEN NoTx ELSE callTx[c]]
  /\ UNCHANGED <<unspent, pool, utxo, orphanVars, rely, toSend, msgCh, listenVars>>
-----------------------------------------------------------------------------
\* Mutant: no message is sent.
RemoveSilently(actor, t) ==
  /\ mtx = Free
  /\ pool' = pool \ {t}
  /\ utxo' = utxo \ t.outs
  /\ UNCHANGED <<orphanVars, lockVars, callTx, msgCh, listenVars>>

\* RemoveTransaction(t) called by actor, up to the send.
RemoveTransaction(actor, t) ==
  /\ mtx = Free
  /\ IF t \in pool
     THEN /\ pool' = pool \ {t}
          /\ utxo' = utxo \ t.outs
          /\ toSend' = RemoveTx(t)
          /\ mtx' = actor
     ELSE UNCHANGED <<pool, utxo, toSend, mtx>>
  /\ UNCHANGED <<orphanVars, rely, callTx, msgCh, listenVars>>

\* ExpireOrphan: removeOrphan for every orphan whose time is over.
ExpireOrphan ==
  /\ mtx = Free
  /\ \E S \in (SUBSET orphans) \ {{}} :
       /\ orphans' = orphans \ S
       /\ orphansByPrev' = [o \in Output |-> orphansByPrev[o] \ {t \in S : o \in t.spends}]
  /\ UNCHANGED <<unspent, pool, utxo, lockVars, callTx, msgCh, listenVars>>
-----------------------------------------------------------------------------
(***************************************************************************)
(* newPoolTxListener: a new transaction goes to the synchroniser, then to  *)
(* the wallet; a removed one to the wallet.                                *)
(***************************************************************************)
\* Mutant: the listener looks into the pool first.
ListenLocked ==
  /\ listening = <<>>
  /\ mtx = Free
  /\ msgCh # <<>>
  /\ listening' = Head(msgCh)
  /\ msgCh' = Tail(msgCh)
  /\ UNCHANGED <<unspent, pool, utxo, orphanVars, lockVars, callTx, newTxCh, unconfirmed>>

Listen ==
  /\ listening = <<>>
  /\ msgCh # <<>>
  /\ listening' = Head(msgCh)
  /\ msgCh' = Tail(msgCh)
  /\ UNCHANGED <<unspent, pool, utxo, orphanVars, lockVars, callTx, newTxCh, unconfirmed>>

AddUnconfirmedTx ==
  /\ listening # <<>> /\ listening.type = "MsgNewTx"
  /\ newTxCh < MaxTxChanSize
  /\ newTxCh' = newTxCh + 1
  /\ unconfirmed' = unconfirmed \cup {listening.tx}
  /\ listening' = <<>>
  /\ UNCHANGED <<unspent, pool, utxo, orphanVars, lockVars, callTx, msgCh>>

RemoveUnconfirmedTx ==
  /\ listening # <<>> /\ listening.type = "MsgRemoveTx"
  /\ unconfirmed' = unconfirmed \ {listening.tx}
  /\ listening' = <<>>
  /\ UNCHANGED <<unspent, pool, utxo, orphanVars, lockVars, callTx, msgCh, newTxCh>>

\* txBroadcastLoop takes a transaction to the peers.
TxBroadcast ==
  /\ newTxCh > 0
  /\ newTxCh' = newTxCh - 1
  /\ UNCHANGED <<unspent, pool, utxo, orphanVars, lockVars, callTx, msgCh, listening, unconfirmed>>

Holder == ProcessOrphans \/ NextBatch \/ Send \/ Unlock
Listener == Listen \/ AddUnconfirmedTx \/ RemoveUnconfirmedTx
Submit == \E c \in Caller :
  (\E t \in Offers[c] : ValidateTx(c, t)) \/ AddErrCache(c) \/ ProcessTransaction(c)
PoolNext == Submit \/ Holder \/ ExpireOrphan \/ Listener \/ TxBroadcast
=============================================================================
