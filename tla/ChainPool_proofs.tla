-------------------------- MODULE ChainPool_proofs --------------------------
(***************************************************************************)
(* Proofs about ChainPool, for any set of transactions, any block tree,    *)
(* any number of callers and any limits.                                   *)
(***************************************************************************)
EXTENDS ChainPool, FiniteSetTheorems, TLAPS

\* TypeOK and the finiteness that its limits need.
Types == TypeOK /\ IsFiniteSet(pool) /\ IsFiniteSet(orphans)

\* Every step is one of these.
LEMMA Steps ==
  ASSUME Next
  PROVE  \/ \E c \in Caller : \/ \E t \in PoolTx : ValidateTx(c, t) /\ UNCHANGED chainVars
                              \/ AddErrCache(c) /\ UNCHANGED chainVars
                              \/ ProcessTransaction(c) /\ UNCHANGED chainVars
         \/ ProcessOrphans /\ UNCHANGED chainVars
         \/ NextBatch /\ UNCHANGED chainVars
         \/ Send /\ UNCHANGED chainVars
         \/ Unlock /\ UNCHANGED chainVars
         \/ ExpireOrphan /\ UNCHANGED chainVars
         \/ Listen /\ UNCHANGED chainVars
         \/ AddUnconfirmedTx /\ UNCHANGED chainVars
         \/ RemoveUnconfirmedTx /\ UNCHANGED chainVars
         \/ TxBroadcast /\ UNCHANGED chainVars
         \/ \E b \in Block : Connect(b) \/ Reorganize(b)
         \/ Evict
         \/ \E t \in PoolTx : BlkGenSkipTx(t)
<1>1. \A c \in Caller : Offers[c] \subseteq PoolTx
  BY PoolAssumption
<1> QED  BY <1>1, Zenon DEF Next, PoolStep, PoolNext, Submit, Holder, Listener

\* The constants' types.
LEMMA TxTypes ==
  ASSUME NEW t \in PoolTx
  PROVE  t.spends \subseteq Output /\ t.outs \subseteq Output /\ Outs(t) \subseteq t.outs
BY PoolAssumption DEF Tx, Outs

LEMMA MsgNotEmpty ==
  ASSUME NEW m \in Msg
  PROVE  m # <<>>
<1>1. "tx" \in DOMAIN m
  BY DEF Msg
<1>2. QED
  BY <1>1

\* Adding one transaction keeps a set finite and within a limit it had not reached.
LEMMA Grow ==
  ASSUME NEW S, IsFiniteSet(S), NEW t, NEW n \in Nat, ~(Cardinality(S) >= n)
  PROVE  IsFiniteSet(S \cup {t}) /\ Cardinality(S \cup {t}) <= n
<1>1. Cardinality(S) \in Nat
  BY FS_CardinalityType
<1>2. /\ IsFiniteSet(S \cup {t})
      /\ Cardinality(S \cup {t}) = IF t \in S THEN Cardinality(S) ELSE Cardinality(S) + 1
  BY FS_AddElement
<1>3. QED
  BY <1>1, <1>2

\* A part of a set is finite and within the set's limit.
LEMMA Shrink ==
  ASSUME NEW S, IsFiniteSet(S), NEW T, T \subseteq S, NEW n \in Nat, Cardinality(S) <= n
  PROVE  IsFiniteSet(T) /\ Cardinality(T) <= n
<1>1. IsFiniteSet(T) /\ Cardinality(T) <= Cardinality(S)
  BY FS_Subset
<1>2. Cardinality(S) \in Nat /\ Cardinality(T) \in Nat
  BY <1>1, FS_CardinalityType
<1>3. QED
  BY <1>1, <1>2
-----------------------------------------------------------------------------
(***************************************************************************)
(* Types and limits.                                                       *)
(***************************************************************************)
\* Admitting a transaction, the last step of both ways into the pool.
LEMMA AddTypes ==
  ASSUME Types, NEW t \in PoolTx, ~Full, AddTransaction(t)
  PROVE  /\ pool' \subseteq PoolTx /\ IsFiniteSet(pool') /\ Cardinality(pool') <= MaxNewTxNum
         /\ utxo' \subseteq Output
         /\ toSend' \in Msg
<1>1. IsFiniteSet(pool') /\ Cardinality(pool') <= MaxNewTxNum
  BY Grow, PoolAssumption DEF Types, Full, AddTransaction
<1>2. QED
  BY <1>1, TxTypes DEF Types, TypeOK, PoolTypeOK, AddTransaction, NewTx, Msg

LEMMA RemoveTypes ==
  ASSUME Types, NEW t, NEW actor \in {"chain", "miner"}, RemoveTransaction(actor, t)
  PROVE  PoolTypeOK' /\ IsFiniteSet(pool') /\ IsFiniteSet(orphans')
<1>1. CASE t \in pool
  <2>1. IsFiniteSet(pool') /\ Cardinality(pool') <= MaxNewTxNum /\ pool' \subseteq PoolTx
    <3>1. pool' \subseteq pool
      BY <1>1 DEF RemoveTransaction
    <3>2. QED
      BY <3>1, Shrink, PoolAssumption DEF Types, TypeOK, PoolTypeOK
  <2>2. toSend' \in Msg /\ mtx' = actor /\ mtx' # Free
    BY <1>1, PoolAssumption DEF RemoveTransaction, Types, TypeOK, PoolTypeOK, RemoveTx, Msg
  <2>3. QED
    BY <1>1, <2>1, <2>2
    DEF RemoveTransaction, Types, TypeOK, PoolTypeOK, orphanVars, listenVars
<1>2. CASE t \notin pool
  BY <1>2 DEF RemoveTransaction, Types, TypeOK, PoolTypeOK, orphanVars, listenVars
<1>3. QED
  BY <1>1, <1>2

LEMMA TypesInit == Init => Types
<1>1. IsFiniteSet({}) /\ Cardinality({}) = 0
  BY FS_EmptySet
<1>2. Init => missed \in BOOLEAN
  BY Zenon DEF Init
<1>3. Init => PoolTypeOK
  BY <1>1, PoolAssumption DEF Init, PoolInit, PoolTypeOK
<1>4. Init => best \in Block /\ evict \in Seq(Tx) /\ IsFiniteSet(pool) /\ IsFiniteSet(orphans)
  BY <1>1, BlockAssumption DEF Init, PoolInit
<1>5. QED
  BY <1>2, <1>3, <1>4, Zenon DEF Types, TypeOK

LEMMA ProcessTypes ==
  ASSUME Types, NEW c \in Caller, ProcessTransaction(c)
  PROVE  PoolTypeOK' /\ IsFiniteSet(pool') /\ IsFiniteSet(orphans')
<1> DEFINE t == callTx[c]
<1>1. t \in PoolTx /\ mtx = Free /\ rely = <<>> /\ toSend = <<>>
  BY DEF ProcessTransaction, Types, TypeOK, PoolTypeOK
<1>2. t.spends \subseteq Output /\ t.outs \subseteq Output
  BY <1>1, TxTypes
<1>3. CASE CheckOrphanUtxos(t) # {}
  <2>1. /\ AddOrphan(t)
        /\ callTx' = [callTx EXCEPT ![c] = NoTx]
        /\ UNCHANGED <<pool, utxo, lockVars, msgCh, listenVars>>
    BY <1>3 DEF ProcessTransaction
  <2>2. /\ orphans' \subseteq PoolTx /\ IsFiniteSet(orphans')
        /\ Cardinality(orphans') <= MaxOrphanNum
        /\ orphansByPrev' \in [Output -> SUBSET PoolTx]
    <3>1. CASE Cardinality(orphans) >= MaxOrphanNum
      BY <2>1, <3>1 DEF AddOrphan, orphanVars, Types, TypeOK, PoolTypeOK
    <3>2. CASE ~(Cardinality(orphans) >= MaxOrphanNum)
      <4>1. orphans' = orphans \cup {t}
        BY <2>1, <3>2 DEF AddOrphan
      <4>2. MaxOrphanNum \in Nat /\ IsFiniteSet(orphans)
        BY PoolAssumption DEF Types
      <4>3. IsFiniteSet(orphans \cup {t}) /\ Cardinality(orphans \cup {t}) <= MaxOrphanNum
        BY <3>2, <4>2, Grow
      <4>4. QED
        BY <1>1, <1>2, <2>1, <3>2, <4>1, <4>3 DEF AddOrphan, Types, TypeOK, PoolTypeOK
    <3>3. QED
      BY <3>1, <3>2
  <2>3. QED
    BY <2>1, <2>2 DEF Types, TypeOK, PoolTypeOK, lockVars, listenVars
<1>4. CASE CheckOrphanUtxos(t) = {} /\ Full
  BY <1>4 DEF ProcessTransaction, Types, TypeOK, PoolTypeOK, orphanVars, lockVars, listenVars
<1>5. CASE CheckOrphanUtxos(t) = {} /\ ~Full
  <2>1. /\ mtx' = c
        /\ AddTransaction(t)
        /\ rely' = <<Rely(t)>>
        /\ orphansByPrev' = Forget(orphansByPrev, t)
        /\ UNCHANGED <<orphans, callTx, msgCh, listenVars>>
    BY <1>5 DEF ProcessTransaction
  <2>2. Rely(t) \subseteq Output \X PoolTx
    BY <1>2 DEF Rely
  <2>3. rely' \in Seq(SUBSET (Output \X PoolTx))
    BY <2>1, <2>2
  <2>4. orphansByPrev' \in [Output -> SUBSET PoolTx]
    BY <2>1 DEF Forget, Types, TypeOK, PoolTypeOK
  <2>5. /\ pool' \subseteq PoolTx /\ IsFiniteSet(pool') /\ Cardinality(pool') <= MaxNewTxNum
        /\ utxo' \subseteq Output
        /\ toSend' \in Msg
    BY <1>1, <1>5, <2>1, AddTypes
  <2>6. QED
    BY <2>1, <2>3, <2>4, <2>5, PoolAssumption DEF Types, TypeOK, PoolTypeOK, listenVars
<1>6. QED
  BY <1>3, <1>4, <1>5

LEMMA OrphansTypes ==
  ASSUME Types, ProcessOrphans
  PROVE  PoolTypeOK' /\ IsFiniteSet(pool') /\ IsFiniteSet(orphans')
<1> DEFINE Batch == SUBSET (Output \X PoolTx)
<1>1. /\ mtx # Free /\ toSend = <<>> /\ rely # <<>> /\ rely \in Seq(Batch)
      /\ UNCHANGED <<mtx, callTx, msgCh, listenVars>>
  BY DEF ProcessOrphans, Types, TypeOK, PoolTypeOK
<1>2. PICK p \in Head(rely) :
        LET t == p[2]
            rest == <<Head(rely) \ {p}>> \o Tail(rely)
        IN \/ /\ CheckOrphanUtxos(t) # {}
              /\ rely' = rest
              /\ UNCHANGED <<pool, utxo, orphanVars, toSend>>
           \/ /\ CheckOrphanUtxos(t) = {}
              /\ rely' = Append(rest, Rely(t))
              /\ RemoveOrphan(Forget(orphansByPrev, t), t)
              /\ IF Full THEN UNCHANGED <<pool, utxo, toSend>> ELSE AddTransaction(t)
  BY DEF ProcessOrphans
<1> DEFINE t == p[2]
           rest == <<Head(rely) \ {p}>> \o Tail(rely)
<1>3. Head(rely) \in Batch /\ Tail(rely) \in Seq(Batch)
  BY <1>1
<1>4. t \in PoolTx
  BY <1>3
<1>5. t.outs \subseteq Output
  BY <1>4, TxTypes
<1>6. rest \in Seq(Batch)
  <2>1. <<Head(rely) \ {p}>> \in Seq(Batch)
    BY <1>3
  <2>2. QED
    BY <1>3, <2>1
<1>7. CASE CheckOrphanUtxos(t) # {}
  <2>1. rely' = rest /\ UNCHANGED <<pool, utxo, orphanVars, toSend>>
    BY <1>2, <1>7
  <2>2. QED
    BY <1>1, <1>6, <2>1 DEF Types, TypeOK, PoolTypeOK, orphanVars, listenVars
<1>8. CASE CheckOrphanUtxos(t) = {}
  <2>1. /\ rely' = Append(rest, Rely(t))
        /\ RemoveOrphan(Forget(orphansByPrev, t), t)
        /\ IF Full THEN UNCHANGED <<pool, utxo, toSend>> ELSE AddTransaction(t)
    BY <1>2, <1>8
  <2>2. rely' \in Seq(Batch)
    <3>1. Rely(t) \in Batch
      BY <1>5 DEF Rely
    <3>2. QED
      BY <1>6, <2>1, <3>1
  <2>3. /\ orphans' \subseteq PoolTx /\ IsFiniteSet(orphans')
        /\ Cardinality(orphans') <= MaxOrphanNum
    <3>1. orphans' \subseteq orphans
      BY <2>1 DEF RemoveOrphan
    <3>2. QED
      BY <3>1, Shrink, PoolAssumption DEF Types, TypeOK, PoolTypeOK
  <2>4. orphansByPrev' \in [Output -> SUBSET PoolTx]
    BY <2>1 DEF RemoveOrphan, Forget, Types, TypeOK, PoolTypeOK
  <2>5. /\ pool' \subseteq PoolTx /\ IsFiniteSet(pool') /\ Cardinality(pool') <= MaxNewTxNum
        /\ utxo' \subseteq Output
        /\ toSend' \in Msg \cup {<<>>}
    <3>1. CASE Full
      BY <2>1, <3>1 DEF Types, TypeOK, PoolTypeOK
    <3>2. CASE ~Full
      BY <1>4, <2>1, <3>2, AddTypes
    <3>3. QED
      BY <3>1, <3>2
  <2>6. QED
    BY <1>1, <2>2, <2>3, <2>4, <2>5 DEF Types, TypeOK, PoolTypeOK, listenVars
<1>9. QED
  BY <1>7, <1>8

\* Every step keeps the types and the limits.
LEMMA TypesStep == Types /\ [Next]_vars => Types'
<1> SUFFICES ASSUME Types, [Next]_vars PROVE Types'
  OBVIOUS
<1> USE DEF Types, TypeOK, PoolTypeOK, orphanVars, lockVars, listenVars, chainVars
<1>1. CASE UNCHANGED vars
  BY <1>1 DEF vars, poolVars
<1>2. ASSUME NEW c \in Caller, NEW t \in PoolTx, ValidateTx(c, t), UNCHANGED chainVars
      PROVE  Types'
  BY <1>2 DEF ValidateTx
<1>3. ASSUME NEW c \in Caller, AddErrCache(c), UNCHANGED chainVars PROVE Types'
  BY <1>3 DEF AddErrCache
<1>4. ASSUME NEW c \in Caller, ProcessTransaction(c), UNCHANGED chainVars PROVE Types'
  <2>1. PoolTypeOK' /\ IsFiniteSet(pool') /\ IsFiniteSet(orphans')
    BY <1>4, ProcessTypes
  <2>2. QED
    BY <1>4, <2>1
<1>5. CASE ProcessOrphans /\ UNCHANGED chainVars
  <2>1. PoolTypeOK' /\ IsFiniteSet(pool') /\ IsFiniteSet(orphans')
    BY <1>5, OrphansTypes
  <2>2. QED
    BY <1>5, <2>1
<1>6. CASE NextBatch /\ UNCHANGED chainVars
  BY <1>6 DEF NextBatch
<1>7. CASE Send /\ UNCHANGED chainVars
  BY <1>7, PoolAssumption DEF Send
<1>8. CASE Unlock /\ UNCHANGED chainVars
  BY <1>8 DEF Unlock
<1>9. CASE ExpireOrphan /\ UNCHANGED chainVars
  <2>1. orphans' \subseteq orphans /\ orphansByPrev' \in [Output -> SUBSET PoolTx]
    BY <1>9 DEF ExpireOrphan
  <2>2. IsFiniteSet(orphans') /\ Cardinality(orphans') <= MaxOrphanNum
    BY <2>1, Shrink, PoolAssumption
  <2>3. QED
    BY <1>9, <2>1, <2>2 DEF ExpireOrphan
<1>10. CASE Listen /\ UNCHANGED chainVars
  BY <1>10, PoolAssumption DEF Listen
<1>11. CASE AddUnconfirmedTx /\ UNCHANGED chainVars
  BY <1>11, PoolAssumption DEF AddUnconfirmedTx, Msg
<1>12. CASE RemoveUnconfirmedTx /\ UNCHANGED chainVars
  BY <1>12 DEF RemoveUnconfirmedTx
<1>13. CASE TxBroadcast /\ UNCHANGED chainVars
  BY <1>13, PoolAssumption DEF TxBroadcast
<1>14. ASSUME NEW b \in Block, Connect(b) \/ Reorganize(b) PROVE Types'
  BY <1>14, TxAssumption DEF Connect, Reorganize, BC!Adopt, poolVars
<1>15. CASE Evict
  <2>1. PoolTypeOK' /\ IsFiniteSet(pool') /\ IsFiniteSet(orphans')
    BY <1>15, RemoveTypes DEF Evict
  <2>2. QED
    BY <1>15, <2>1 DEF Evict
<1>16. ASSUME NEW t \in PoolTx, BlkGenSkipTx(t) PROVE Types'
  <2>1. PoolTypeOK' /\ IsFiniteSet(pool') /\ IsFiniteSet(orphans')
    BY <1>16, RemoveTypes DEF BlkGenSkipTx
  <2>2. QED
    BY <1>16, <2>1 DEF BlkGenSkipTx
<1>17. QED
  BY <1>1, <1>2, <1>3, <1>4, <1>5, <1>6, <1>7, <1>8, <1>9, <1>10, <1>11, <1>12, <1>13, <1>14,
     <1>15, <1>16, Steps, Zenon

\* The pool and the orphans stay within maxNewTxNum and maxOrphanNum, the channels
\* within their sizes, and mtx is free only when nothing is left to do under it.
THEOREM PoolTypeCorrect == Spec => []TypeOK
<1>1. Types => TypeOK
  BY DEF Types
<1>2. QED
  BY <1>1, TypesInit, TypesStep, PTL DEF Spec
-----------------------------------------------------------------------------
(***************************************************************************)
(* The pool, its outputs and the messages about them.                      *)
(***************************************************************************)
\* What a step does to the pool: nothing, or one transaction enters, or one leaves,
\* and then nothing waited to be sent.
Enters(t) == AddTransaction(t) /\ toSend = <<>> /\ UNCHANGED <<msgCh, listenVars>>
Leaves(t) ==
  /\ pool' = pool \ {t} /\ utxo' = utxo \ t.outs
  /\ toSend = <<>> /\ toSend' = RemoveTx(t) /\ UNCHANGED <<msgCh, listenVars>>
Relays == Send \/ Listen \/ AddUnconfirmedTx \/ RemoveUnconfirmedTx

LEMMA RemoveSteps ==
  ASSUME Types, NEW actor, NEW t, RemoveTransaction(actor, t)
  PROVE  \/ UNCHANGED <<pool, utxo, toSend, msgCh, listening, unconfirmed>>
         \/ t \in PoolTx /\ Leaves(t)
<1>1. CASE t \in pool
  BY <1>1 DEF RemoveTransaction, Leaves, Types, TypeOK, PoolTypeOK
<1>2. CASE t \notin pool
  BY <1>2 DEF RemoveTransaction, listenVars
<1>3. QED
  BY <1>1, <1>2

LEMMA PoolSteps ==
  ASSUME Types, [Next]_vars
  PROVE  \/ UNCHANGED <<pool, utxo, toSend, msgCh, listening, unconfirmed>>
         \/ \E t \in PoolTx : Enters(t)
         \/ \E t \in PoolTx : Leaves(t)
         \/ Relays
<1> DEFINE Goal == \/ UNCHANGED <<pool, utxo, toSend, msgCh, listening, unconfirmed>>
                   \/ \E t \in PoolTx : Enters(t)
                   \/ \E t \in PoolTx : Leaves(t)
                   \/ Relays
<1> SUFFICES Goal
  OBVIOUS
<1>1. CASE UNCHANGED vars
  BY <1>1 DEF vars, poolVars, lockVars, listenVars
<1>2. ASSUME NEW c \in Caller, NEW t \in PoolTx, ValidateTx(c, t) PROVE Goal
  BY <1>2 DEF ValidateTx, lockVars, listenVars
<1>3. ASSUME NEW c \in Caller, AddErrCache(c) PROVE Goal
  BY <1>3 DEF AddErrCache, lockVars, listenVars
<1>4. ASSUME NEW c \in Caller, ProcessTransaction(c) PROVE Goal
  <2>1. callTx[c] \in PoolTx /\ toSend = <<>>
    BY <1>4 DEF ProcessTransaction, Types, TypeOK, PoolTypeOK
  <2>2. CASE CheckOrphanUtxos(callTx[c]) = {} /\ ~Full
    <3>1. Enters(callTx[c])
      BY <1>4, <2>1, <2>2 DEF ProcessTransaction, Enters
    <3>2. QED
      BY <2>1, <3>1
  <2>3. CASE ~(CheckOrphanUtxos(callTx[c]) = {} /\ ~Full)
    BY <1>4, <2>3 DEF ProcessTransaction, lockVars, listenVars
  <2>4. QED
    BY <2>2, <2>3
<1>5. CASE ProcessOrphans
  <2>1. toSend = <<>> /\ rely \in Seq(SUBSET (Output \X PoolTx)) /\ rely # <<>>
    BY <1>5 DEF ProcessOrphans, Types, TypeOK, PoolTypeOK
  <2>2. \A p \in Head(rely) : p[2] \in PoolTx
    BY <2>1
  <2>3. QED
    BY <1>5, <2>1, <2>2 DEF ProcessOrphans, Enters, listenVars
<1>6. CASE NextBatch \/ Unlock \/ ExpireOrphan \/ TxBroadcast
  BY <1>6 DEF NextBatch, Unlock, ExpireOrphan, TxBroadcast, lockVars, listenVars
<1>7. ASSUME NEW b \in Block, Connect(b) \/ Reorganize(b) PROVE Goal
  BY <1>7 DEF Connect, Reorganize, poolVars, lockVars, listenVars
<1>8. CASE Evict
  <2>1. RemoveTransaction("chain", Head(evict))
    BY <1>8 DEF Evict
  <2>2. QED
    BY <2>1, RemoveSteps
<1>9. ASSUME NEW t \in PoolTx, BlkGenSkipTx(t) PROVE Goal
  <2>1. RemoveTransaction("miner", t)
    BY <1>9 DEF BlkGenSkipTx
  <2>2. QED
    BY <2>1, RemoveSteps
<1>10. CASE Relays
  BY <1>10
<1>11. QED
  BY <1>1, <1>2, <1>3, <1>4, <1>5, <1>6, <1>7, <1>8, <1>9, <1>10, Steps, Zenon DEF Relays

LEMMA UtxoStep == Types /\ PoolUtxoExact /\ [Next]_vars => PoolUtxoExact'
<1> SUFFICES ASSUME Types, PoolUtxoExact, [Next]_vars PROVE PoolUtxoExact'
  OBVIOUS
<1>1. CASE UNCHANGED <<pool, utxo>>
  BY <1>1 DEF PoolUtxoExact
<1>2. ASSUME NEW t \in PoolTx, Enters(t) PROVE PoolUtxoExact'
  BY <1>2 DEF Enters, AddTransaction, PoolUtxoExact
<1>3. ASSUME NEW t \in PoolTx, Leaves(t) PROVE PoolUtxoExact'
  <2>1. \A u \in pool \ {t} : Outs(u) \cap t.outs = {}
    BY PoolAssumption, TxTypes DEF Types, TypeOK, PoolTypeOK
  <2>2. Outs(t) \subseteq t.outs
    BY TxTypes
  <2>3. QED
    BY <1>3, <2>1, <2>2 DEF Leaves, PoolUtxoExact
<1>4. CASE Relays
  BY <1>4 DEF Relays, Send, Listen, AddUnconfirmedTx, RemoveUnconfirmedTx, PoolUtxoExact
<1>5. QED
  BY <1>1, <1>2, <1>3, <1>4, PoolSteps, Zenon

\* TxPool.utxo is the outputs of the pool's transactions, for any traffic.
THEOREM PoolUtxoCorrect == Spec => []PoolUtxoExact
<1>1. Init => PoolUtxoExact
  BY DEF Init, PoolInit, PoolUtxoExact
<1>2. QED
  BY <1>1, TypesInit, TypesStep, UtxoStep, PTL DEF Spec
-----------------------------------------------------------------------------
(***************************************************************************)
(* The orphans.                                                            *)
(***************************************************************************)
\* The steps that touch the orphans or their index.
LEMMA OrphanSteps ==
  ASSUME [Next]_vars
  PROVE  \/ UNCHANGED orphanVars
         \/ \E c \in Caller : ProcessTransaction(c)
         \/ ProcessOrphans
         \/ ExpireOrphan
<1> DEFINE Goal == \/ UNCHANGED orphanVars
                   \/ \E c \in Caller : ProcessTransaction(c)
                   \/ ProcessOrphans
                   \/ ExpireOrphan
<1> SUFFICES Goal
  OBVIOUS
<1>1. CASE UNCHANGED vars
  BY <1>1 DEF vars, poolVars
<1>2. ASSUME NEW c \in Caller, NEW t \in PoolTx, ValidateTx(c, t) PROVE Goal
  BY <1>2 DEF ValidateTx
<1>3. ASSUME NEW c \in Caller, AddErrCache(c) PROVE Goal
  BY <1>3 DEF AddErrCache
<1>4. CASE NextBatch \/ Send \/ Unlock \/ Listen \/ AddUnconfirmedTx \/ RemoveUnconfirmedTx \/ TxBroadcast
  BY <1>4 DEF NextBatch, Send, Unlock, Listen, AddUnconfirmedTx, RemoveUnconfirmedTx, TxBroadcast
<1>5. ASSUME NEW b \in Block, Connect(b) \/ Reorganize(b) PROVE Goal
  BY <1>5 DEF Connect, Reorganize, poolVars
<1>6. CASE Evict
  BY <1>6 DEF Evict, RemoveTransaction
<1>7. ASSUME NEW t \in PoolTx, BlkGenSkipTx(t) PROVE Goal
  BY <1>7 DEF BlkGenSkipTx, RemoveTransaction
<1>8. QED
  BY <1>1, <1>2, <1>3, <1>4, <1>5, <1>6, <1>7, Steps, Zenon

LEMMA IndexStep == Types /\ OrphanIndexSound /\ [Next]_vars => OrphanIndexSound'
<1> SUFFICES ASSUME Types, OrphanIndexSound, [Next]_vars PROVE OrphanIndexSound'
  OBVIOUS
<1>1. CASE UNCHANGED orphanVars
  BY <1>1 DEF orphanVars, OrphanIndexSound
<1>2. ASSUME NEW c \in Caller, ProcessTransaction(c) PROVE OrphanIndexSound'
  <2>1. \/ UNCHANGED orphanVars
        \/ AddOrphan(callTx[c])
        \/ UNCHANGED orphans /\ orphansByPrev' = Forget(orphansByPrev, callTx[c])
    BY <1>2 DEF ProcessTransaction
  <2>2. QED
    BY <2>1 DEF AddOrphan, Forget, orphanVars, OrphanIndexSound, Types, TypeOK, PoolTypeOK
<1>3. CASE ProcessOrphans
  <2>1. \/ UNCHANGED orphanVars
        \/ \E t : RemoveOrphan(Forget(orphansByPrev, t), t)
    BY <1>3 DEF ProcessOrphans
  <2>2. ASSUME NEW t, RemoveOrphan(Forget(orphansByPrev, t), t) PROVE OrphanIndexSound'
    BY <2>2 DEF RemoveOrphan, Forget, OrphanIndexSound
  <2>3. QED
    BY <1>1, <2>1, <2>2
<1>4. CASE ExpireOrphan
  BY <1>4 DEF ExpireOrphan, OrphanIndexSound
<1>5. QED
  BY <1>1, <1>2, <1>3, <1>4, OrphanSteps

\* No entry of orphansByPrev dangles, however orphans come, are promoted and expire.
THEOREM OrphanIndexCorrect == Spec => []OrphanIndexSound
<1>1. Init => OrphanIndexSound
  BY DEF Init, PoolInit, OrphanIndexSound
<1>2. QED
  BY <1>1, TypesInit, TypesStep, IndexStep, PTL DEF Spec

LEMMA FateStep ==
  [Next]_vars => [\A t \in orphans \ orphans' : t \in pool' \/ ExpireOrphan \/ Full]_vars
<1> SUFFICES ASSUME [Next]_vars, NEW t \in orphans \ orphans', ~Full
             PROVE  t \in pool' \/ ExpireOrphan
  OBVIOUS
<1>1. CASE UNCHANGED orphanVars
  BY <1>1 DEF orphanVars
<1>2. ASSUME NEW c \in Caller, ProcessTransaction(c) PROVE t \in pool'
  BY <1>2 DEF ProcessTransaction, AddOrphan, orphanVars
<1>3. CASE ProcessOrphans
  BY <1>3 DEF ProcessOrphans, RemoveOrphan, AddTransaction, orphanVars
<1>4. QED
  BY <1>1, <1>2, <1>3, OrphanSteps

\* A transaction leaves the orphans by expiring or for the pool, unless the pool is full.
THEOREM OrphanFateCorrect == Spec => OrphanFate
BY FateStep, PTL DEF Spec, OrphanFate
-----------------------------------------------------------------------------
(***************************************************************************)
(* The messages and the wallet.                                            *)
(***************************************************************************)
LEMMA AppendMsg ==
  ASSUME NEW S, NEW t, NEW ms \in Seq(Msg), NEW m \in Msg
  PROVE  InWalletAfter(S, t, Append(ms, m)) <=>
           IF m.tx = t THEN m.type = "MsgNewTx" ELSE InWalletAfter(S, t, ms)
<1> DEFINE ns == Append(ms, m)
           About(q) == {i \in DOMAIN q : q[i].tx = t}
<1>1. /\ Len(ms) \in Nat /\ DOMAIN ms = 1..Len(ms) /\ DOMAIN ns = 1..(Len(ms) + 1)
      /\ ns[Len(ms) + 1] = m
      /\ \A i \in 1..Len(ms) : ns[i] = ms[i]
  OBVIOUS
<1>2. CASE m.tx = t
  <2>1. Len(ms) + 1 \in About(ns) /\ \A j \in About(ns) : j <= Len(ms) + 1
    BY <1>1, <1>2
  <2>2. \A i \in About(ns) : (\A j \in About(ns) : j <= i) => i = Len(ms) + 1
    BY <1>1, <2>1
  <2>3. InWalletAfter(S, t, ns) <=> ns[Len(ms) + 1].type = "MsgNewTx"
    BY <2>1, <2>2 DEF InWalletAfter
  <2>4. QED
    BY <1>1, <1>2, <2>3
<1>3. CASE m.tx # t
  <2>1. About(ns) = About(ms) /\ \A i \in About(ms) : ns[i] = ms[i]
    BY <1>1, <1>3
  <2>2. QED
    BY <1>3, <2>1 DEF InWalletAfter
<1>4. QED
  BY <1>2, <1>3

LEMMA TailMsg ==
  ASSUME NEW S, NEW t, NEW ms \in Seq(Msg), ms # <<>>,
         NEW R, R = IF Head(ms).type = "MsgNewTx" THEN S \cup {Head(ms).tx} ELSE S \ {Head(ms).tx}
  PROVE  InWalletAfter(R, t, Tail(ms)) <=> InWalletAfter(S, t, ms)
<1> DEFINE ns == Tail(ms)
           About(q) == {i \in DOMAIN q : q[i].tx = t}
           Last(q, i) == i \in About(q) /\ \A j \in About(q) : j <= i
<1>1. /\ Len(ms) \in Nat \ {0} /\ DOMAIN ms = 1..Len(ms) /\ DOMAIN ns = 1..(Len(ms) - 1)
      /\ Head(ms) = ms[1]
      /\ \A i \in 1..(Len(ms) - 1) : ns[i] = ms[i + 1]
  OBVIOUS
<1> SUFFICES InWalletAfter(R, t, ns) <=> InWalletAfter(S, t, ms)
  OBVIOUS
<1> HIDE DEF ns
<1>2. \A i \in DOMAIN ns : i + 1 \in DOMAIN ms /\ (i \in About(ns) <=> i + 1 \in About(ms))
  BY <1>1
<1>3. \A j \in About(ms) : j = 1 \/ j - 1 \in About(ns)
  BY <1>1
<1>4. CASE About(ns) = {}
  <2>1. About(ms) = {} \/ About(ms) = {1}
    BY <1>1, <1>3, <1>4
  <2>2. InWalletAfter(R, t, ns) <=> t \in R
    BY <1>4 DEF InWalletAfter
  <2>3. CASE About(ms) = {}
    <3>1. Head(ms).tx # t
      BY <1>1, <2>3
    <3>2. QED
      BY <2>2, <2>3, <3>1 DEF InWalletAfter
  <2>4. CASE About(ms) = {1}
    <3>1. Head(ms).tx = t
      BY <1>1, <2>4
    <3>2. InWalletAfter(S, t, ms) <=> ms[1].type = "MsgNewTx"
      BY <2>4 DEF InWalletAfter
    <3>3. QED
      BY <1>1, <2>2, <3>1, <3>2
  <2>5. QED
    BY <2>1, <2>3, <2>4
<1>5. CASE About(ns) # {}
  <2>1. ASSUME NEW i \in DOMAIN ns PROVE Last(ns, i) <=> Last(ms, i + 1)
    <3>1. i \in Nat /\ About(ns) \subseteq DOMAIN ns /\ DOMAIN ns \subseteq Nat /\ DOMAIN ms \subseteq Nat
      BY <1>1
    <3>2. ASSUME Last(ns, i), NEW j \in About(ms) PROVE j <= i + 1
      <4>1. CASE j = 1
        BY <3>1, <4>1
      <4>2. CASE j - 1 \in About(ns)
        <5>1. j - 1 <= i /\ j \in Nat
          BY <3>1, <3>2, <4>2
        <5>2. QED
          BY <3>1, <5>1
      <4>3. QED
        BY <1>3, <4>1, <4>2
    <3>3. ASSUME Last(ms, i + 1), NEW j \in About(ns) PROVE j <= i
      <4>1. j \in DOMAIN ns /\ j + 1 \in About(ms)
        BY <1>2, <3>1
      <4>2. j + 1 <= i + 1
        BY <3>3, <4>1
      <4>3. QED
        BY <3>1, <4>1, <4>2
    <3>4. QED
      BY <1>2, <3>2, <3>3
  <2>2. ~Last(ms, 1)
    BY <1>1, <1>2, <1>5
  <2>3. About(ms) # {}
    BY <1>2, <1>5
  <2>4. InWalletAfter(R, t, ns) <=> \E i \in DOMAIN ns : Last(ns, i) /\ ns[i].type = "MsgNewTx"
    BY <1>5 DEF InWalletAfter
  <2>5. InWalletAfter(S, t, ms) <=> \E i \in DOMAIN ms : Last(ms, i) /\ ms[i].type = "MsgNewTx"
    BY <2>3 DEF InWalletAfter
  <2>6. ASSUME NEW i \in DOMAIN ns, Last(ns, i), ns[i].type = "MsgNewTx"
        PROVE  \E k \in DOMAIN ms : Last(ms, k) /\ ms[k].type = "MsgNewTx"
    BY <1>1, <1>2, <2>1, <2>6
  <2>7. ASSUME NEW k \in DOMAIN ms, Last(ms, k), ms[k].type = "MsgNewTx"
        PROVE  \E i \in DOMAIN ns : Last(ns, i) /\ ns[i].type = "MsgNewTx"
    <3>1. k # 1 /\ k - 1 \in About(ns)
      BY <1>3, <2>2, <2>7
    <3>2. k - 1 \in DOMAIN ns /\ (k - 1) + 1 = k
      BY <1>1, <3>1
    <3>3. Last(ns, k - 1) /\ ns[k - 1] = ms[k]
      BY <1>1, <2>1, <2>7, <3>2
    <3>4. QED
      BY <2>7, <3>2, <3>3
  <2>8. QED
    BY <2>4, <2>5, <2>6, <2>7
<1>6. QED
  BY <1>4, <1>5

\* The messages on their way, by what is in hand and what waits to be sent.
LEMMA PendingShape ==
  ASSUME Types
  PROVE  /\ Pending \in Seq(Msg)
         /\ toSend = <<>> => \A m \in Msg :
              (IF listening = <<>> THEN <<>> ELSE <<listening>>) \o msgCh \o <<m>> = Append(Pending, m)
<1>1. msgCh \in Seq(Msg) /\ toSend \in Msg \cup {<<>>} /\ listening \in Msg \cup {<<>>}
  BY DEF Types, TypeOK, PoolTypeOK
<1> DEFINE hand == IF listening = <<>> THEN <<>> ELSE <<listening>>
           last == IF toSend = <<>> THEN <<>> ELSE <<toSend>>
<1>2. hand \in Seq(Msg) /\ last \in Seq(Msg)
  BY <1>1
<1>3. Pending = hand \o msgCh \o last
  BY DEF Pending
<1> HIDE DEF hand
<1>4. Pending \in Seq(Msg)
  BY <1>1, <1>2, <1>3
<1>5. toSend = <<>> => \A m \in Msg : hand \o msgCh \o <<m>> = Append(Pending, m)
  BY <1>1, <1>2, <1>3
<1>6. QED
  BY <1>4, <1>5 DEF hand

LEMMA WalletStep == Types /\ WalletCatchesUp /\ [Next]_vars => WalletCatchesUp'
<1> SUFFICES ASSUME Types, WalletCatchesUp, [Next]_vars PROVE WalletCatchesUp'
  OBVIOUS
<1>1. /\ Pending \in Seq(Msg)
      /\ msgCh \in Seq(Msg) /\ toSend \in Msg \cup {<<>>} /\ listening \in Msg \cup {<<>>}
  BY PendingShape DEF Types, TypeOK, PoolTypeOK
<1>2. CASE UNCHANGED <<pool, utxo, toSend, msgCh, listening, unconfirmed>>
  <2>1. Pending' = Pending
    BY <1>2 DEF Pending
  <2>2. QED
    BY <1>2, <2>1 DEF WalletCatchesUp
<1>3. ASSUME NEW t \in PoolTx, Enters(t) PROVE WalletCatchesUp'
  <2>1. NewTx(t) \in Msg /\ NewTx(t) # <<>> /\ NewTx(t).tx = t /\ NewTx(t).type = "MsgNewTx"
    BY MsgNotEmpty DEF NewTx, Msg
  <2>2. Pending' = Append(Pending, NewTx(t)) /\ UNCHANGED unconfirmed /\ pool' = pool \cup {t}
    BY <1>3, <2>1, PendingShape DEF Enters, AddTransaction, Pending, listenVars
  <2>3. \A u \in PoolTx : InWalletAfter(unconfirmed, u, Append(Pending, NewTx(t))) <=>
                            (u = t \/ InWalletAfter(unconfirmed, u, Pending))
    BY <1>1, <2>1, AppendMsg
  <2>4. QED
    BY <2>2, <2>3 DEF WalletCatchesUp
<1>4. ASSUME NEW t \in PoolTx, Leaves(t) PROVE WalletCatchesUp'
  <2>1. RemoveTx(t) \in Msg /\ RemoveTx(t) # <<>> /\ RemoveTx(t).tx = t /\ RemoveTx(t).type # "MsgNewTx"
    BY MsgNotEmpty DEF RemoveTx, Msg
  <2>2. Pending' = Append(Pending, RemoveTx(t)) /\ UNCHANGED unconfirmed /\ pool' = pool \ {t}
    BY <1>4, <2>1, PendingShape DEF Leaves, Pending, listenVars
  <2>3. \A u \in PoolTx : InWalletAfter(unconfirmed, u, Append(Pending, RemoveTx(t))) <=>
                            (u # t /\ InWalletAfter(unconfirmed, u, Pending))
    BY <1>1, <2>1, AppendMsg
  <2>4. QED
    BY <2>2, <2>3 DEF WalletCatchesUp
<1>5. CASE Send
  <2>1. toSend \in Msg /\ msgCh' = Append(msgCh, toSend) /\ toSend' = <<>>
    BY <1>1, <1>5 DEF Send
  <2>2. UNCHANGED <<pool, listening, unconfirmed>>
    BY <1>5 DEF Send, listenVars
  <2>3. Pending' = Pending
    BY <1>1, <1>5, <2>1, <2>2 DEF Send, Pending
  <2>4. QED
    BY <2>2, <2>3 DEF WalletCatchesUp
<1>6. CASE Listen
  <2>1. /\ listening = <<>> /\ msgCh # <<>> /\ listening' = Head(msgCh) /\ msgCh' = Tail(msgCh)
        /\ UNCHANGED <<pool, toSend, unconfirmed>>
    BY <1>6 DEF Listen, lockVars
  <2>2. Head(msgCh) \in Msg /\ Head(msgCh) # <<>> /\ msgCh = <<Head(msgCh)>> \o Tail(msgCh)
    BY <1>1, <2>1, MsgNotEmpty
  <2>3. Pending' = Pending
    BY <1>1, <2>1, <2>2 DEF Pending
  <2>4. QED
    BY <2>1, <2>3 DEF WalletCatchesUp
<1>7. CASE AddUnconfirmedTx \/ RemoveUnconfirmedTx
  <2>1. /\ listening \in Msg /\ listening # <<>> /\ listening' = <<>>
        /\ UNCHANGED <<pool, toSend, msgCh>>
        /\ unconfirmed' = IF listening.type = "MsgNewTx" THEN unconfirmed \cup {listening.tx}
                          ELSE unconfirmed \ {listening.tx}
    BY <1>1, <1>7 DEF AddUnconfirmedTx, RemoveUnconfirmedTx, lockVars
  <2>2. Pending # <<>> /\ Head(Pending) = listening /\ Pending' = Tail(Pending)
    <3> DEFINE last == IF toSend = <<>> THEN <<>> ELSE <<toSend>>
    <3>1. last \in Seq(Msg)
      BY <1>1
    <3>2. Pending = <<listening>> \o msgCh \o last /\ Pending' = <<>> \o msgCh \o last
      BY <2>1 DEF Pending
    <3> HIDE DEF last
    <3>3. QED
      BY <1>1, <2>1, <3>1, <3>2
  <2>3. \A t \in PoolTx :
          InWalletAfter(unconfirmed', t, Tail(Pending)) <=> InWalletAfter(unconfirmed, t, Pending)
    BY <1>1, <2>1, <2>2, TailMsg
  <2>4. QED
    BY <2>1, <2>2, <2>3 DEF WalletCatchesUp
<1>8. QED
  BY <1>2, <1>3, <1>4, <1>5, <1>6, <1>7, PoolSteps, Zenon DEF Relays

\* Once it has read the messages on their way the wallet knows the pool, whatever
\* the interleaving of submissions, blocks, miners and the listener.
THEOREM WalletCorrect == Spec => []WalletCatchesUp
<1>1. Init => WalletCatchesUp
  <2>1. Init => Pending = <<>> /\ unconfirmed = {} /\ pool = {}
    BY DEF Init, PoolInit, Pending
  <2>2. QED
    BY <2>1 DEF WalletCatchesUp, InWalletAfter
<1>2. QED
  BY <1>1, TypesInit, TypesStep, WalletStep, PTL DEF Spec
-----------------------------------------------------------------------------
(***************************************************************************)
(* The pool as its readers see it.                                         *)
(***************************************************************************)
\* Pool and ChainPool speak of the same blocks, outputs and sizes.
LEMMA SameOperators ==
  /\ PV!UnspentAt = UnspentAt
  /\ \A t : PV!Outs(t) = Outs(t)
  /\ \A S : PV!Cardinality(S) = Cardinality(S)
  /\ \A b \in Block : BC!Adopt(b) => PV!BC!Adopt(b)
<1>1. PV!UnspentAt = UnspentAt
  BY DEF PV!UnspentAt, PV!Unspent, PV!Created, PV!SpentUpTo, PV!UpTo, PV!OnBranch, PV!Outs, PV!Spends,
         UnspentAt, Unspent, Created, SpentUpTo, UpTo, OnBranch, Outs, Spends
<1>2. \A t : PV!Outs(t) = Outs(t)
  BY DEF PV!Outs, Outs
<1>3. \A S : PV!Cardinality(S) = Cardinality(S)
  BY DEF PV!Cardinality, Cardinality
<1>4. \A b : BC!OnBranch(b) = PV!BC!OnBranch(b)
  BY DEF BC!OnBranch, PV!BC!OnBranch
<1>5. \A b, n : BC!Unspent(b, n) = PV!BC!Unspent(b, n)
  BY DEF BC!Unspent, BC!Created, BC!SpentUpTo, BC!UpTo, BC!OnBranch, BC!Outs, BC!Spends,
         PV!BC!Unspent, PV!BC!Created, PV!BC!SpentUpTo, PV!BC!UpTo, PV!BC!OnBranch, PV!BC!Outs,
         PV!BC!Spends
<1>6. BC!UnspentAt = PV!BC!UnspentAt
  BY <1>5 DEF BC!UnspentAt, PV!BC!UnspentAt
<1>7. BC!LedgerSound = PV!BC!LedgerSound
  <2>1. BC!CoinbaseOuts = PV!BC!CoinbaseOuts
    BY DEF BC!CoinbaseOuts, PV!BC!CoinbaseOuts, BC!Outs, PV!BC!Outs
  <2>2. \A t : BC!Spends(t) = PV!BC!Spends(t)
    BY DEF BC!Spends, PV!BC!Spends
  <2>3. QED
    BY <1>4, <1>5, <2>1, <2>2 DEF BC!LedgerSound, PV!BC!LedgerSound
<1>8. \A b \in Block : BC!Adopt(b) => PV!BC!Adopt(b)
  BY <1>4, <1>6, <1>7 DEF BC!Adopt, PV!BC!Adopt
<1>9. QED
  BY <1>1, <1>2, <1>3, <1>8

\* A transaction enters the pool only while its inputs are there.
LEMMA EntersWithInputs ==
  ASSUME Types, PoolUtxoExact, NEW t, CheckOrphanUtxos(t) = {}, ~Full, AddTransaction(t),
         UNCHANGED <<best, unspent>>
  PROVE  PV!Enter(t)
<1>1. Cardinality(pool) \in Nat
  BY FS_CardinalityType DEF Types
<1>2. Cardinality(pool) < MaxNewTxNum
  BY <1>1, PoolAssumption DEF Full
<1>3. PV!Cardinality(pool) < MaxNewTxNum
  BY <1>2, SameOperators
<1>4. t.spends \subseteq unspent \cup utxo
  BY DEF CheckOrphanUtxos
<1>5. utxo = UNION {PV!Outs(u) : u \in pool}
  BY SameOperators DEF PoolUtxoExact
<1>6. QED
  BY <1>3, <1>4, <1>5 DEF PV!Enter, AddTransaction

LEMMA PromiseStep ==
  ASSUME Types, PoolUtxoExact, [Next]_vars
  PROVE  [PV!Next]_(PV!vars)
<1> DEFINE Goal == UNCHANGED PV!vars \/ PV!Next
<1> SUFFICES Goal
  OBVIOUS
<1>1. CASE UNCHANGED vars
  BY <1>1 DEF vars, poolVars, chainVars, PV!vars
<1>2. ASSUME NEW c \in Caller, NEW t \in PoolTx, ValidateTx(c, t), UNCHANGED chainVars
      PROVE  Goal
  BY <1>2 DEF ValidateTx, chainVars, PV!vars
<1>3. ASSUME NEW c \in Caller, AddErrCache(c), UNCHANGED chainVars PROVE Goal
  BY <1>3 DEF AddErrCache, chainVars, PV!vars
<1>4. ASSUME NEW c \in Caller, ProcessTransaction(c), UNCHANGED chainVars PROVE Goal
  <2>1. callTx[c] \in PoolTx
    BY <1>4 DEF ProcessTransaction, Types, TypeOK, PoolTypeOK
  <2>2. CASE CheckOrphanUtxos(callTx[c]) = {} /\ ~Full
    <3>1. AddTransaction(callTx[c]) /\ UNCHANGED <<best, unspent>>
      BY <1>4, <2>2 DEF ProcessTransaction, chainVars
    <3> QED  BY <2>1, <2>2, <3>1, EntersWithInputs DEF PV!Next
  <2>3. CASE ~(CheckOrphanUtxos(callTx[c]) = {} /\ ~Full)
    BY <1>4, <2>3 DEF ProcessTransaction, chainVars, PV!vars
  <2> QED  BY <2>2, <2>3
<1>5. CASE ProcessOrphans /\ UNCHANGED chainVars
  <2>1. rely \in Seq(SUBSET (Output \X PoolTx)) /\ rely # <<>>
    BY <1>5 DEF ProcessOrphans, Types, TypeOK, PoolTypeOK
  <2>2. PICK p \in Head(rely) :
          \/ UNCHANGED pool
          \/ CheckOrphanUtxos(p[2]) = {} /\ ~Full /\ AddTransaction(p[2])
    BY <1>5 DEF ProcessOrphans
  <2>3. p[2] \in PoolTx
    BY <2>1
  <2>4. UNCHANGED <<best, unspent>>
    BY <1>5 DEF ProcessOrphans, chainVars
  <2> QED  BY <2>2, <2>3, <2>4, EntersWithInputs DEF PV!Next, PV!vars
<1>6. CASE /\ NextBatch \/ Send \/ Unlock \/ ExpireOrphan \/ Listen
           /\ UNCHANGED chainVars
  BY <1>6 DEF NextBatch, Send, Unlock, ExpireOrphan, Listen, chainVars, PV!vars
<1>7. CASE /\ AddUnconfirmedTx \/ RemoveUnconfirmedTx \/ TxBroadcast
           /\ UNCHANGED chainVars
  BY <1>7 DEF AddUnconfirmedTx, RemoveUnconfirmedTx, TxBroadcast, chainVars, PV!vars
<1>8. ASSUME NEW b \in Block, Connect(b) \/ Reorganize(b) PROVE Goal
  <2>1. UNCHANGED pool /\ BC!Adopt(b)
    BY <1>8 DEF Connect, Reorganize, poolVars
  <2> QED  BY <2>1, SameOperators DEF PV!Next, PV!Move
<1>9. ASSUME NEW t, NEW actor, RemoveTransaction(actor, t), UNCHANGED <<best, unspent>>
      PROVE  Goal
  <2>1. UNCHANGED pool \/ (t \in PoolTx /\ pool' = pool \ {t})
    BY <1>9 DEF RemoveTransaction, Types, TypeOK, PoolTypeOK
  <2> QED  BY <1>9, <2>1 DEF PV!Next, PV!Leave, PV!vars
<1>10. CASE Evict
  BY <1>9, <1>10 DEF Evict
<1>11. ASSUME NEW t \in PoolTx, BlkGenSkipTx(t) PROVE Goal
  BY <1>9, <1>11 DEF BlkGenSkipTx, chainVars
<1> QED
  BY <1>1, <1>2, <1>3, <1>4, <1>5, <1>6, <1>7, <1>8, <1>10, <1>11, Steps, Zenon

\* ChainPool implements Pool, for any traffic and any limits: what NewBlockTemplate may
\* assume of the pool it reads without its lock.
THEOREM PoolPromiseKept == Spec => ImplementsPool
<1>1. Init => PV!Init
  BY SameOperators DEF Init, PoolInit, PV!Init
<1>2. Init => PoolUtxoExact
  BY DEF Init, PoolInit, PoolUtxoExact
<1> QED
  BY <1>1, <1>2, TypesInit, TypesStep, UtxoStep, PromiseStep, PTL
  DEF Spec, ImplementsPool, PV!Spec
=============================================================================
