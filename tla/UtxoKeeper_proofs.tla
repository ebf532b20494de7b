------------------------- MODULE UtxoKeeper_proofs --------------------------
(***************************************************************************)
(* For every finite set of outputs, any number of accounts and every bound *)
(* the keeper's two maps agree and a live reservation keeps its outputs.   *)
(***************************************************************************)
EXTENDS UtxoKeeper, FiniteSetTheorems, TLAPS

\* Nothing that a call of Reserve may choose is reserved: the mutex keeps true what
\* it found until it returns.
Unreserved(s) == \A i \in DOMAIN s : s[i] \notin DOMAIN reserved

ChoiceInv == pc # "idle" => Unreserved(list) /\ Unreserved(opt) /\ Unreserved(replace)

IInv == TypeOK /\ ReservedExact /\ ChoiceInv

\* The part of TypeOK about the keeper's maps.
KeepTypes ==
  /\ nextIndex \in 0..MaxIndex
  /\ DOMAIN reserved \subseteq Out /\ reserved \in [DOMAIN reserved -> 1..nextIndex]
  /\ DOMAIN reservations \subseteq 1..nextIndex
  /\ reservations \in [DOMAIN reservations -> Reservation]

\* The part of TypeOK about the environment and the call of Reserve.
CallTypes ==
  /\ db \subseteq Out /\ height \in 0..MaxHeight /\ now \in 0..MaxTime
  /\ unconfirmed \subseteq Out
  /\ pc \in {"idle", "choose", "replace", "chosen"}
  /\ pc # "idle" => nextIndex < MaxIndex
  /\ amount \in Nat /\ expiry \in 0..MaxTime
  /\ list \in Seq(Out) /\ node \in 1..(Len(list) + 1)
  /\ opt \in Seq(Out) /\ optAmount \in Nat
  /\ replace \in Seq(Out) /\ replaceAmount \in Nat
  /\ pc = "replace" => opt # <<>>
  /\ pc \in {"replace", "chosen"} => optAmount >= amount

\* The outputs of a reservation that lives on stay reserved for it.
Kept ==
  \A r \in DOMAIN reservations \cap DOMAIN reservations' : \A o \in Outputs(r) :
    o \in DOMAIN reserved' /\ reserved'[o] = r

LEMMA TypeParts ==
  /\ TypeOK <=> KeepTypes /\ CallTypes
  /\ TypeOK' <=> KeepTypes' /\ CallTypes'
  BY DEF TypeOK, KeepTypes, CallTypes

\* A reservation of outputs that nobody holds takes nothing from the others.
LEMMA EnterStep ==
  ASSUME KeepTypes, ReservedExact,
         NEW utxos \in Seq(Out), NEW asked \in Nat, NEW change \in Nat, NEW exp \in 0..MaxTime,
         Unreserved(utxos), nextIndex < MaxIndex, Enter(utxos, asked, change, exp)
  PROVE  /\ KeepTypes' /\ ReservedExact'
         /\ \A r \in DOMAIN reservations : \A o \in Outputs(r) :
              o \in DOMAIN reserved' /\ reserved'[o] = r
<1> DEFINE id == nextIndex + 1
           outs == {utxos[i] : i \in DOMAIN utxos}
           later(r) == {reservations'[r].utxos[i] : i \in DOMAIN reservations'[r].utxos}
           rec == [utxos |-> utxos, change |-> change, expiry |-> exp, amount |-> asked]
<1>1. /\ id \in 1..MaxIndex /\ id \notin DOMAIN reservations
      /\ nextIndex' = id /\ nextIndex' \in 0..MaxIndex
  BY KeeperAssumption DEF KeepTypes, Enter
<1>2. rec \in Reservation
  BY DEF Reservation
<1>3. /\ DOMAIN reservations' = DOMAIN reservations \cup {id}
      /\ reservations'[id] = rec
      /\ \A r \in DOMAIN reservations : reservations'[r] = reservations[r]
      /\ reservations' = [r \in DOMAIN reservations' |-> reservations'[r]]
  BY <1>1 DEF Enter
<1>4. outs \subseteq Out /\ outs \cap DOMAIN reserved = {}
  BY DEF Unreserved
<1>5. /\ DOMAIN reserved' = DOMAIN reserved \cup outs
      /\ \A o \in outs : reserved'[o] = id
      /\ \A o \in DOMAIN reserved : reserved'[o] = reserved[o]
      /\ reserved' = [o \in DOMAIN reserved' |-> reserved'[o]]
  BY <1>4 DEF Enter, Unreserved
<1>6. /\ later(id) = outs
      /\ \A r \in DOMAIN reservations : later(r) = Outputs(r)
  BY <1>3 DEF Outputs
<1>7. KeepTypes'
  <2>1. DOMAIN reserved' \subseteq Out /\ reserved' \in [DOMAIN reserved' -> 1..nextIndex']
    BY <1>1, <1>4, <1>5 DEF KeepTypes
  <2>2. DOMAIN reservations' \subseteq 1..nextIndex'
    BY <1>1, <1>3 DEF KeepTypes
  <2>3. reservations' \in [DOMAIN reservations' -> Reservation]
    BY <1>2, <1>3 DEF KeepTypes
  <2>4. QED
    BY <1>1, <2>1, <2>2, <2>3 DEF KeepTypes
<1>8. ReservedExact'
  <2>1. ASSUME NEW o \in DOMAIN reserved'
        PROVE  reserved'[o] \in DOMAIN reservations' /\ o \in later(reserved'[o])
    BY <1>3, <1>5, <1>6 DEF ReservedExact
  <2>2. ASSUME NEW r \in DOMAIN reservations', NEW o \in later(r)
        PROVE  o \in DOMAIN reserved' /\ reserved'[o] = r
    BY <1>3, <1>5, <1>6 DEF ReservedExact
  <2>3. QED
    BY <2>1, <2>2 DEF ReservedExact, Outputs
<1>9. QED
  BY <1>5, <1>7, <1>8 DEF ReservedExact

\* What a cancel releases is held by no other reservation.
LEMMA CancelStep ==
  ASSUME KeepTypes, ReservedExact, NEW R, CancelAll(R), nextIndex' = nextIndex
  PROVE  /\ KeepTypes' /\ ReservedExact'
         /\ \A r \in DOMAIN reservations' : \A o \in Outputs(r) :
              o \in DOMAIN reserved' /\ reserved'[o] = r
<1> DEFINE live == R \cap DOMAIN reservations
           later(r) == {reservations'[r].utxos[i] : i \in DOMAIN reservations'[r].utxos}
           freed == UNION {Outputs(r) : r \in live}
<1>1. /\ DOMAIN reservations' = DOMAIN reservations \ live
      /\ \A r \in DOMAIN reservations' : reservations'[r] = reservations[r]
      /\ reservations' = [r \in DOMAIN reservations' |-> reservations'[r]]
  BY DEF CancelAll
<1>2. /\ DOMAIN reserved' = DOMAIN reserved \ freed
      /\ \A o \in DOMAIN reserved' : reserved'[o] = reserved[o]
      /\ reserved' = [o \in DOMAIN reserved' |-> reserved'[o]]
  BY DEF CancelAll
<1>3. \A r \in DOMAIN reservations' : later(r) = Outputs(r)
  BY <1>1 DEF Outputs
<1>4. KeepTypes'
  <2>1. DOMAIN reserved' \subseteq Out /\ reserved' \in [DOMAIN reserved' -> 1..nextIndex']
    BY <1>2 DEF KeepTypes
  <2>2. DOMAIN reservations' \subseteq 1..nextIndex'
    BY <1>1 DEF KeepTypes
  <2>3. reservations' \in [DOMAIN reservations' -> Reservation]
    BY <1>1 DEF KeepTypes
  <2>4. QED
    BY <2>1, <2>2, <2>3 DEF KeepTypes
<1>5. ASSUME NEW r \in DOMAIN reservations', NEW o \in Outputs(r)
      PROVE  o \in DOMAIN reserved' /\ reserved'[o] = r
  <2>1. o \in DOMAIN reserved /\ reserved[o] = r /\ r \notin live
    BY <1>1 DEF ReservedExact
  <2>2. o \notin freed
    BY <1>1, <2>1 DEF ReservedExact
  <2>3. QED
    BY <1>2, <2>1, <2>2
<1>6. ASSUME NEW o \in DOMAIN reserved'
      PROVE  reserved'[o] \in DOMAIN reservations' /\ o \in later(reserved'[o])
  <2>1. /\ o \in DOMAIN reserved /\ o \notin freed /\ reserved'[o] = reserved[o]
        /\ reserved[o] \in DOMAIN reservations /\ o \in Outputs(reserved[o])
    BY <1>2 DEF ReservedExact
  <2>2. reserved[o] \notin live
    BY <2>1
  <2>3. QED
    BY <1>1, <1>3, <2>1, <2>2
<1>7. ASSUME NEW r \in DOMAIN reservations', NEW o \in later(r)
      PROVE  o \in DOMAIN reserved' /\ reserved'[o] = r
  BY <1>3, <1>5
<1>8. ReservedExact'
  BY <1>6, <1>7 DEF ReservedExact, Outputs
<1>9. QED
  BY <1>4, <1>5, <1>8

\* What findUtxos and the sort of optUTXOs yield is a list of outputs.
LEMMA ListTypes ==
  ASSUME NEW S \in SUBSET (Out \X {"db", "unconfirmed"}), NEW l \in SortedLists(S)
  PROVE  l \in Seq(Out) /\ \A i \in DOMAIN l : \E p \in S : p[1] = l[i]
<1>1. IsFiniteSet({"db", "unconfirmed"})
  <2>1. IsFiniteSet({"db"})
    BY FS_Singleton
  <2>2. IsFiniteSet({"db"} \cup {"unconfirmed"})
    BY <2>1, FS_AddElement
  <2>3. {"db"} \cup {"unconfirmed"} = {"db", "unconfirmed"}
    OBVIOUS
  <2>4. QED
    BY <2>2, <2>3
<1>2. IsFiniteSet(Out \X {"db", "unconfirmed"})
  BY <1>1, KeeperAssumption, FS_Product
<1>3. Cardinality(S) \in Nat
  BY <1>2, FS_Subset, FS_CardinalityType
<1>4. l \in [1..Cardinality(S) -> {p[1] : p \in S}]
  BY DEF SortedLists
<1>5. {p[1] : p \in S} \subseteq Out
  OBVIOUS
<1>6. QED
  BY <1>3, <1>4, <1>5

\* A step that leaves the keeper's maps alone keeps what is said of them.
LEMMA KeepUnchanged ==
  ASSUME KeepTypes, ReservedExact, UNCHANGED <<reserved, reservations, nextIndex>>
  PROVE  KeepTypes' /\ ReservedExact' /\ Kept
<1>1. KeepTypes'
  BY DEF KeepTypes
<1>2. ReservedExact'
  BY DEF ReservedExact, Outputs
<1>3. Kept
  BY DEF Kept, ReservedExact
<1>4. QED
  BY <1>1, <1>2, <1>3

\* A call that has returned leaves nothing behind.
LEMMA EndCallTypes ==
  ASSUME CallTypes, EndCall, UNCHANGED <<envVars, unconfirmed>>
  PROVE  CallTypes' /\ ChoiceInv'
<1>1. list' \in Seq(Out) /\ Len(list') = 0 /\ opt' \in Seq(Out) /\ replace' \in Seq(Out)
  BY DEF EndCall
<1>2. expiry' \in 0..MaxTime /\ node' \in 1..(Len(list') + 1)
  BY <1>1, KeeperAssumption DEF EndCall, CallTypes
<1>3. CallTypes'
  BY <1>1, <1>2 DEF CallTypes, EndCall, envVars
<1>4. ChoiceInv'
  BY DEF ChoiceInv, EndCall
<1>5. QED
  BY <1>3, <1>4

LEMMA AmountType == \A o \in Out : Amount[o] \in Nat
  BY KeeperAssumption

\* An amount that wraps around is still one.
LEMMA Wraps == \A x \in Int : x % Modulus \in Nat
<1>1. Modulus \in Nat /\ Modulus > 0
  BY KeeperAssumption
<1>2. QED
  BY <1>1

\* The loops of optUTXOs stay within the list, and so off the reserved outputs.
LEMMA LoopStep ==
  ASSUME CallTypes, ChoiceInv, Push \/ StartReplace \/ Replace \/ StopReplace
  PROVE  CallTypes' /\ ChoiceInv'
<1>1. pc # "idle" /\ Unreserved(list) /\ Unreserved(opt) /\ Unreserved(replace)
  BY DEF ChoiceInv, Push, StartReplace, Replace, StopReplace
<1>2. UNCHANGED <<db, height, now, unconfirmed, reserved, nextIndex, amount, expiry, list>>
  BY DEF Push, StartReplace, Replace, StopReplace, envVars, keepVars, callArgs, choiceVars
<1>3. ASSUME node <= Len(list)
      PROVE  /\ list[node] \in Out /\ list[node] \notin DOMAIN reserved
             /\ node + 1 \in 1..(Len(list) + 1) /\ Amount[list[node]] \in Nat
  <2>1. list \in Seq(Out) /\ node \in 1..Len(list)
    BY <1>3 DEF CallTypes
  <2>2. list[node] \in Out /\ node \in DOMAIN list /\ node + 1 \in 1..(Len(list) + 1)
    BY <2>1
  <2>3. list[node] \notin DOMAIN reserved
    BY <1>1, <2>2 DEF Unreserved
  <2>4. QED
    BY <2>2, <2>3, AmountType
<1>4. CASE Push
  <2>1. /\ opt' = Append(opt, list[node]) /\ node' = node + 1 /\ node <= Len(list)
        /\ optAmount' = (optAmount + Amount[list[node]]) % Modulus
        /\ pc = "choose" /\ UNCHANGED <<pc, replace, replaceAmount>>
    BY <1>4 DEF Push
  <2>2. opt' \in Seq(Out) /\ \A i \in DOMAIN opt' : opt'[i] \notin DOMAIN reserved
    <3>1. list[node] \in Out /\ list[node] \notin DOMAIN reserved /\ opt \in Seq(Out)
      BY <1>3, <2>1 DEF CallTypes
    <3>2. QED
      BY <1>1, <2>1, <3>1 DEF Unreserved
  <2>3. CallTypes'
    <3>1. optAmount + Amount[list[node]] \in Int /\ node' \in 1..(Len(list') + 1)
      BY <1>2, <1>3, <2>1 DEF CallTypes
    <3>2. optAmount' \in Nat
      BY <2>1, <3>1, Wraps
    <3>3. QED
      BY <1>2, <2>1, <2>2, <3>1, <3>2 DEF CallTypes
  <2>4. ChoiceInv'
    BY <1>1, <1>2, <2>1, <2>2 DEF ChoiceInv, Unreserved
  <2>5. QED
    BY <2>3, <2>4
<1>5. CASE StartReplace
  <2>1. /\ replace' = <<>> /\ pc' = "replace" /\ opt # <<>> /\ optAmount >= amount
        /\ replaceAmount' = (optAmount - Amount[opt[1]]) % Modulus /\ UNCHANGED <<opt, optAmount, node>>
    BY <1>5 DEF StartReplace
  <2>2. Amount[opt[1]] \in Nat
    <3>1. opt[1] \in Out
      BY <2>1 DEF CallTypes
    <3>2. QED
      BY <3>1, AmountType
  <2>3. CallTypes'
    <3>1. optAmount - Amount[opt[1]] \in Int
      BY <2>2 DEF CallTypes
    <3>2. replaceAmount' \in Nat
      BY <2>1, <3>1, Wraps
    <3>3. QED
      BY <1>1, <1>2, <2>1, <3>2 DEF CallTypes
  <2>4. ChoiceInv'
    BY <1>1, <1>2, <2>1 DEF ChoiceInv, Unreserved
  <2>5. QED
    BY <2>3, <2>4
<1>6. CASE Replace
  <2> DEFINE next == Append(replace, list[node])
             sum == (replaceAmount + Amount[list[node]]) % Modulus
  <2>1. pc = "replace" /\ node <= Len(list) /\ node' = node + 1
    BY <1>6 DEF Replace
  <2>2. /\ next \in Seq(Out) /\ sum \in Nat
        /\ \A i \in DOMAIN next : next[i] \notin DOMAIN reserved
    <3>1. list[node] \in Out /\ list[node] \notin DOMAIN reserved /\ replace \in Seq(Out)
      BY <1>3, <2>1 DEF CallTypes
    <3>2. replaceAmount + Amount[list[node]] \in Int
      BY <1>3, <2>1 DEF CallTypes
    <3>3. sum \in Nat
      BY <3>2, Wraps
    <3>4. QED
      BY <1>1, <3>1, <3>3 DEF Unreserved
  <2>3. CASE sum >= amount
    <3>1. /\ opt' = Tail(opt) \o next /\ optAmount' = sum /\ pc' = "choose"
          /\ replace' = <<>> /\ replaceAmount' = 0
      BY <1>6, <2>3 DEF Replace
    <3>2. /\ opt # <<>> /\ Tail(opt) \in Seq(Out)
          /\ \A i \in DOMAIN Tail(opt) : Tail(opt)[i] \notin DOMAIN reserved
      BY <1>1, <2>1 DEF CallTypes, Unreserved
    <3> HIDE DEF next
    <3>3. opt' \in Seq(Out) /\ \A i \in DOMAIN opt' : opt'[i] \notin DOMAIN reserved
      BY <2>2, <3>1, <3>2
    <3>4. optAmount' \in Nat
      BY <2>2, <2>3, <3>1 DEF CallTypes
    <3>5. CallTypes'
      BY <1>1, <1>2, <1>3, <2>1, <3>1, <3>3, <3>4 DEF CallTypes
    <3>6. ChoiceInv'
      BY <1>1, <1>2, <3>1, <3>3 DEF ChoiceInv, Unreserved
    <3>7. QED
      BY <3>5, <3>6
  <2>4. CASE ~(sum >= amount)
    <3>1. replace' = next /\ replaceAmount' = sum /\ UNCHANGED <<opt, optAmount, pc>>
      BY <1>6, <2>4 DEF Replace
    <3>2. CallTypes'
      BY <1>1, <1>2, <1>3, <2>1, <2>2, <3>1 DEF CallTypes
    <3>3. ChoiceInv'
      BY <1>1, <1>2, <2>2, <3>1 DEF ChoiceInv, Unreserved
    <3>4. QED
      BY <3>2, <3>3
  <2>5. QED
    BY <2>3, <2>4
<1>7. CASE StopReplace
  <2>1. pc = "replace" /\ pc' = "chosen" /\ UNCHANGED <<node, opt, optAmount, replace, replaceAmount>>
    BY <1>7 DEF StopReplace, choiceVars
  <2>2. CallTypes'
    BY <1>1, <1>2, <2>1 DEF CallTypes
  <2>3. ChoiceInv'
    BY <1>1, <1>2, <2>1 DEF ChoiceInv, Unreserved
  <2>4. QED
    BY <2>2, <2>3
<1>8. QED
  BY <1>4, <1>5, <1>6, <1>7

\* The calls of the API and the end of Reserve.
LEMMA CallStep ==
  ASSUME IInv, Begin \/ Choose
  PROVE  IInv' /\ Kept
<1>1. KeepTypes /\ CallTypes /\ ReservedExact /\ ChoiceInv
  BY TypeParts DEF IInv
<1>2. ASSUME NEW purse \in Purse, NEW asked \in 0..MaxAmount, NEW u \in BOOLEAN,
             NEW exp \in 0..(MaxTime - 1), Reserve(purse, asked, u, exp)
      PROVE  KeepTypes' /\ ReservedExact' /\ Kept /\ CallTypes' /\ ChoiceInv'
  <2> DEFINE mature == {p \in FindUtxos(purse, u) : ValidHeight[p[1]] <= height}
             S == {p \in mature : p[1] \notin DOMAIN reserved}
  <2>1. /\ pc' = "choose" /\ amount' = asked /\ expiry' = exp /\ list' \in SortedLists(S)
        /\ node' = 1 /\ opt' = <<>> /\ optAmount' = 0 /\ nextIndex < MaxIndex
        /\ replace' = <<>> /\ replaceAmount' = 0 /\ UNCHANGED <<envVars, keepVars>>
    BY <1>2 DEF Reserve
  <2>2. S \in SUBSET (Out \X {"db", "unconfirmed"})
    BY <1>1 DEF FindUtxos, CallTypes
  <2>3. list' \in Seq(Out) /\ \A i \in DOMAIN list' : \E p \in S : p[1] = list'[i]
    BY <2>1, <2>2, ListTypes
  <2>4. \A i \in DOMAIN list' : list'[i] \notin DOMAIN reserved
    BY <2>3
  <2>5. KeepTypes' /\ ReservedExact' /\ Kept
    BY <1>1, <2>1, KeepUnchanged DEF keepVars
  <2>6. asked \in Nat /\ exp \in 0..MaxTime
    BY KeeperAssumption
  <2>7. opt' \in Seq(Out) /\ replace' \in Seq(Out)
    BY <2>1
  <2>8. CallTypes'
    BY <1>1, <2>1, <2>3, <2>6, <2>7 DEF CallTypes, envVars, keepVars
  <2>9. ChoiceInv'
    BY <2>1, <2>4 DEF ChoiceInv, Unreserved, keepVars
  <2>10. QED
    BY <2>5, <2>8, <2>9
<1>3. ASSUME NEW o \in Out, NEW u \in BOOLEAN, NEW exp \in 0..(MaxTime - 1),
             ReserveParticular(o, u, exp)
      PROVE  KeepTypes' /\ ReservedExact' /\ Kept /\ CallTypes' /\ ChoiceInv'
  <2>1. /\ pc = "idle" /\ o \notin DOMAIN reserved /\ nextIndex < MaxIndex
        /\ Enter(<<o>>, Amount[o], 0, exp) /\ UNCHANGED <<envVars, unconfirmed, callVars>>
    BY <1>3 DEF ReserveParticular
  <2>2. <<o>> \in Seq(Out) /\ Unreserved(<<o>>)
    BY <2>1 DEF Unreserved
  <2>3. Amount[o] \in Nat /\ 0 \in Nat /\ exp \in 0..MaxTime
    BY KeeperAssumption, AmountType
  <2>4. KeepTypes' /\ ReservedExact' /\ Kept
    BY <1>1, <2>1, <2>2, <2>3, EnterStep DEF Kept
  <2>5. CallTypes' /\ ChoiceInv'
    BY <1>1, <2>1 DEF CallTypes, ChoiceInv, envVars, callVars, callArgs, choiceVars
  <2>6. QED
    BY <2>4, <2>5
<1>4. CASE Push \/ StartReplace \/ Replace \/ StopReplace
  <2>1. UNCHANGED <<reserved, reservations, nextIndex>>
    BY <1>4 DEF Push, StartReplace, Replace, StopReplace, keepVars
  <2>2. QED
    BY <1>1, <1>4, <2>1, KeepUnchanged, LoopStep, TypeParts DEF IInv
<1>5. CASE ReservePanic \/ ReserveRefused
  <2>1. EndCall /\ UNCHANGED <<envVars, keepVars>>
    BY <1>5 DEF ReservePanic, ReserveRefused
  <2>2. QED
    BY <1>1, <2>1, KeepUnchanged, EndCallTypes, TypeParts DEF IInv, keepVars
<1>6. CASE ReserveDone
  <2>1. /\ optAmount >= amount /\ Enter(opt, amount, optAmount - amount, expiry)
        /\ EndCall /\ UNCHANGED <<envVars, unconfirmed>>
    <3>1. ~ErrReserved /\ optAmount \in Nat /\ amount \in Nat
      BY <1>1, <1>6 DEF ReserveDone, CallTypes
    <3>2. optAmount >= amount
      BY <3>1 DEF ErrReserved
    <3>3. QED
      BY <1>6, <3>2 DEF ReserveDone
  <2>2. pc # "idle"
    BY <1>6 DEF ReserveDone, Chosen
  <2>3. /\ opt \in Seq(Out) /\ Unreserved(opt) /\ nextIndex < MaxIndex
        /\ amount \in Nat /\ optAmount - amount \in Nat /\ expiry \in 0..MaxTime
    BY <1>1, <2>1, <2>2 DEF CallTypes, ChoiceInv
  <2>4. KeepTypes' /\ ReservedExact' /\ Kept
    BY <1>1, <2>1, <2>3, EnterStep DEF Kept
  <2>5. CallTypes' /\ ChoiceInv'
    BY <1>1, <2>1, EndCallTypes
  <2>6. QED
    BY <2>4, <2>5, TypeParts DEF IInv
<1>7. CASE Begin
  <2>1. KeepTypes' /\ ReservedExact' /\ Kept /\ CallTypes' /\ ChoiceInv'
    BY <1>2, <1>3, <1>7 DEF Begin
  <2>2. QED
    BY <2>1, TypeParts DEF IInv
<1>8. QED
  BY <1>4, <1>5, <1>6, <1>7 DEF Choose

\* The worker, a rollback, the pool listener, the wallet and the clocks.
LEMMA OtherStep ==
  ASSUME IInv, ~Begin, ~Choose, [Next]_vars
  PROVE  IInv' /\ Kept
<1>1. KeepTypes /\ CallTypes /\ ReservedExact /\ ChoiceInv
  BY TypeParts DEF IInv
<1>2. CASE ExpireReservation \/ \E rid \in 1..nextIndex : Cancel(rid)
  <2>1. /\ pc = "idle" /\ (\E R : CancelAll(R))
        /\ UNCHANGED <<envVars, unconfirmed, nextIndex, callVars>>
    BY <1>2 DEF ExpireReservation, Cancel
  <2>2. KeepTypes' /\ ReservedExact' /\ Kept
    BY <1>1, <2>1, CancelStep DEF Kept
  <2>3. CallTypes' /\ ChoiceInv'
    BY <1>1, <2>1 DEF CallTypes, ChoiceInv, envVars, callVars, callArgs, choiceVars
  <2>4. QED
    BY <2>2, <2>3, TypeParts DEF IInv
<1>3. CASE Environment \/ (\E S \in SUBSET Out : AddUnconfirmedUtxo(S) \/ RemoveUnconfirmedUtxo(S))
  <2>1. UNCHANGED <<reserved, reservations, nextIndex, callVars>>
    BY <1>3 DEF Environment, WalletBatch, NewBestHeight, Tick, AddUnconfirmedUtxo,
                RemoveUnconfirmedUtxo, keepVars
  <2>2. db' \subseteq Out /\ height' \in 0..MaxHeight /\ unconfirmed' \subseteq Out
    BY <1>1, <1>3 DEF Environment, WalletBatch, NewBestHeight, Tick, AddUnconfirmedUtxo,
                RemoveUnconfirmedUtxo, keepVars, envVars, CallTypes
  <2>3. now' \in 0..MaxTime
    <3>1. now' = now \/ (now < MaxTime /\ now' = now + 1)
      BY <1>3 DEF Environment, WalletBatch, NewBestHeight, Tick,
                AddUnconfirmedUtxo, RemoveUnconfirmedUtxo, envVars
    <3>2. now \in 0..MaxTime /\ MaxTime \in Nat
      BY <1>1, KeeperAssumption DEF CallTypes
    <3>3. QED
      BY <3>1, <3>2
  <2>4. CallTypes' /\ ChoiceInv'
    BY <1>1, <2>1, <2>2, <2>3 DEF CallTypes, ChoiceInv, Unreserved, callVars, callArgs, choiceVars
  <2>5. QED
    BY <1>1, <2>1, <2>4, KeepUnchanged, TypeParts DEF IInv
<1>4. CASE UNCHANGED vars
  <2>1. UNCHANGED <<envVars, keepVars, callVars>>
    BY <1>4 DEF vars
  <2>2. CallTypes' /\ ChoiceInv'
    BY <1>1, <2>1 DEF CallTypes, ChoiceInv, Unreserved, callVars, callArgs, choiceVars, envVars, keepVars
  <2>3. QED
    BY <1>1, <2>1, <2>2, KeepUnchanged, TypeParts DEF IInv, keepVars
<1>5. QED
  BY <1>2, <1>3, <1>4 DEF Next

\* The inductive invariant.
LEMMA Invariance == Spec => []IInv
<1>1. Init => IInv
  <2>1. Init => KeepTypes
    BY KeeperAssumption DEF Init, KeepTypes
  <2>2. Init => CallTypes
    BY KeeperAssumption DEF Init, CallTypes
  <2>3. Init => ReservedExact /\ ChoiceInv
    BY DEF Init, ReservedExact, ChoiceInv
  <2>4. QED
    BY <2>1, <2>2, <2>3, TypeParts DEF IInv
<1>2. IInv /\ [Next]_vars => IInv'
  BY CallStep, OtherStep
<1>3. QED
  BY <1>1, <1>2, PTL DEF Spec

\* The keeper's maps are well formed in every reachable state, the loops of optUTXOs
\* stay within their list, and the change of a reservation is never negative.
THEOREM Types == Spec => []TypeOK
<1>1. IInv => TypeOK
  BY DEF IInv
<1>2. QED
  BY <1>1, Invariance, PTL

\* The maps reserved and reservations of the keeper always agree: no output is held
\* by two reservations, and none is locked after its reservation has gone.
THEOREM MapsAgree == Spec => []ReservedExact
<1>1. IInv => ReservedExact
  BY DEF IInv
<1>2. QED
  BY <1>1, Invariance, PTL

\* Neither a late Cancel nor expireReservation nor another call of Reserve takes an
\* output from a reservation that lives on.
THEOREM OutputsKept == Spec => LiveKept
<1>1. IInv /\ [Next]_vars => Kept
  BY CallStep, OtherStep
<1>2. QED
  BY <1>1, Invariance, PTL DEF Spec, LiveKept, Kept
=============================================================================
