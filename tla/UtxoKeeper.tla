----------------------------- MODULE UtxoKeeper -----------------------------
(***************************************************************************)
(* account.utxoKeeper: reservations of the outputs that a transaction      *)
(* under construction will spend.  Its actors: API calls that build a      *)
(* transaction and may roll it back, the worker that expires reservations, *)
(* the pool listener, which adds and removes unconfirmed outputs, and the  *)
(* wallet, which changes the outputs in the database under the keeper.     *)
(*                                                                         *)
(* Every method of the keeper holds its mutex to the end, so only Reserve, *)
(* whose choice of outputs is a loop worth watching, takes several steps;  *)
(* pc says where it is.  The database and the clock do not wait for it.    *)
(***************************************************************************)
EXTENDS Integers, Sequences, FiniteSetsExt

CONSTANTS
  Out,                        \* output IDs
  Purse, Owner,               \* pairs of an account and an asset; whose an output is
  Amount, ValidHeight,
  DesireUtxoCount,
  Modulus,                    \* amounts are uint64: 2^64
  MaxAmount, MaxHeight, MaxTime, MaxIndex  \* bounds of the inputs, the clocks and the counter

ASSUME KeeperAssumption ==
  /\ IsFiniteSet(Out)
  /\ Owner \in [Out -> Purse]
  /\ Modulus \in Nat \ {0}
  /\ Amount \in [Out -> 1..(Modulus - 1)]
  /\ ValidHeight \in [Out -> Nat]
  /\ {DesireUtxoCount, MaxAmount, MaxHeight, MaxTime, MaxIndex} \subseteq Nat

VARIABLES
  db,            \* outputs the wallet's database holds
  height,        \* currentHeight()
  now            \* the clock

VARIABLES        \* utxoKeeper
  unconfirmed, reserved, reservations, nextIndex

VARIABLES        \* a call of Reserve and its optUTXOs
  pc, amount, expiry,
  list, node,    \* the outputs to choose from and the next one of them
  opt, optAmount, reservedAmount, immatureAmount,
  replace, replaceAmount

envVars == <<db, height, now>>
keepVars == <<unconfirmed, reserved, reservations, nextIndex>>
choiceVars == <<list, node, opt, optAmount, replace, replaceAmount>>
callArgs == <<amount, expiry, reservedAmount, immatureAmount>>
callVars == <<pc, callArgs, choiceVars>>
vars == <<envVars, keepVars, callVars>>

EndCall ==
  /\ pc' = "idle" /\ amount' = 0 /\ expiry' = 0 /\ list' = <<>> /\ node' = 1
  /\ opt' = <<>> /\ optAmount' = 0 /\ replace' = <<>> /\ replaceAmount' = 0
  /\ reservedAmount' = 0 /\ immatureAmount' = 0

\* amount is a history field: what the caller asked for.
Reservation == [utxos : Seq(Out), change : Nat, expiry : 0..MaxTime, amount : Nat]

TypeOK ==
  /\ db \subseteq Out /\ height \in 0..MaxHeight /\ now \in 0..MaxTime
  /\ unconfirmed \subseteq Out
  /\ DOMAIN reserved \subseteq Out /\ reserved \in [DOMAIN reserved -> 1..nextIndex]
  /\ DOMAIN reservations \subseteq 1..nextIndex
  /\ reservations \in [DOMAIN reservations -> Reservation]
  /\ nextIndex \in 0..MaxIndex
  /\ pc \in {"idle", "choose", "replace", "chosen"}
  /\ pc # "idle" => nextIndex < MaxIndex
  /\ amount \in Nat /\ expiry \in 0..MaxTime
  /\ list \in Seq(Out) /\ node \in 1..(Len(list) + 1)
  /\ opt \in Seq(Out) /\ optAmount \in Nat
  /\ replace \in Seq(Out) /\ replaceAmount \in Nat
  /\ pc = "replace" => opt # <<>>
  /\ pc \in {"replace", "chosen"} => optAmount >= amount

Init ==
  /\ db \in SUBSET Out /\ height = 0 /\ now = 0
  /\ unconfirmed = {} /\ reserved = <<>> /\ reservations = <<>> /\ nextIndex = 0
  /\ pc = "idle" /\ amount = 0 /\ expiry = 0 /\ list = <<>> /\ node = 1
  /\ opt = <<>> /\ optAmount = 0 /\ replace = <<>> /\ replaceAmount = 0
  /\ reservedAmount = 0 /\ immatureAmount = 0
-----------------------------------------------------------------------------
\* Only a transaction of the pool has unconfirmed outputs, and no coinbase is one.
AddUnconfirmedUtxo(S) ==
  /\ pc = "idle"
  /\ \A o \in S : ValidHeight[o] = 0
  /\ unconfirmed' = unconfirmed \cup S
  /\ UNCHANGED <<envVars, reserved, reservations, nextIndex, callVars>>

RemoveUnconfirmedUtxo(S) ==
  /\ pc = "idle"
  /\ unconfirmed' = unconfirmed \ S
  /\ UNCHANGED <<envVars, reserved, reservations, nextIndex, callVars>>

Outputs(r) == {reservations[r].utxos[i] : i \in DOMAIN reservations[r].utxos}

\* Mutant: the outputs of the reservation stay reserved.
CancelKeeps(R) ==
  /\ reservations' = [r \in DOMAIN reservations \ R |-> reservations[r]]
  /\ UNCHANGED reserved

\* cancel for the reservations R; the outputs are released without a look at
\* whose reservation they are entered for.
CancelAll(R) ==
  LET live == R \cap DOMAIN reservations
      freed == UNION {Outputs(r) : r \in live}
  IN /\ reservations' = [r \in DOMAIN reservations \ live |-> reservations[r]]
     /\ reserved' = [o \in DOMAIN reserved \ freed |-> reserved[o]]

\* Called when a build is rolled back, which may be after the expiry.
Cancel(rid) ==
  /\ pc = "idle"
  /\ CancelAll({rid})
  /\ UNCHANGED <<envVars, unconfirmed, nextIndex, callVars>>

\* Mutant: nothing is ever over.
ExpireNever ==
  /\ pc = "idle"
  /\ \E r \in DOMAIN reservations : reservations[r].expiry < 0
  /\ UNCHANGED vars

\* One tick of expireWorker.
ExpireReservation ==
  /\ pc = "idle"
  /\ LET over == {r \in DOMAIN reservations : reservations[r].expiry < now} IN
     /\ over # {}
     /\ CancelAll(over)
  /\ UNCHANGED <<envVars, unconfirmed, nextIndex, callVars>>

Enter(utxos, asked, change, exp) ==
  LET id == nextIndex + 1 IN
  /\ nextIndex' = id
  /\ reservations' = [r \in DOMAIN reservations \cup {id} |->
       IF r = id THEN [utxos |-> utxos, change |-> change, expiry |-> exp, amount |-> asked]
       ELSE reservations[r]]
  /\ reserved' = [o \in DOMAIN reserved \cup {utxos[i] : i \in DOMAIN utxos} |->
       IF \E i \in DOMAIN utxos : utxos[i] = o THEN id ELSE reserved[o]]

\* Mutant: an output that somebody has reserved is reserved again.
ReserveParticularAny(o, useUnconfirmed, exp) ==
  /\ pc = "idle"
  /\ o \in db \/ (useUnconfirmed /\ o \in unconfirmed)
  /\ ValidHeight[o] <= height
  /\ nextIndex < MaxIndex
  /\ Enter(<<o>>, Amount[o], 0, exp)
  /\ UNCHANGED <<envVars, unconfirmed, callVars>>

ReserveParticular(o, useUnconfirmed, exp) ==
  /\ pc = "idle"
  /\ o \notin DOMAIN reserved
  /\ o \in db \/ (useUnconfirmed /\ o \in unconfirmed)     \* findUtxo
  /\ ValidHeight[o] <= height
  /\ nextIndex < MaxIndex
  /\ Enter(<<o>>, Amount[o], 0, exp)
  /\ UNCHANGED <<envVars, unconfirmed, callVars>>
-----------------------------------------------------------------------------
(***************************************************************************)
(* Reserve.  findUtxos lists what the database holds and then what is      *)
(* unconfirmed: an output in both is listed twice.                         *)
(***************************************************************************)
FindUtxos(purse, useUnconfirmed) ==
  {p \in (db \X {"db"}) \cup (unconfirmed \X {"unconfirmed"}) :
     /\ Owner[p[1]] = purse
     /\ p[2] = "unconfirmed" => useUnconfirmed}

Sum(S) == MapThenSumSet(LAMBDA p : Amount[p[1]], S) % Modulus

\* The lists of the outputs in S, larger amounts first, in any order among equals.
SortedLists(S) ==
  {l \in [1..Cardinality(S) -> {p[1] : p \in S}] :
     /\ \A i, j \in DOMAIN l : i < j => Amount[l[i]] >= Amount[l[j]]
     /\ \A o \in {p[1] : p \in S} : Cardinality({i \in DOMAIN l : l[i] = o}) = Cardinality({p \in S : p[1] = o})}

\* findUtxos, the sort of optUTXOs and its first loop, which leaves out what is reserved.
Reserve(purse, asked, useUnconfirmed, exp) ==
  LET found == FindUtxos(purse, useUnconfirmed)
      mature == {p \in found : ValidHeight[p[1]] <= height}
      available == {p \in mature : p[1] \notin DOMAIN reserved}
  IN /\ pc = "idle"
     /\ nextIndex < MaxIndex
     /\ pc' = "choose" /\ amount' = asked /\ expiry' = exp
     /\ immatureAmount' = Sum(found \ mature)
     /\ reservedAmount' = Sum(mature \ available)
     /\ list' \in SortedLists(available)
     /\ node' = 1 /\ opt' = <<>> /\ optAmount' = 0 /\ replace' = <<>> /\ replaceAmount' = 0
     /\ UNCHANGED <<envVars, keepVars>>

Push ==
  /\ pc = "choose" /\ node <= Len(list) /\ optAmount < amount
  /\ opt' = Append(opt, list[node])
  /\ optAmount' = (optAmount + Amount[list[node]]) % Modulus
  /\ node' = node + 1
  /\ UNCHANGED <<envVars, keepVars, pc, callArgs, list, replace, replaceAmount>>

\* The amount is reached: try to spend several small outputs for the largest one.
StartReplace ==
  /\ pc = "choose" /\ node <= Len(list) /\ optAmount >= amount
  /\ opt # <<>>
  /\ pc' = "replace"
  /\ replace' = <<>>
  /\ replaceAmount' = (optAmount - Amount[opt[1]]) % Modulus
  /\ UNCHANGED <<envVars, keepVars, callArgs, list, node, opt, optAmount>>

\* For the amount 0 there is no largest output: the call panics, its mutex is
\* released and nothing is reserved.
ReservePanic ==
  /\ pc = "choose" /\ node <= Len(list) /\ optAmount >= amount
  /\ opt = <<>>
  /\ EndCall
  /\ UNCHANGED <<envVars, keepVars>>

\* Mutant: one more than there is room for.
HasRoomForOneMore == Len(replace) <= DesireUtxoCount - Len(opt) + 1

HasRoom == Len(replace) <= DesireUtxoCount - Len(opt)

\* Mutant: the amount is not that of the new choice.
ReplaceKeepsAmount ==
  /\ pc = "replace" /\ node <= Len(list) /\ HasRoom
  /\ LET sum == (replaceAmount + Amount[list[node]]) % Modulus IN
     IF sum >= amount
     THEN /\ opt' = Tail(opt) \o Append(replace, list[node])
          /\ pc' = "choose" /\ replace' = <<>> /\ replaceAmount' = 0
          /\ UNCHANGED optAmount
     ELSE /\ replace' = Append(replace, list[node])
          /\ replaceAmount' = sum
          /\ UNCHANGED <<opt, optAmount, pc>>
  /\ node' = node + 1
  /\ UNCHANGED <<envVars, keepVars, callArgs, list>>

\* Mutant: the largest output goes before the others reach the amount.
ReplaceEarly ==
  /\ pc = "replace" /\ node <= Len(list) /\ HasRoom
  /\ opt' = Tail(opt) \o Append(replace, list[node])
  /\ optAmount' = (replaceAmount + Amount[list[node]]) % Modulus
  /\ pc' = "choose" /\ replace' = <<>> /\ replaceAmount' = 0
  /\ node' = node + 1
  /\ UNCHANGED <<envVars, keepVars, callArgs, list>>

\* One iteration of the inner loop.
Replace ==
  /\ pc = "replace" /\ node <= Len(list) /\ HasRoom
  /\ LET sum == (replaceAmount + Amount[list[node]]) % Modulus IN
     IF sum >= amount
     THEN /\ opt' = Tail(opt) \o Append(replace, list[node])
          /\ optAmount' = sum
          /\ pc' = "choose" /\ replace' = <<>> /\ replaceAmount' = 0
     ELSE /\ replace' = Append(replace, list[node])
          /\ replaceAmount' = sum
          /\ UNCHANGED <<opt, optAmount, pc>>
  /\ node' = node + 1
  /\ UNCHANGED <<envVars, keepVars, callArgs, list>>

\* Nothing to replace: the outer loop ends too.
StopReplace ==
  /\ pc = "replace"
  /\ node > Len(list) \/ ~HasRoom
  /\ pc' = "chosen"
  /\ UNCHANGED <<envVars, keepVars, callArgs, choiceVars>>

Chosen == pc = "chosen" \/ (pc = "choose" /\ node > Len(list))
ErrInsufficient == (optAmount + reservedAmount + immatureAmount) % Modulus < amount
ErrImmature == (optAmount + reservedAmount) % Modulus < amount
ErrReserved == optAmount < amount

ReserveDone ==
  /\ Chosen
  /\ ~ErrInsufficient /\ ~ErrImmature /\ ~ErrReserved
  /\ Enter(opt, amount, optAmount - amount, expiry)
  /\ EndCall
  /\ UNCHANGED <<envVars, unconfirmed>>

ReserveRefused ==
  /\ Chosen
  /\ ErrInsufficient \/ ErrImmature \/ ErrReserved
  /\ EndCall
  /\ UNCHANGED <<envVars, keepVars>>
-----------------------------------------------------------------------------
\* A batch of the wallet: blocks attached or detached.
WalletBatch ==
  /\ db' \in SUBSET Out
  /\ UNCHANGED <<height, now, keepVars, callVars>>

NewBestHeight ==
  /\ height' \in 0..MaxHeight
  /\ UNCHANGED <<db, now, keepVars, callVars>>

Tick ==
  /\ now < MaxTime
  /\ now' = now + 1
  /\ UNCHANGED <<db, height, keepVars, callVars>>

Choose == Push \/ StartReplace \/ ReservePanic \/ Replace \/ StopReplace \/ ReserveDone \/ ReserveRefused
Begin == \E useUnconfirmed \in BOOLEAN, exp \in 0..(MaxTime - 1) :
  \/ \E purse \in Purse, asked \in 0..MaxAmount : Reserve(purse, asked, useUnconfirmed, exp)
  \/ \E o \in Out : ReserveParticular(o, useUnconfirmed, exp)
Environment == WalletBatch \/ NewBestHeight \/ Tick
Next ==
  \/ Begin \/ Choose \/ ExpireReservation \/ Environment
  \/ \E rid \in 1..nextIndex : Cancel(rid)
  \/ \E S \in SUBSET Out : AddUnconfirmedUtxo(S) \/ RemoveUnconfirmedUtxo(S)

Spec == Init /\ [][Next]_vars

\* Calls of Reserve and ReserveParticular alone.
ReserveSpec == Init /\ [][Begin \/ Choose]_vars

\* A call of Reserve runs to its end, time passes and the worker gets the mutex.
FairSpec == Spec /\ WF_vars(Choose) /\ WF_vars(Tick) /\ SF_vars(ExpireReservation)
-----------------------------------------------------------------------------
\* An output is reserved exactly while a live reservation holds it, and for that
\* one: cancel, expiry and the two ways to reserve leave no output locked without a
\* reservation and none in two.
ReservedExact ==
  /\ \A o \in DOMAIN reserved : reserved[o] \in DOMAIN reservations /\ o \in Outputs(reserved[o])
  /\ \A r \in DOMAIN reservations : \A o \in Outputs(r) : o \in DOMAIN reserved /\ reserved[o] = r

\* A late Cancel, or the expiry of another reservation, never releases an output of a
\* reservation that lives on, even when both held it one after the other.
LiveKept ==
  [][\A r \in DOMAIN reservations \cap DOMAIN reservations' : \A o \in Outputs(r) :
       o \in DOMAIN reserved' /\ reserved'[o] = r]_vars

Total(s) == MapThenSumSet(LAMBDA i : Amount[s[i]], DOMAIN s)
Distinct(s) == \A i, j \in DOMAIN s : i # j => s[i] # s[j]

\* What a reservation holds pays for what was asked and for the change, if no output
\* is in it twice, and whatever optUTXOs replaced, it reserves nothing it could do
\* without: the amount is not reached without any one of the outputs.
ReservationPays ==
  \A r \in DOMAIN reservations : LET res == reservations[r] IN
    /\ Distinct(res.utxos) => Total(res.utxos) = res.amount + res.change
    /\ \A i \in DOMAIN res.utxos : Total(res.utxos) - Amount[res.utxos[i]] < res.amount

\* The sums of the call may not fit in a uint64: a choice stays below the amount and
\* the largest output together, and the funds that cannot be used now are added to it.
TooMuch ==
  list # <<>> /\ amount + Amount[list[1]] + reservedAmount + immatureAmount > Modulus

\* optUTXOs takes more than desireUtxoCount outputs only if that many, the largest ones,
\* do not reach the amount, or a sum may wrap around.
DesiredCount ==
  Chosen /\ Len(opt) > DesireUtxoCount =>
    Total(SubSeq(list, 1, DesireUtxoCount)) < amount \/ TooMuch

\* Reserve refuses if the outputs it may use do not reach the amount, and only then,
\* unless a sum may wrap around: replacing outputs loses no funds, and a sum that
\* wraps never makes up for funds that are missing.
RefusalJust ==
  Chosen => LET refused == ErrInsufficient \/ ErrImmature \/ ErrReserved
            IN /\ Total(list) < amount => refused
               /\ refused => Total(list) < amount \/ TooMuch

\* Every reservation ends, by a cancel or by the worker, whatever calls keep coming.
ReservationEnds ==
  \A r \in 1..MaxIndex : r \in DOMAIN reservations ~> r \notin DOMAIN reservations
=============================================================================
