--------------------------- MODULE Mining_proofs ----------------------------
(***************************************************************************)
(* That the mining pool may know a template by its previous block, proved  *)
(* for any number of external miners, calls and workers, any channel sizes *)
(* and any height.                                                         *)
(***************************************************************************)
EXTENDS Mining, TLAPS

\* A submission that is solved was made for a block that still fits below the bound.
Fitting == {s \in Submission : s.solved => s.work.prev < MaxHeight}

PoolTypes ==
  /\ best \in 0..MaxHeight
  /\ block \in Template \cup {None} /\ draft \in 0..MaxHeight /\ made \in Nat
  /\ waitFor \in Nat
  /\ inHand \in Fitting \cup {None}
  /\ submitCh \in Seq(Fitting)
  /\ work \in [Miner -> Template \cup {None}]

(***************************************************************************)
(* The template is never ahead of the best block, and behind it wherever   *)
(* blockUpdater makes the next one; what it waits for is above it.         *)
(***************************************************************************)
Behind ==
  block # None =>
    /\ block.prev <= best
    /\ upd \in {"generate", "announce"} => block.prev < best
    /\ upd = "publish" => block.prev < draft
    /\ upd = "wait" => block.prev < waitFor

\* The header a miner holds is that of the template, or of one on an earlier block.
Held ==
  \A m \in Miner : work[m] # None =>
    block # None /\ (work[m] = block \/ work[m].prev < block.prev)

PoolInv ==
  /\ PoolTypes /\ Behind /\ Held
  /\ upd = "publish" => draft <= best
  /\ upd = "announce" => block # None
  /\ upd = "submit" => inHand # None

\* What the other goroutines do leaves the pool alone, and the chain only grows.
LEMMA Grows ==
  ASSUME PoolInv, best' \in best..MaxHeight, UNCHANGED poolVars
  PROVE  PoolInv'
BY BaseAssumption DEF PoolInv, PoolTypes, Behind, Held, poolVars, Template

LEMMA InitPool == Init => PoolInv
BY BaseAssumption, SetupAssumption
DEF Init, BaseInit, PoolInit, PoolInv, PoolTypes, Behind, Held

LEMMA UpdaterPool ==
  ASSUME PoolInv, Updater
  PROVE  PoolInv'
<1> USE BaseAssumption, PoolAssumption DEF PoolInv, PoolTypes, Behind, Held, baseVars
<1>1. CASE GenerateBlock
  BY <1>1 DEF GenerateBlock, Template
<1>2. CASE Publish
  <2>1. block' \in Template \cup {None} /\ PoolTypes'
    BY <1>2 DEF Publish, Template, Reply
  <2>2. CASE UNCHANGED block
    BY <1>2, <2>1, <2>2 DEF Publish, Template, Reply
  <2>3. CASE block' = [prev |-> draft, id |-> made]
    <3>1. block' # None /\ block'.prev = draft
      BY <2>1, <2>3, SMTT(20) DEF Template
    <3>2. ASSUME NEW m \in Miner, work'[m] # None
          PROVE  work'[m].prev < block'.prev
      BY <1>2, <3>1, <3>2 DEF Publish, Template
    <3> QED  BY <1>2, <2>1, <3>1, <3>2 DEF Publish, Reply
  <2> QED  BY <1>2, <2>2, <2>3 DEF Publish
<1>3. CASE Look
  BY <1>3 DEF Look, Template, NextHeight
<1>4. CASE BlockWaited
  BY <1>4 DEF BlockWaited, Template
<1>5. CASE TakeSubmission
  BY <1>5 DEF TakeSubmission, Template, Fitting, Submission
<1>6. CASE SubmitWork
  BY <1>6 DEF SubmitWork, Template, Fitting, Submission, ProcessBlock, RefuseSubmission, Reply
<1>7. CASE AnnounceWork
  BY <1>7 DEF AnnounceWork, Template, Announce
<1> QED  BY <1>1, <1>2, <1>3, <1>4, <1>5, <1>6, <1>7 DEF Updater

LEMMA CallsPool ==
  ASSUME PoolInv, NEW m \in Miner, GetWork(m) \/ \E solved \in BOOLEAN : Submit(m, solved)
  PROVE  PoolInv'
<1> USE BaseAssumption, PoolAssumption DEF PoolInv, PoolTypes, Behind, Held, baseVars
<1>1. CASE GetWork(m)
  BY <1>1 DEF GetWork, Template
<1>2. CASE \E solved \in BOOLEAN : Submit(m, solved)
  <2> PICK solved \in BOOLEAN : Submit(m, solved)
    BY <1>2
  <2>1. [miner |-> m, work |-> work[m], solved |-> solved] \in Fitting
    BY DEF Submit, Fitting, Submission, Template
  <2> QED  BY <2>1 DEF Submit, Template
<1> QED  BY <1>1, <1>2

\* The steps of the chain and of the CPU miner: the best block stays or moves up.
LEMMA OthersPool ==
  ASSUME PoolInv,
         BlockArrives \/ MinedBroadcast \/ ControlMiner \/ \E w \in Worker : Work(w) \/ Solve(w)
  PROVE  best' \in best..MaxHeight
<1> USE BaseAssumption DEF PoolInv, PoolTypes, baseVars
<1>1. CASE BlockArrives \/ MinedBroadcast
  BY <1>1 DEF BlockArrives, MinedBroadcast
<1>2. CASE ControlMiner
  <2>1. UNCHANGED baseVars
    BY <1>2, Zenon
    DEF ControlMiner, Control, Start, Stop, SetField, SetNumWorkers, Launch, Select, Quit, Update
  <2> QED  BY <2>1
<1>3. CASE \E w \in Worker : Work(w) \/ Solve(w)
  BY <1>3 DEF Work, Exit, NewTemplate, Abandon, AnnounceSolved, Solve, ProcessBlock
<1> QED  BY <1>1, <1>2, <1>3

LEMMA NextPool == PoolInv /\ [Next]_vars => PoolInv'
<1> SUFFICES ASSUME PoolInv, [Next]_vars PROVE PoolInv'
  OBVIOUS
<1>1. CASE Updater
  BY <1>1, UpdaterPool
<1>2. CASE \E m \in Miner : GetWork(m) \/ \E solved \in BOOLEAN : Submit(m, solved)
  BY <1>2, CallsPool
<1>3. CASE /\ \/ BlockArrives \/ MinedBroadcast \/ ControlMiner
              \/ \E w \in Worker : Work(w) \/ Solve(w)
           /\ UNCHANGED poolVars
  BY <1>3, OthersPool, Grows
<1>4. CASE UNCHANGED vars
  <2>1. best' \in best..MaxHeight
    BY <1>4 DEF vars, baseVars, PoolInv, PoolTypes
  <2> QED  BY <1>4, <2>1, Grows DEF vars
<1> QED  BY <1>1, <1>2, <1>3, <1>4 DEF Next

(***************************************************************************)
(* submitWork compares previous blocks only, and that is enough: a miner's *)
(* header on the block of the pool's template is of that very template.    *)
(***************************************************************************)
THEOREM TemplateKnownByPrev == Spec => []PrevIdentifies
<1>1. PoolInv => PrevIdentifies
  BY DEF PoolInv, PoolTypes, Held, PrevIdentifies, Template
<1> QED  BY <1>1, InitPool, NextPool, PTL DEF Spec
=============================================================================
