----------------------------- MODULE MiningPool -----------------------------
(***************************************************************************)
(* miningpool.MiningPool: the goroutine blockUpdater keeps a template for  *)
(* external miners, who take its header with GetWork and return it solved  *)
(* with SubmitWork.  A submission is matched with the template by its      *)
(* previous block alone.                                                   *)
(***************************************************************************)
EXTENDS MiningBase

CONSTANTS
  Miner,            \* external miners
  SubmitCap         \* maxSubmitChSize

Template == [prev : 0..MaxHeight, id : Nat]
Submission == [miner : Miner, work : Template, solved : BOOLEAN]

ASSUME PoolAssumption == None \notin Template \cup Submission

VARIABLES
  block,            \* MiningPool.block: [prev, id], or None
  draft,            \* the block that the template generateBlock is making is on
  made,             \* how many templates were made
  submits,          \* how many more submissions there will be
  upd,              \* where blockUpdater stands
  waitFor,          \* the height BlockWaiter waits for
  inHand,           \* the submission in hand, or None
  submitCh,         \* MiningPool.submitCh: [miner, work, solved]
  work,             \* work[m]: the header m holds
  call,             \* call[m]: whether m waits for the reply of SubmitWork
  missed            \* the template was already behind when blockUpdater began to wait

poolVars == <<block, draft, made, submits, upd, waitFor, inHand, submitCh, work, call, missed>>

PoolTypeOK ==
  /\ block \in Template \cup {None} /\ draft \in 0..MaxHeight
  /\ made \in Nat /\ submits \in Nat
  /\ upd \in {"off", "generate", "publish", "look", "wait", "submit", "announce"}
  /\ waitFor \in 0..(MaxHeight + 1)
  /\ inHand \in Submission \cup {None}
  /\ submitCh \in Seq(Submission) /\ Len(submitCh) <= SubmitCap
  /\ work \in [Miner -> Template \cup {None}]
  /\ call \in [Miner -> {"idle", "sent"}]
  /\ missed \in BOOLEAN

\* NewMiningPool, if there is to be one.
PoolInit(on, n) ==
  /\ block = None /\ draft = 0 /\ made = 0 /\ submits = n
  /\ upd = (IF on THEN "generate" ELSE "off") /\ waitFor = 0 /\ inHand = None /\ submitCh = <<>>
  /\ work = [m \in Miner |-> None] /\ call = [m \in Miner |-> "idle"]
  /\ missed = FALSE

\* The mutex: generateBlock and submitWork hold it while they work.
Locked == upd \in {"publish", "announce"}

Reply ==
  /\ call' = [m \in Miner |-> IF inHand # None /\ m = inHand.miner THEN "idle" ELSE call[m]]
  /\ inHand' = None
-----------------------------------------------------------------------------
(***************************************************************************)
(* generateBlock.  NewBlockTemplate reads the best block first and is busy *)
(* with transactions after that; if it fails the old template stays.       *)
(***************************************************************************)
GenerateBlock ==
  /\ upd = "generate"
  /\ draft' = best
  /\ upd' = "publish"
  /\ UNCHANGED <<block, made, submits, waitFor, inHand, submitCh, work, call, missed, baseVars>>

Publish ==
  /\ upd = "publish"
  /\ \/ block' = [prev |-> draft, id |-> made] /\ made' = made + 1
     \/ UNCHANGED <<block, made>>
  /\ draft' = 0
  /\ upd' = "look"
  /\ Reply
  /\ UNCHANGED <<submits, waitFor, submitCh, work, missed, baseVars>>

\* Mutant: it waits for one block too many.
NextAfter == best + 2

\* The height that the call of BlockWaiter asks for.
NextHeight == best + 1

Look ==
  /\ upd = "look"
  /\ waitFor' = IF NextHeight > MaxHeight THEN MaxHeight + 1 ELSE NextHeight
  /\ missed' = (block = None \/ block.prev # best)
  /\ upd' = "wait"
  /\ UNCHANGED <<block, draft, made, submits, inHand, submitCh, work, call, baseVars>>

BlockWaited ==
  /\ upd = "wait"
  /\ best >= waitFor
  /\ upd' = "generate"
  /\ UNCHANGED <<block, draft, made, submits, waitFor, inHand, submitCh, work, call, missed, baseVars>>

(***************************************************************************)
(* submitWork.  The nonce and the timestamp go into the template, and the  *)
(* result is a block only if they were found for this very template.       *)
(***************************************************************************)
TakeSubmission ==
  /\ upd = "wait"
  /\ submitCh # <<>>
  /\ inHand' = Head(submitCh) /\ submitCh' = Tail(submitCh)
  /\ upd' = "submit"
  /\ UNCHANGED <<block, draft, made, submits, waitFor, work, call, missed, baseVars>>

\* Mutant: a new template is made after a failure, too.
RefuseWork ==
  /\ upd' = "generate"
  /\ UNCHANGED <<inHand, call>>

\* Mutant: only a success is answered.
RefuseSilently == upd' = "look" /\ inHand' = None /\ UNCHANGED call

\* A submission that fails leaves the template, but for its nonce and timestamp, and
\* is answered at once.
RefuseSubmission == upd' = "look" /\ Reply

SubmitWork ==
  /\ upd = "submit"
  /\ IF /\ block # None /\ inHand.work.prev = block.prev
        /\ inHand.work.id = block.id /\ inHand.solved
     THEN /\ ProcessBlock(block.prev)
          /\ upd' = "announce"
          /\ UNCHANGED <<inHand, call>>
     ELSE RefuseSubmission /\ UNCHANGED best
  /\ UNCHANGED <<block, draft, made, submits, waitFor, submitCh, work, missed, newBlockCh>>

AnnounceWork ==
  /\ upd = "announce"
  /\ Announce(block.prev + 1)
  /\ upd' = "generate"
  /\ UNCHANGED <<best, block, draft, made, submits, waitFor, inHand, submitCh, work, call, missed>>
-----------------------------------------------------------------------------
GetWork(m) ==
  /\ call[m] = "idle"
  /\ block # None
  /\ ~Locked
  /\ work' = [work EXCEPT ![m] = block]
  /\ UNCHANGED <<block, draft, made, submits, upd, waitFor, inHand, submitCh, call, missed, baseVars>>

\* SubmitWork of the caller: the header it holds, solved or not, as often as it likes.
Submit(m, solved) ==
  /\ call[m] = "idle"
  /\ work[m] # None
  /\ submits > 0 /\ submits' = submits - 1
  /\ solved => work[m].prev < MaxHeight
  /\ Len(submitCh) < SubmitCap
  /\ submitCh' = Append(submitCh, [miner |-> m, work |-> work[m], solved |-> solved])
  /\ call' = [call EXCEPT ![m] = "sent"]
  /\ UNCHANGED <<block, draft, made, upd, waitFor, inHand, work, missed, baseVars>>

Updater ==
  \/ GenerateBlock \/ Publish \/ Look \/ BlockWaited
  \/ TakeSubmission \/ SubmitWork \/ AnnounceWork
=============================================================================
