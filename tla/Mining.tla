------------------------------- MODULE Mining -------------------------------
(***************************************************************************)
(* The CPU miner, the pool for external miners and netsync's broadcast of  *)
(* their blocks, on one chain that also grows from outside.                *)
(***************************************************************************)
EXTENDS MiningPool, CPUMiner

\* [height, calls, pool, submits]: the best block and the bounds to start from.  A
\* node always has a pool; to leave it out in a start state makes the instance smaller.
CONSTANT Setup

ASSUME SetupAssumption ==
  Setup \subseteq [height : 0..MaxHeight, calls : Nat, pool : BOOLEAN, submits : Nat]

vars == <<baseVars, poolVars, minerVars>>

TypeOK == BaseTypeOK /\ PoolTypeOK /\ MinerTypeOK

Init == \E s \in Setup : BaseInit(s.height) /\ PoolInit(s.pool, s.submits) /\ MinerInit(s.calls)

ControlMiner ==
  \/ Start \/ Stop
  \/ \E p \in Caller : SetField(p) \/ \E n \in Numbers : SetNumWorkers(p, n)
  \/ \E c \in Controller : Control(c)

Next ==
  /\ ~Panicked
  /\ \/ (BlockArrives \/ MinedBroadcast) /\ UNCHANGED <<poolVars, minerVars>>
     \/ Updater /\ UNCHANGED minerVars
     \/ (\E m \in Miner : GetWork(m) \/ \E solved \in BOOLEAN : Submit(m, solved)) /\ UNCHANGED minerVars
     \/ ControlMiner /\ UNCHANGED poolVars
     \/ (\E w \in Worker : Work(w) \/ Solve(w)) /\ UNCHANGED poolVars

Spec == Init /\ [][Next]_vars

\* The goroutines of the node run; callers, external miners and luck are not fair.
FairSpec ==
  /\ Spec
  /\ WF_vars(MinedBroadcast /\ UNCHANGED <<poolVars, minerVars>>)
  /\ WF_vars(Updater /\ UNCHANGED minerVars /\ ~Panicked)
  /\ \A p \in Caller : WF_vars(SetField(p) /\ UNCHANGED poolVars /\ ~Panicked)
  /\ \A c \in Controller : WF_vars(Control(c) /\ UNCHANGED poolVars /\ ~Panicked)
  /\ \A w \in Worker : WF_vars(Work(w) /\ UNCHANGED poolVars /\ ~Panicked)
-----------------------------------------------------------------------------
(***************************************************************************)
(* submitWork knows a template by its previous block: no two templates on  *)
(* the same block are ever given out, because blockUpdater makes a new one *)
(* only after the best block has moved.  Work that was done for another    *)
(* template is therefore never put into this one.                          *)
(***************************************************************************)
PrevIdentifies ==
  \A m \in Miner : block # None /\ work[m] # None /\ work[m].prev = block.prev => work[m] = block

(***************************************************************************)
(* The pool's template follows the best block, unless the best block moved *)
(* between generateBlock's look at it and blockUpdater's.                  *)
(***************************************************************************)
TemplateFollows == []<>(upd = "off" \/ missed \/ Panicked \/ (block # None /\ block.prev = best))

(***************************************************************************)
(* Every caller of SubmitWork gets its reply, though blockUpdater waits on *)
(* the channel to netsync with the mutex held.                             *)
(***************************************************************************)
SubmitReplied == \A m \in Miner : (call[m] = "sent") ~> (call[m] = "idle" \/ Panicked)

(***************************************************************************)
(* Stop stops: if the CPU miner is not started again, no worker is left in *)
(* the end, whatever controllers an earlier restart has left behind.       *)
(***************************************************************************)
StopsAll == <>[](~started) => <>(Panicked \/ [](\A w \in Worker : wpc[w] = "none"))

(***************************************************************************)
(* SetNumWorkers returns and releases the mutex: some controller is there  *)
(* to take its notice.                                                     *)
(***************************************************************************)
NoticeTaken == \A p \in Caller : (op[p] # "none") ~> (op[p] = "none" \/ Panicked)
=============================================================================
