------------------------------ MODULE CPUMiner ------------------------------
(***************************************************************************)
(* cpuminer.CPUMiner: Start launches a controller, which launches workers; *)
(* Stop closes the channel quit, and SetNumWorkers tells the controller,   *)
(* holding the mutex until it has heard.  The controller reads the field   *)
(* quit anew each time round, so after a restart it may wait on the        *)
(* channel of the next controller.                                         *)
(***************************************************************************)
EXTENDS MiningBase

CONSTANTS
  Caller,           \* goroutines that call SetNumWorkers
  Controller,       \* controllers, 1..n in the order of the calls of Start: a bound
  Worker,           \* worker goroutines at one time: a bound
  DefaultWorkers,   \* defaultNumWorkers
  Numbers           \* the numbers SetNumWorkers is called with

VARIABLES
  started, numWorkers,  \* the fields of CPUMiner
  quit,             \* CPUMiner.quit: the controller it was made for, 0 if none
  closedQuit,       \* the quit channels that are closed
  calls,            \* how many more calls there will be
  op, arg,          \* op[p]: where SetNumWorkers(arg[p]) of p stands; it holds the mutex at "notify"
  ctl,              \* ctl[c]: where the controller stands
  waits,            \* waits[c]: the quit channel it selects on
  workers,          \* workers[c]: runningWorkers
  told,             \* workers whose quit channel is closed
  wpc, wprev        \* where each worker stands, and the block its template is on

minerVars == <<started, numWorkers, quit, closedQuit, calls, op, arg, ctl, waits, workers, told, wpc, wprev>>

MinerTypeOK ==
  /\ started \in BOOLEAN /\ numWorkers \in Nat
  /\ quit \in Controller \cup {0} /\ closedQuit \subseteq Controller
  /\ calls \in Nat
  /\ op \in [Caller -> {"none", "set", "notify"}] /\ arg \in [Caller -> Nat]
  /\ ctl \in [Controller -> {"none", "launch", "loop", "select", "over", "panic"}]
  /\ waits \in [Controller -> Controller \cup {0}]
  /\ workers \in [Controller -> Seq(Worker)]
  /\ told \subseteq Worker
  /\ wpc \in [Worker -> {"none", "top", "solve", "announce"}]
  /\ wprev \in [Worker -> 0..MaxHeight]

MinerInit(n) ==
  /\ started = FALSE /\ numWorkers = DefaultWorkers /\ quit = 0 /\ closedQuit = {} /\ calls = n
  /\ op = [p \in Caller |-> "none"] /\ arg = [p \in Caller |-> 0]
  /\ ctl = [c \in Controller |-> "none"] /\ waits = [c \in Controller |-> 0]
  /\ workers = [c \in Controller |-> <<>>] /\ told = {}
  /\ wpc = [w \in Worker |-> "none"] /\ wprev = [w \in Worker |-> 0]

Panicked == \E c \in Controller : ctl[c] = "panic"

Unlocked == \A p \in Caller : op[p] # "notify"

Call == Unlocked /\ calls > 0 /\ calls' = calls - 1
-----------------------------------------------------------------------------
\* A call that finds nothing to do changes nothing.
Start ==
  /\ Call
  /\ ~started
  /\ \E c \in Controller : /\ ctl[c] = "none" /\ \A d \in Controller : d < c => ctl[d] # "none"
                           /\ quit' = c
                           /\ ctl' = [ctl EXCEPT ![c] = "launch"]
  /\ started' = TRUE
  /\ UNCHANGED <<numWorkers, closedQuit, op, arg, waits, workers, told, wpc, wprev, baseVars>>

\* Mutant: the miner still counts as started.
StopStarted ==
  /\ closedQuit' = IF started THEN closedQuit \cup {quit} ELSE closedQuit
  /\ UNCHANGED started

\* The body of Stop, and of the call that SetNumWorkers(0) makes first.
StopMining ==
  /\ started' = FALSE
  /\ closedQuit' = IF started THEN closedQuit \cup {quit} ELSE closedQuit

Stop ==
  /\ Call
  /\ started
  /\ StopMining
  /\ UNCHANGED <<numWorkers, quit, op, arg, ctl, waits, workers, told, wpc, wprev, baseVars>>

SetNumWorkers(p, n) ==
  /\ Call
  /\ op[p] = "none"
  /\ IF n = 0 THEN StopMining ELSE UNCHANGED <<started, closedQuit>>
  /\ op' = [op EXCEPT ![p] = "set"] /\ arg' = [arg EXCEPT ![p] = n]
  /\ UNCHANGED <<numWorkers, quit, ctl, waits, workers, told, wpc, wprev, baseVars>>

\* ... takes the mutex a second time; a running miner may have been started between.
SetField(p) ==
  /\ op[p] = "set"
  /\ Unlocked
  /\ numWorkers' = arg[p] /\ arg' = [arg EXCEPT ![p] = 0]
  /\ op' = [op EXCEPT ![p] = IF started THEN "notify" ELSE "none"]
  /\ UNCHANGED <<started, quit, closedQuit, calls, ctl, waits, workers, told, wpc, wprev, baseVars>>
-----------------------------------------------------------------------------
(***************************************************************************)
(* miningWorkerController.                                                 *)
(***************************************************************************)
Idle == {w \in Worker : wpc[w] = "none"}

\* n new workers for controller c.
LaunchWorkers(c, n) ==
  \E new \in [1..n -> Idle] :
    /\ \A j, k \in 1..n : j < k => new[j] < new[k]
    /\ workers' = [workers EXCEPT ![c] = @ \o new]
    /\ wpc' = [w \in Worker |-> IF \E k \in 1..n : new[k] = w THEN "top" ELSE wpc[w]]

Launch(c) ==
  /\ ctl[c] = "launch"
  /\ LaunchWorkers(c, numWorkers)
  /\ ctl' = [ctl EXCEPT ![c] = "loop"]
  /\ UNCHANGED <<started, numWorkers, quit, closedQuit, calls, op, arg, waits, told, wprev, baseVars>>

Select(c) ==
  /\ ctl[c] = "loop"
  /\ waits' = [waits EXCEPT ![c] = quit]
  /\ ctl' = [ctl EXCEPT ![c] = "select"]
  /\ UNCHANGED <<started, numWorkers, quit, closedQuit, calls, op, arg, workers, told, wpc, wprev, baseVars>>

\* The counter of the loop that stops workers is a uint64, so for 0 it never
\* ends: the index wraps and the controller panics.
Update(c, p) ==
  /\ ctl[c] = "select"
  /\ op[p] = "notify"
  /\ op' = [op EXCEPT ![p] = "none"]
  /\ LET running == Len(workers[c])
     IN \/ /\ numWorkers >= running
           /\ LaunchWorkers(c, numWorkers - running)
           /\ ctl' = [ctl EXCEPT ![c] = "loop"]
           /\ UNCHANGED told
        \/ /\ numWorkers < running
           /\ told' = told \cup {workers[c][k] : k \in (numWorkers + 1)..running}
           /\ workers' = [workers EXCEPT ![c] = SubSeq(@, 1, numWorkers)]
           /\ ctl' = [ctl EXCEPT ![c] = IF numWorkers = 0 THEN "panic" ELSE "loop"]
           /\ UNCHANGED wpc
  /\ UNCHANGED <<started, numWorkers, quit, closedQuit, calls, arg, waits, wprev, baseVars>>

Quit(c) ==
  /\ ctl[c] = "select"
  /\ waits[c] \in closedQuit
  /\ told' = told \cup {workers[c][k] : k \in 1..Len(workers[c])}
  /\ workers' = [workers EXCEPT ![c] = <<>>]
  /\ ctl' = [ctl EXCEPT ![c] = "over"]
  /\ UNCHANGED <<started, numWorkers, quit, closedQuit, calls, op, arg, waits, wpc, wprev, baseVars>>

Control(c) == Launch(c) \/ Select(c) \/ Quit(c) \/ \E p \in Caller : Update(c, p)
-----------------------------------------------------------------------------
(***************************************************************************)
(* generateBlocks and solveBlock.                                          *)
(***************************************************************************)
ToTop(w) == wpc' = [wpc EXCEPT ![w] = "top"] /\ wprev' = [wprev EXCEPT ![w] = 0]

Exit(w) ==
  /\ wpc[w] = "top" /\ w \in told
  /\ wpc' = [wpc EXCEPT ![w] = "none"]
  /\ told' = told \ {w}
  /\ UNCHANGED <<started, numWorkers, quit, closedQuit, calls, op, arg, ctl, waits, workers, wprev, baseVars>>

NewTemplate(w) ==
  /\ wpc[w] = "top" /\ w \notin told
  /\ wpc' = [wpc EXCEPT ![w] = "solve"]
  /\ wprev' = [wprev EXCEPT ![w] = best]
  /\ UNCHANGED <<started, numWorkers, quit, closedQuit, calls, op, arg, ctl, waits, workers, told, baseVars>>

\* Mutant: the worker looks for a newer block only.
StaleOnly(w) == best >= wprev[w] + 1

\* solveBlock ends without a block: quit, or a ticker that finds the work stale.
Abandons(w) == w \in told \/ best >= wprev[w] + 1

Abandon(w) ==
  /\ wpc[w] = "solve"
  /\ Abandons(w)
  /\ ToTop(w)
  /\ UNCHANGED <<started, numWorkers, quit, closedQuit, calls, op, arg, ctl, waits, workers, told, baseVars>>

\* A nonce is found, and ProcessBlock takes the block; or no nonce is, or it does not.
Solve(w) ==
  /\ wpc[w] = "solve"
  /\ \/ /\ wprev[w] < MaxHeight
        /\ ProcessBlock(wprev[w])
        /\ wpc' = [wpc EXCEPT ![w] = "announce"]
        /\ UNCHANGED wprev
     \/ ToTop(w) /\ UNCHANGED best
  /\ UNCHANGED <<newBlockCh, started, numWorkers, quit, closedQuit, calls, op, arg, ctl, waits, workers, told>>

AnnounceSolved(w) ==
  /\ wpc[w] = "announce"
  /\ Announce(wprev[w] + 1)
  /\ ToTop(w)
  /\ UNCHANGED <<best, started, numWorkers, quit, closedQuit, calls, op, arg, ctl, waits, workers, told>>

Work(w) == Exit(w) \/ NewTemplate(w) \/ Abandon(w) \/ AnnounceSolved(w)
=============================================================================
