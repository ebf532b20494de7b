------------------------------ MODULE MCMining ------------------------------
(***************************************************************************)
(* The CPU miner under four calls, the pool under two submissions, and    *)
(* the two beside each other.                                              *)
(***************************************************************************)
EXTENDS Mining

MCSetup ==
  {[height |-> 1, calls |-> 4, pool |-> FALSE, submits |-> 0],
   [height |-> 0, calls |-> 0, pool |-> TRUE, submits |-> 2],
   [height |-> 1, calls |-> 1, pool |-> TRUE, submits |-> 1]}
=============================================================================
