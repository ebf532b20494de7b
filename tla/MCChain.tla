------------------------------ MODULE MCChain -------------------------------
(***************************************************************************)
(* A block tree for Chain with two forks: a1-a2-a3, b1-b2 and b1-c2; b2   *)
(* and c2 are siblings.  Reorganisations go from a1 to b2 or c2 and back   *)
(* to a3.  Transactions reappear on both sides of the fork,                *)
(* coinbase outputs are spent, and one transaction has a failed status.    *)
(***************************************************************************)
EXTENDS Chain, TLC

CONSTANTS g, a1, a2, a3, b1, b2, c2

MCBlock == {g, a1, a2, a3, b1, b2, c2}
MCPrev == (g :> None) @@ (a1 :> g) @@ (a2 :> a1) @@ (a3 :> a2) @@ (b1 :> g) @@ (b2 :> b1) @@ (c2 :> b1)
MCHeight == (g :> 0) @@ (a1 :> 1) @@ (a2 :> 2) @@ (a3 :> 3) @@ (b1 :> 1) @@ (b2 :> 2) @@ (c2 :> 2)
UniformWork == [b \in MCBlock |-> 1]

MCBranch ==
  (g :> <<g>>) @@ (a1 :> <<g, a1>>) @@ (a2 :> <<g, a1, a2>>) @@ (a3 :> <<g, a1, a2, a3>>)
  @@ (b1 :> <<g, b1>>) @@ (b2 :> <<g, b1, b2>>) @@ (c2 :> <<g, b1, c2>>)
MCTotalWork == [b \in MCBlock |-> MCHeight[b] + 1]

MCOutput == {"g", "a1", "a2", "a3", "b1", "b2", "c2", "x", "y", "z", "w", "v"}
MCNonBTM == {"y"}

Coinbase(o) == [spends |-> {}, outs |-> {o}, fail |-> FALSE]
Pay(ins, outs) == [spends |-> ins, outs |-> outs, fail |-> FALSE]
FailedPay(ins, outs) == [spends |-> ins, outs |-> outs, fail |-> TRUE]

MCTxs ==
  (g :> <<Coinbase("g")>>)
  @@ (a1 :> <<Coinbase("a1"), Pay({"g"}, {"x", "y"})>>)
  @@ (a2 :> <<Coinbase("a2"), Pay({"a1"}, {"w"}), FailedPay({"x", "y"}, {"z"})>>)
  @@ (a3 :> <<Coinbase("a3"), Pay({"w"}, {"v"})>>)
  @@ (b1 :> <<Coinbase("b1")>>)
  @@ (b2 :> <<Coinbase("b2"), Pay({"g"}, {"x", "y"}), Pay({"b1"}, {"w"})>>)
  @@ (c2 :> <<Coinbase("c2")>>)
=============================================================================
