--------------------------- MODULE MCChainInBlock ---------------------------
(***************************************************************************)
(* A block tree for Chain in which the payments of a1 build on each other: *)
(* the second spends the output x that the first creates.                  *)
(*   g - a1                                                                *)
(*     \ b1 - b2                                                           *)
(***************************************************************************)
EXTENDS Chain, TLC

CONSTANTS g, a1, b1, b2

MCBlock == {g, a1, b1, b2}
MCPrev == (g :> None) @@ (a1 :> g) @@ (b1 :> g) @@ (b2 :> b1)
MCHeight == (g :> 0) @@ (a1 :> 1) @@ (b1 :> 1) @@ (b2 :> 2)
UniformWork == [b \in MCBlock |-> 1]
MCTotalWork == [b \in MCBlock |-> MCHeight[b] + 1]
MCBranch == (g :> <<g>>) @@ (a1 :> <<g, a1>>) @@ (b1 :> <<g, b1>>) @@ (b2 :> <<g, b1, b2>>)

MCOutput == {"g", "a1", "b1", "b2", "x", "y"}

Coinbase(o) == [spends |-> {}, outs |-> {o}, fail |-> FALSE]
Pay(ins, outs) == [spends |-> ins, outs |-> outs, fail |-> FALSE]

MCTxs ==
  (g :> <<Coinbase("g")>>)
  @@ (a1 :> <<Coinbase("a1"), Pay({"g"}, {"x"}), Pay({"x"}, {"y"})>>)
  @@ (b1 :> <<Coinbase("b1")>>)
  @@ (b2 :> <<Coinbase("b2")>>)
=============================================================================
