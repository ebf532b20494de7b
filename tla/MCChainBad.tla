----------------------------- MODULE MCChainBad -----------------------------
(***************************************************************************)
(* A block tree for Chain in which things go wrong:                        *)
(*   g - a1 - a2 - a3      the longest branch, of less work than b2        *)
(*          \ u2           u2 spends again what a1 spent                   *)
(*     \ b1 - b2           blocks after b1 are of work 3                   *)
(*          \ m2           m2 spends the coinbase output of b1 too early   *)
(*     \ x1                x1 claims the height 2                          *)
(* and a2 may be ahead of the clock.                                       *)
(***************************************************************************)
EXTENDS Chain, TLC

CONSTANTS g, a1, a2, a3, u2, b1, b2, m2, x1

MCBlock == {g, a1, a2, a3, u2, b1, b2, m2, x1}
MCPrev ==
  (g :> None) @@ (a1 :> g) @@ (a2 :> a1) @@ (a3 :> a2) @@ (u2 :> a1)
  @@ (b1 :> g) @@ (b2 :> b1) @@ (m2 :> b1) @@ (x1 :> g)
MCHeight ==
  (g :> 0) @@ (a1 :> 1) @@ (a2 :> 2) @@ (a3 :> 3) @@ (u2 :> 2)
  @@ (b1 :> 1) @@ (b2 :> 2) @@ (m2 :> 2) @@ (x1 :> 2)
MCNextWork == [b \in MCBlock |-> IF b = b1 THEN 3 ELSE 1]
MCWork == [b \in MCBlock |-> IF b \in {b2, m2} THEN 3 ELSE 1]
MCBranch ==
  (g :> <<g>>) @@ (a1 :> <<g, a1>>) @@ (a2 :> <<g, a1, a2>>) @@ (a3 :> <<g, a1, a2, a3>>)
  @@ (u2 :> <<g, a1, u2>>) @@ (b1 :> <<g, b1>>)
  @@ (b2 :> <<g, b1, b2>>) @@ (m2 :> <<g, b1, m2>>) @@ (x1 :> <<g, x1>>)
MCTotalWork ==
  (g :> 1) @@ (a1 :> 2) @@ (a2 :> 3) @@ (a3 :> 4) @@ (u2 :> 3)
  @@ (b1 :> 2) @@ (b2 :> 5) @@ (m2 :> 5) @@ (x1 :> 2)

MCOutput == {"g", "a1", "a2", "a3", "u2", "b1", "b2", "m2", "x1", "x", "y", "z"}

Coinbase(o) == [spends |-> {}, outs |-> {o}, fail |-> FALSE]
Pay(ins, outs) == [spends |-> ins, outs |-> outs, fail |-> FALSE]
Only(o) == <<Coinbase(o)>>

MCTxs ==
  (g :> <<Coinbase("g"), Pay({}, {"x"})>>)
  @@ (a1 :> <<Coinbase("a1"), Pay({"x"}, {"y"})>>)
  @@ (a2 :> <<Coinbase("a2"), Pay({"g"}, {"z"})>>)
  @@ (a3 :> Only("a3"))
  @@ (u2 :> <<Coinbase("u2"), Pay({"x"}, {"z"})>>)
  @@ (b1 :> Only("b1"))
  @@ (b2 :> <<Coinbase("b2"), Pay({"x"}, {"y"})>>)
  @@ (m2 :> <<Coinbase("m2"), Pay({"b1"}, {"z"})>>)
  @@ (x1 :> Only("x1"))
=============================================================================
