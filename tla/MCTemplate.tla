----------------------------- MODULE MCTemplate -----------------------------
(***************************************************************************)
(* p spends the coinbase output of a1; d spends an output of p and one of  *)
(* the genesis block, and f spends that one too; e depends on none.  f     *)
(* confirms in b2, the sibling of an empty a2.                             *)
(***************************************************************************)
EXTENDS Template

CONSTANTS g, a1, a2, b2

MCBlock == {g, a1, a2, b2}
MCPrev == (g :> None) @@ (a1 :> g) @@ (a2 :> a1) @@ (b2 :> a1)
MCHeight == (g :> 0) @@ (a1 :> 1) @@ (a2 :> 2) @@ (b2 :> 2)
UniformWork == [b \in MCBlock |-> 1]
MCBranch == (g :> <<g>>) @@ (a1 :> <<g, a1>>) @@ (a2 :> <<g, a1, a2>>) @@ (b2 :> <<g, a1, b2>>)
MCTotalWork == [b \in MCBlock |-> MCHeight[b] + 1]

MCOutput == {"g", "h", "k", "p", "d"}
Coinbase(outs) == [spends |-> {}, outs |-> outs, fail |-> FALSE]
p == [spends |-> {"k"}, outs |-> {"p"}, fail |-> FALSE]
d == [spends |-> {"g", "p"}, outs |-> {"d"}, fail |-> FALSE]
f == [spends |-> {"g"}, outs |-> {}, fail |-> FALSE]
e == [spends |-> {"h"}, outs |-> {}, fail |-> FALSE]
MCPoolTx == {p, d, e, f}
MCGas == (p :> 1) @@ (d :> 1) @@ (e :> 2) @@ (f :> 1)

MCTxs ==
  (g :> <<Coinbase({}), Coinbase({"g", "h"})>>) @@ (a1 :> <<Coinbase({"k"})>>) @@ (a2 :> <<Coinbase({})>>)
  @@ (b2 :> <<Coinbase({}), f>>)
=============================================================================
