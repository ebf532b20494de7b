---------------------------- MODULE MCChainPool -----------------------------
(***************************************************************************)
(* Three transactions: p pays from the genesis output, c spends an output  *)
(* of p, d spends outputs of both.  On the branch a1-a2 p and c confirm;   *)
(* on b1 a payment that conflicts with p does.                             *)
(***************************************************************************)
EXTENDS ChainPool, TLC

CONSTANTS g, a1, a2, b1, c1, c2

MCBlock == {g, a1, a2, b1}
MCPrev == (g :> None) @@ (a1 :> g) @@ (a2 :> a1) @@ (b1 :> g)
MCHeight == (g :> 0) @@ (a1 :> 1) @@ (a2 :> 2) @@ (b1 :> 1)
UniformWork == [b \in MCBlock |-> 1]
MCBranch == (g :> <<g>>) @@ (a1 :> <<g, a1>>) @@ (a2 :> <<g, a1, a2>>) @@ (b1 :> <<g, b1>>)
MCTotalWork == [b \in MCBlock |-> MCHeight[b] + 1]

MCOutput == {"g", "p1", "p2", "c", "x", "d", "q"}
MCNonBTM == {"x"}

Coinbase == [spends |-> {}, outs |-> {}, fail |-> FALSE]
GenesisTx == [spends |-> {}, outs |-> {"g"}, fail |-> FALSE]
p == [spends |-> {"g"}, outs |-> {"p1", "p2"}, fail |-> FALSE]
c == [spends |-> {"p1"}, outs |-> {"c", "x"}, fail |-> TRUE]
d == [spends |-> {"p2", "c"}, outs |-> {"d"}, fail |-> FALSE]
q == [spends |-> {"g"}, outs |-> {"q"}, fail |-> FALSE]
bad == [spends |-> {"g"}, outs |-> {}, fail |-> TRUE]

Bad == {bad}
Four == {p, c, d, bad}
MCOffers == (c1 :> Four) @@ (c2 :> {p})

MCTxs ==
  (g :> <<GenesisTx>>) @@ (a1 :> <<Coinbase, p>>) @@ (a2 :> <<Coinbase, c>>) @@ (b1 :> <<Coinbase, q>>)
=============================================================================
