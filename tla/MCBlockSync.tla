----------------------------- MODULE MCBlockSync ----------------------------
(***************************************************************************)
(* A node, an honest peer hp and a faulty fp.  The honest one is on the    *)
(* branch a1-a2, where a2 is the checkpoint; w1 is on another branch, and  *)
(* u2 is a child of a1 without proof of work.                              *)
(***************************************************************************)
EXTENDS BlockSync, TLC

CONSTANTS g, a1, a2, w1, u2, hp, fp

MCBlock == {g, a1, a2, w1, u2}
MCPrev == (g :> None) @@ (a1 :> g) @@ (a2 :> a1) @@ (w1 :> g) @@ (u2 :> a1)
MCHeight == (g :> 0) @@ (a1 :> 1) @@ (a2 :> 2) @@ (w1 :> 1) @@ (u2 :> 2)
MCWork == [b \in MCBlock |-> 1]
MCTotalWork == [b \in MCBlock |-> MCHeight[b] + 1]
MCBranch ==
  (g :> <<g>>) @@ (a1 :> <<g, a1>>) @@ (a2 :> <<g, a1, a2>>) @@ (w1 :> <<g, w1>>)
  @@ (u2 :> <<g, a1, u2>>)
MCTxs == [b \in MCBlock |-> <<>>]
MCWorked == MCBlock \ {u2}
MCFastSync == {{}, {hp, fp}}
MCTip == (hp :> a2)
MCStrays ==
  [kind : {"headers"}, body : {<<>>, <<a1, a2>>, <<a1, u2>>, <<a1, u2, a2>>}]
  \cup [kind : {"blocks"}, body : {<<>>, <<a1, u2>>}]
  \cup [kind : {"block"}, body : {u2}]
=============================================================================
