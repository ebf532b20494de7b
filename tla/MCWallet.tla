------------------------------ MODULE MCWallet ------------------------------
(***************************************************************************)
(* Two branches, g-a1-a2 and g-b1-b2-b3: the wallet follows from a1 or a2  *)
(* to the other one.                                                       *)
(***************************************************************************)
EXTENDS Wallet, TLC

CONSTANTS g, a1, a2, b1, b2, b3

MCBlock == {g, a1, a2, b1, b2, b3}
MCPrev == (g :> None) @@ (a1 :> g) @@ (a2 :> a1) @@ (b1 :> g) @@ (b2 :> b1) @@ (b3 :> b2)
MCHeight == (g :> 0) @@ (a1 :> 1) @@ (a2 :> 2) @@ (b1 :> 1) @@ (b2 :> 2) @@ (b3 :> 3)
UniformWork == [b \in MCBlock |-> 1]
MCTotalWork == [b \in MCBlock |-> MCHeight[b] + 1]
MCBranch ==
  (g :> <<g>>) @@ (a1 :> <<g, a1>>) @@ (a2 :> <<g, a1, a2>>)
  @@ (b1 :> <<g, b1>>) @@ (b2 :> <<g, b1, b2>>) @@ (b3 :> <<g, b1, b2, b3>>)

MCOutput == {"g", "a1", "b1", "x", "y", "z", "w"}
MCNonBTM == {"x", "y", "z"}
MCProgram == [o \in MCOutput |-> IF o = "w" THEN "contract" ELSE IF o \in {"y", "b1"} THEN "q" ELSE "p"]

Coinbase(outs) == [spends |-> {}, outs |-> outs, fail |-> FALSE]
Pay(ins, outs) == [spends |-> ins, outs |-> outs, fail |-> FALSE]
FailedPay(ins, outs) == [spends |-> ins, outs |-> outs, fail |-> TRUE]

\* a1 and b2 issue x and spend it at once; b3 spends what a2 does and more.
MCTxs ==
  (g :> <<Coinbase({"g"})>>)
  @@ (a1 :> <<Coinbase({"a1"}), Pay({}, {"x"}), Pay({"x"}, {"y", "z"})>>)
  @@ (a2 :> <<Coinbase({}), FailedPay({"g", "z"}, {"w"})>>)
  @@ (b1 :> <<Coinbase({"b1"})>>)
  @@ (b2 :> <<Coinbase({}), Pay({}, {"x"}), Pay({"x"}, {"y", "z"})>>)
  @@ (b3 :> <<Coinbase({}), Pay({"g", "y"}, {"w"}), Pay({"b1"}, {})>>)
=============================================================================
