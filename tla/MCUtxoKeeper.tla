---------------------------- MODULE MCUtxoKeeper ----------------------------
(***************************************************************************)
(* Outputs of one account and asset: two for the races, the second a       *)
(* coinbase output, and five for the choice.                               *)
(***************************************************************************)
EXTENDS UtxoKeeper, TLC

CONSTANTS a, b, c, d, e

Few == {a, b}
FewAmounts == (a :> 2) @@ (b :> 1)
FewHeights == (a :> 0) @@ (b :> 1)
FewOwners == [o \in Few |-> "purse"]

More == {a, b, c, d, e}
MoreAmounts == (a :> 4) @@ (b :> 3) @@ (c :> 2) @@ (d :> 2) @@ (e :> 2)
MoreHeights == [o \in More |-> 0]
MoreOwners == [o \in More |-> "purse"]
=============================================================================
