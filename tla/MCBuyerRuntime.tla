---------------------------- MODULE MCBuyerRuntime ----------------------------
(* BuyerRuntime for TLC: its executions are alike.                         *)
EXTENDS BuyerRuntime, TLC

Alike == Permutations(Executions)
===============================================================================
