------------------------------- MODULE MCTreap ------------------------------
EXTENDS Treap

(* Prices up to the limits of int, which the ticks of a range may pass.    *)
MCMinInt == -2
MCMaxInt == 2
MCPrices == MCMinInt .. MCMaxInt
MCQuantities == {-1, 0, 1, 2}

(* Nothing reads the arguments of the latest call but ImplementsMap, which *)
(* TLC checks of every step.                                               *)
WithoutCall == treapVars
=============================================================================
