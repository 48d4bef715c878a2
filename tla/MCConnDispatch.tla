-------------------------- MODULE MCConnDispatch --------------------------
(* Instances of ConnDispatch.  One trigger key is enough for the orders of  *)
(* subscribes, refreshes and triggers; with MovingKeys the change of the    *)
(* data moves a query from one key to another.                              *)
EXTENDS ConnDispatch

CONSTANTS k1, k2

OneKey == [p \in Params |-> [v \in 0..MaxVersion |-> Keys]]

MovingKeys == [p \in Params |-> [v \in 0..MaxVersion |-> IF v = 0 THEN {k1} ELSE {k2}]]
=============================================================================
