------------------------- MODULE MCServerLifecycle -------------------------
(* Instances of ServerLifecycle.  The configurations name WebSockets ws1, *)
(* ws2 and byte streams st1; the two kinds behave differently, and the    *)
(* runs that check liveness use no symmetry.                              *)
EXTENDS ServerLifecycle
=============================================================================
