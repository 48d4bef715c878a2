---------------------------- MODULE MCUserIndex ----------------------------
EXTENDS UserIndex, TLC

(* Users and calls are interchangeable; connections are not, since calls *)
(* may overlap on some of them only.                                     *)
Interchangeable == Permutations(Users) \cup Permutations(Calls)
=============================================================================
