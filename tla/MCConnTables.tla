---------------------------- MODULE MCConnTables ----------------------------
(* The two tables of a connection.  They share nothing but the closed flag, *)
(* so one of them moves in a behaviour and the other stays as it was;       *)
(* ConnDispatch has them together.                                          *)
(*                                                                          *)
(* Three subscription objects: an ID can be registered, dropped or          *)
(* overwritten, and registered again.  Four runs: an entry can be replaced  *)
(* by a request, by a refresh and again while the two replaced runs are     *)
(* still unwinding.                                                         *)
EXTENDS RequestTable, SubscriptionManager, TLC

VARIABLE
    moving      \* which of the two tables this behaviour is about

indexOnly == <<swept, byConn, byKey, obj>>
tableOnly == <<requests, reqSeq, run, ctx, victim, found>>

TablesInit == Init /\ SubInit /\ moving \in {"index", "table"}

TablesNext ==
    /\ \/ moving = "index" /\ SubNext /\ UNCHANGED tableOnly
       \/ moving = "table" /\ Next /\ UNCHANGED indexOnly
    /\ UNCHANGED moving

TablesSpec == TablesInit /\ [][TablesNext]_<<vars, subVars, moving>>

Symmetry == Permutations(Runs) \cup Permutations(Ids)
=============================================================================
