------------------------------ MODULE MCTasks ------------------------------
(* An instance of Tasks. *)
EXTENDS Tasks

(* Calls of the package, fewer where the tree is larger. *)
MCMaxCalls == [request |-> 2, shared |-> 1, detached |-> 2, scoped |-> 1]
=============================================================================
