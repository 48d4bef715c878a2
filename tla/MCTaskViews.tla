---------------------------- MODULE MCTaskViews ----------------------------
(* Three loads: goroutines that broadcast at once, tasks of several         *)
(* starters while the client's user is set and it cancels, and a sub-task.  *)
EXTENDS TaskViews, TLC

CONSTANT u1

(* Two goroutines copy and send lists in every order. *)
Broadcasts == [starters |-> {Client}, topLevels |-> {TRUE}, busy |-> 2,
               setUsers |-> 0, clicks |-> 0]

(* The client, an anonymous one on another connection, a user over REST. *)
Buttons == [starters |-> {Client, <<9, NoUser>>, <<0, u1>>}, topLevels |-> {TRUE},
            busy |-> 1, setUsers |-> 2, clicks |-> 1]

(* A SharedSubTask is nobody's to cancel. *)
SubTask == [starters |-> {Client}, topLevels |-> {FALSE}, busy |-> 1,
            setUsers |-> 1, clicks |-> 1]

MCLoads == {Broadcasts, Buttons, SubTask}

(* Goroutines are alike. *)
Symmetry == Permutations(Goroutines)
=============================================================================
