----------------------------- MODULE ConnTables -----------------------------
(***************************************************************************)
(* What the two tables behind a connection's handlers share: both are      *)
(* indexed by connection and by the ID the client gave a frame.  A client  *)
(* numbers its requests and its subscriptions with one counter.            *)
(***************************************************************************)
EXTENDS Connections

CONSTANT
    Ids         \* request and subscription IDs, chosen by the client
=============================================================================
