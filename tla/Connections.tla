---------------------------- MODULE Connections ----------------------------
(***************************************************************************)
(* What every table of connections is about: the connections themselves    *)
(* and the flag closeWithCause sets on one, once, under its c.mu.          *)
(***************************************************************************)
CONSTANT
    Conns       \* connections

VARIABLE
    closed      \* closed[c]: Conn.closed
=============================================================================
