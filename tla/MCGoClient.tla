----------------------------- MODULE MCGoClient -----------------------------
(* A bounded client for TLC.                                               *)
EXTENDS GoClient

\* A client with a token that retries rejections; one without a token that
\* does not, on an open server; and clients that never reconnect: with a token,
\* without one on a server that requires it, and on an open server.
MCOptions ==
  { [token |-> TRUE, noReconnect |-> FALSE, needAuth |-> TRUE,
     retry |-> 1, maxAttempts |-> 1, refreshes |-> 1],
    [token |-> FALSE, noReconnect |-> FALSE, needAuth |-> FALSE,
     retry |-> -1, maxAttempts |-> 0, refreshes |-> 2],
    [token |-> TRUE, noReconnect |-> TRUE, needAuth |-> TRUE,
     retry |-> -1, maxAttempts |-> -1, refreshes |-> 1],
    [token |-> FALSE, noReconnect |-> TRUE, needAuth |-> TRUE,
     retry |-> -1, maxAttempts |-> 0, refreshes |-> 2],
    [token |-> FALSE, noReconnect |-> TRUE, needAuth |-> FALSE,
     retry |-> 0, maxAttempts |-> 0, refreshes |-> 2] }

MCServerMax == {1}
=============================================================================
