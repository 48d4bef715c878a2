------------------------------ MODULE GoClient ------------------------------
(***************************************************************************)
(* The supervisor of the Go client (client/client.go) with the calls and   *)
(* token refreshes that run on the connections it brings up.               *)
(*                                                                         *)
(* One goroutine (start, then run) dials, reads the first frame,           *)
(* authenticates, publishes the connection, waits for it to drop and       *)
(* starts over.  Every connection has a reader goroutine that routes       *)
(* frames.  Call and RefreshAuth run on goroutines of the application, and *)
(* shutdown runs on whichever goroutine calls it first.                    *)
(*                                                                         *)
(* A step is one critical section of Client.mu, one channel operation or   *)
(* one frame.  The server and the network are external: while a link is    *)
(* up, a reader may meet any frame the server can send at that point, and  *)
(* a link may break between any two steps.  A frame that was sent but not  *)
(* read when the link breaks is a frame never read, so links need no       *)
(* queues.                                                                 *)
(***************************************************************************)
EXTENDS Integers, Sequences, FiniteSets

CONSTANTS
  Calls,         \* goroutines inside Call, one call each
  Refreshers,    \* goroutines that call RefreshAuth
  MaxRefresh,    \* bound: RefreshAuth calls of each under any options
  MaxConns,      \* bound: successful dials
  CountCap,      \* bound: attempts and rejections are counted up to it
  OptionSet,     \* records the client may be configured with, see Options
  ServerMax      \* ReconnectMaxAttempts values a config frame may carry

\* The options that decide control flow.  token: AuthToken is set; retry:
\* ReconnectOnRejected.MaxAttempts, or -1 when it is nil; maxAttempts:
\* ReconnectMaxAttempts; needAuth: the server requires authentication;
\* refreshes: bound, the RefreshAuth calls of each refresher.
Options == [token : BOOLEAN, noReconnect : BOOLEAN, needAuth : BOOLEAN,
            retry : Int, maxAttempts : Int, refreshes : 0..MaxRefresh]

ASSUME ClientAssumption ==
  /\ MaxConns \in Nat \ {0} /\ MaxRefresh \in Nat /\ CountCap \in Nat \ {0}
  /\ OptionSet \subseteq Options
  /\ ServerMax \subseteq 0..CountCap - 1
  /\ \A o \in OptionSet : o.retry < CountCap /\ o.maxAttempts < CountCap
  /\ Calls \cap Refreshers = {}
  /\ {"sup", "nobody"} \cap (Calls \cup Refreshers) = {}

VARIABLES
  opts,      \* the options of this client
  cl,        \* the fields guarded by Client.mu, and the closed channels;
             \* refused is history: a refusal by the server was reported
  sd,        \* the one effective shutdown call: its stage and what it took
  sup,       \* the supervisor: program counter and its local variables
  supGive,   \* calls markDisconnected took and has yet to fail
  link,      \* state of each connection's socket
  rd,        \* reader of each connection; to, res: what it is handing over
  auth,      \* authenticate as run by the supervisor and the refreshers
  authMu,    \* holder of Client.authMu
  wch,       \* the wait channel of each authenticate
  watch,     \* connWatch.authSent and authAbandoned of each connection
  srvAuths,  \* external: auth frames the server has yet to answer
  srvReqs,   \* external: requests the server has yet to answer
  pending,   \* Client.pending
  call,      \* goroutines inside Call
  ch         \* pendingCall.ch of each call

vars == <<opts, cl, sd, sup, supGive, link, rd, auth, authMu, wch, watch,
          srvAuths, srvReqs, pending, call, ch>>

Conns   == 1..MaxConns
Actors  == Refreshers \cup {"sup"}
NoConn  == 0
Nobody  == "nobody"
Errors  == {"none", "ErrClosed", "rejected", "lost", "gaveUp", "net"}
Results == {"answer"} \cup Errors

\* Who runs shutdown: the application, the supervisor, or the reader of c.
App == 0
Sup == -1

\* A reader with something to hand over, and one without.
Hand(pc, to, res, frame) == [pc |-> pc, to |-> to, res |-> res, frame |-> frame]
Idle(pc) == Hand(pc, Nobody, "none", <<>>)

\* Untouched groups.
authVars == <<auth, authMu, wch, watch, srvAuths>>
callVars == <<pending, call, ch, srvReqs>>

-----------------------------------------------------------------------------
(* Initial state: start() has built the Client and is about to connect.    *)

Init ==
  /\ opts \in OptionSet
  /\ cl = [closed |-> FALSE, closeErr |-> "none", conn |-> NoConn,
           watch |-> NoConn, ready |-> FALSE, state |-> "connecting",
           done |-> FALSE, cancelRun |-> FALSE, cancelled |-> FALSE,
           dropRejection |-> FALSE, lastRejection |-> FALSE, refused |-> FALSE,
           maxAttempts |-> IF opts.maxAttempts > 0 THEN opts.maxAttempts ELSE 0]
  /\ sd = [pc |-> "no", by |-> App, conn |-> NoConn, cancel |-> FALSE,
           give |-> {}]
  /\ sup = [pc |-> "dial", c |-> NoConn, first |-> TRUE, ctx |-> FALSE,
            err |-> "none", attempt |-> 0, rejections |-> 0, rejected |-> FALSE]
  /\ supGive = {}
  /\ link = [c \in Conns |-> "none"]
  /\ rd = [c \in Conns |-> Idle("none")]
  /\ auth = [a \in Actors |-> [pc |-> "idle", c |-> NoConn, w |-> NoConn, n |-> 0]]
  /\ authMu = Nobody
  /\ wch = [a \in Actors |-> [res |-> "none", frame |-> <<>>]]
  /\ watch = [authWait |-> Nobody, sent |-> [c \in Conns |-> 0],
              abandoned |-> [c \in Conns |-> 0]]
  /\ srvAuths = [c \in Conns |-> <<>>]
  /\ srvReqs = [c \in Conns |-> {}]
  /\ pending = {}
  /\ call = [k \in Calls |-> [pc |-> "idle", c |-> NoConn]]
  /\ ch = [k \in Calls |-> <<>>]

\* A counter that is only compared with limits below CountCap.
Count(n) == IF n < CountCap THEN n + 1 ELSE n

\* wireConn.close, and the close a failed read does.
closeLink(c) == link' = [link EXCEPT ![c] = "closed"]

-----------------------------------------------------------------------------
(* shutdown: only the first call has an effect.                            *)

\* The critical section that takes everything.  who resumes in pc "shutting".
shutdown(who, err) ==
  IF cl.closed
    THEN UNCHANGED <<cl, sd, pending>>
    ELSE /\ cl' = [cl EXCEPT !.closed = TRUE, !.closeErr = err, !.conn = NoConn,
                            !.refused = @ \/ err = "rejected"]
         /\ sd' = [pc |-> "close", by |-> who, conn |-> cl.conn,
                   cancel |-> cl.cancelRun, give |-> pending]
         /\ pending' = {}

\* cancel() and conn.close(), outside the lock.
shutdownCloses ==
  /\ sd.pc = "close"
  /\ sd' = [sd EXCEPT !.pc = "give"]
  /\ cl' = [cl EXCEPT !.cancelled = @ \/ sd.cancel]
  /\ IF sd.conn = NoConn THEN UNCHANGED link ELSE closeLink(sd.conn)
  /\ UNCHANGED <<opts, sup, supGive, rd, authVars, callVars>>

\* One pending call is given the close error.
shutdownGives(k) ==
  /\ sd.pc = "give" /\ k \in sd.give
  /\ sd' = [sd EXCEPT !.give = @ \ {k}]
  /\ ch' = [ch EXCEPT ![k] = Append(@, cl.closeErr)]
  /\ UNCHANGED <<opts, cl, sup, supGive, link, rd, authVars, pending, call, srvReqs>>

\* StateClosed is recorded and done is closed.
shutdownEnds ==
  /\ sd.pc = "give" /\ sd.give = {}
  /\ sd' = [sd EXCEPT !.pc = "done"]
  /\ cl' = [cl EXCEPT !.state = "closed", !.done = TRUE]
  /\ UNCHANGED <<opts, sup, supGive, link, rd, authVars, callVars>>

\* Client.Close, by the application, which has the client once start returned.
Close ==
  /\ ~sup.first /\ ~cl.closed
  /\ shutdown(App, "ErrClosed")
  /\ UNCHANGED <<opts, sup, supGive, link, rd, authVars, call, ch, srvReqs>>

\* The goroutine that ran shutdown has returned from it.
Returned(who) == cl.closed /\ (sd.by = who => sd.pc = "done")

\* setState: nothing is recorded once the client is closed.
setState(f, s) == IF f.closed THEN f ELSE [f EXCEPT !.state = s]

-----------------------------------------------------------------------------
(* connect: dial, first frame, token, authenticate, publish.               *)

\* connect returns an error of the given kind: start closes the client with
\* it, run returns if it was cancelled and otherwise goes round its loop.  A
\* rejection is reported as the error of the connect context if that context
\* has ended by the time connect returns, be it at the last moment (late).
connectFails(kind) ==
  \E late \in BOOLEAN :
    LET k == IF sup.ctx \/ late THEN "net" ELSE kind IN
    /\ sup' = IF sup.first
                THEN [sup EXCEPT !.pc = "failStart", !.err = k]
                ELSE IF cl.cancelled
                  THEN [sup EXCEPT !.pc = "end"]
                  ELSE [sup EXCEPT !.pc = "loop", !.rejected = (k = "rejected"),
                                   !.attempt = IF k = "rejected" THEN 0 ELSE @]
    /\ cl' = [cl EXCEPT !.refused = @ \/ k = "rejected"]

dial ==
  /\ sup.pc = "dial" /\ sup.c < MaxConns
  /\ sup' = [sup EXCEPT !.pc = "first", !.c = @ + 1, !.ctx = cl.cancelled]
  /\ link' = [link EXCEPT ![sup.c + 1] = "open"]
  /\ UNCHANGED <<opts, cl, sd, supGive, rd, authVars, callVars>>

dialFails ==
  /\ sup.pc = "dial"
  /\ connectFails("net")
  /\ UNCHANGED <<opts, sd, supGive, link, rd, authVars, callVars>>

\* The connect context ends (its timeout, or run was cancelled) before connect
\* returns, and the watchdog closes the connection.
watchdog ==
  /\ sup.pc \in {"first", "token", "auth", "mark"} /\ ~sup.ctx
  /\ sup' = [sup EXCEPT !.ctx = TRUE]
  /\ closeLink(sup.c)
  /\ UNCHANGED <<opts, cl, sd, supGive, rd, authVars, callVars>>

\* applyConfig: a server setting fills in only what Options left unset.
applyConfig(v) ==
  cl' = IF v > 0 /\ opts.maxAttempts = 0 THEN [cl EXCEPT !.maxAttempts = v] ELSE cl

\* The first frame is the config frame; the read loop starts.
firstConfig(v) ==
  /\ sup.pc = "first" /\ link[sup.c] = "open"
  /\ applyConfig(v)
  /\ rd' = [rd EXCEPT ![sup.c].pc = "reading"]
  /\ sup' = [sup EXCEPT !.pc = IF opts.token THEN "token" ELSE "mark"]
  /\ UNCHANGED <<opts, sd, supGive, link, authVars, callVars>>

\* The first frame is an error: the connection is rejected.
firstError ==
  /\ sup.pc = "first" /\ link[sup.c] = "open"
  /\ closeLink(sup.c)
  /\ connectFails("rejected")
  /\ UNCHANGED <<opts, sd, supGive, rd, authVars, callVars>>

\* The first frame cannot be read or decoded, or has another type.
firstFails ==
  /\ sup.pc = "first"
  /\ closeLink(sup.c)
  /\ connectFails("net")
  /\ UNCHANGED <<opts, sd, supGive, rd, authVars, callVars>>

\* Options.AuthToken returns a token, and authenticate starts.
tokenOk ==
  /\ sup.pc = "token"
  /\ auth["sup"].pc = "idle"
  /\ auth' = [auth EXCEPT !["sup"] = [pc |-> "lock", c |-> sup.c, w |-> sup.c, n |-> 0]]
  /\ sup' = [sup EXCEPT !.pc = "auth"]
  /\ UNCHANGED <<opts, cl, sd, supGive, link, rd, authMu, wch, watch, srvAuths, callVars>>

\* Options.AuthToken fails: close, wait for the reader, report.
tokenFails ==
  /\ sup.pc = "token"
  /\ closeLink(sup.c)
  /\ sup' = [sup EXCEPT !.pc = "unwind", !.err = "net"]
  /\ UNCHANGED <<opts, cl, sd, supGive, rd, authVars, callVars>>

\* authenticate has returned to connect.
authReturns ==
  /\ sup.pc = "auth" /\ auth["sup"].pc \in {"ok", "refused", "failed"}
  /\ IF auth["sup"].pc = "ok"
       THEN /\ sup' = [sup EXCEPT !.pc = "mark"]
            /\ UNCHANGED link
       ELSE /\ sup' = [sup EXCEPT !.pc = "unwind",
                         !.err = IF auth["sup"].pc = "refused" THEN "rejected" ELSE "net"]
            /\ closeLink(sup.c)
  /\ auth' = [auth EXCEPT !["sup"].pc = "idle"]
  /\ UNCHANGED <<opts, cl, sd, supGive, rd, authMu, wch, watch, srvAuths, callVars>>

\* <-watch.done on a failing path of connect.
unwind ==
  /\ sup.pc = "unwind" /\ rd[sup.c].pc = "ended"
  /\ connectFails(sup.err)
  /\ UNCHANGED <<opts, sd, supGive, link, rd, authVars, callVars>>

\* markConnected publishes the connection, unless the client was closed.
markConnected ==
  /\ sup.pc = "mark"
  /\ IF cl.closed
       THEN /\ closeLink(sup.c)
            /\ sup' = [sup EXCEPT !.pc = "unwind", !.err = "ErrClosed"]
            /\ UNCHANGED cl
       ELSE /\ cl' = [cl EXCEPT !.conn = sup.c, !.watch = sup.c, !.ready = TRUE]
            /\ sup' = [sup EXCEPT !.pc = "marked"]
            /\ UNCHANGED link
  /\ UNCHANGED <<opts, sd, supGive, rd, authVars, callVars>>

\* setState(StateConnected); a reconnect also clears lastRejection.
connected ==
  /\ sup.pc = "marked"
  /\ cl' = [setState(cl, "connected") EXCEPT !.lastRejection = @ /\ sup.first]
  /\ sup' = [sup EXCEPT !.pc = IF sup.first THEN "spawn" ELSE "up"]
  /\ UNCHANGED <<opts, sd, supGive, link, rd, authVars, callVars>>

\* start fails: the client is closed with the error, or with the reason it was
\* already closed for.
failStart ==
  /\ sup.pc = "failStart"
  /\ shutdown(Sup, sup.err)
  /\ sup' = [sup EXCEPT !.pc = "shutting"]
  /\ UNCHANGED <<opts, supGive, link, rd, authVars, call, ch, srvReqs>>

\* Faulty: start does not look at closed again.
spawn_NoRecheck ==
  /\ sup.pc = "spawn"
  /\ cl' = [cl EXCEPT !.cancelRun = TRUE]
  /\ sup' = [sup EXCEPT !.pc = "up", !.first = FALSE]
  /\ UNCHANGED <<opts, sd, supGive, link, rd, authVars, callVars>>

\* start publishes cancelRun and hands over to run.
spawn ==
  /\ sup.pc = "spawn"
  /\ cl' = [cl EXCEPT !.cancelRun = TRUE, !.cancelled = cl.closed]
  /\ sup' = [sup EXCEPT !.pc = "up", !.first = FALSE]
  /\ UNCHANGED <<opts, sd, supGive, link, rd, authVars, callVars>>

-----------------------------------------------------------------------------
(* run: wait for the drop, fail what was bound to it, reconnect.           *)

\* run was cancelled while connected: close, wait for the reader, return.
runCancelled ==
  /\ \/ sup.pc = "up" /\ cl.cancelled /\ closeLink(sup.c)
        /\ sup' = [sup EXCEPT !.pc = "leave"]
     \/ sup.pc = "leave" /\ rd[sup.c].pc = "ended"
        /\ sup' = [sup EXCEPT !.pc = "end"] /\ UNCHANGED link
  /\ UNCHANGED <<opts, cl, sd, supGive, rd, authVars, callVars>>

\* The connection dropped: its read loop has returned.
runDrop ==
  /\ sup.pc = "up" /\ rd[sup.c].pc = "ended"
  /\ sup' = [sup EXCEPT !.pc = "drop", !.rejected = cl.dropRejection]
  /\ cl' = [cl EXCEPT !.dropRejection = FALSE]
  /\ UNCHANGED <<opts, sd, supGive, link, rd, authVars, callVars>>

\* Faulty: the waiters' channel is not replaced.
markDisconnected_KeepsReady ==
  /\ sup.pc = "drop"
  /\ IF cl.conn # sup.c
       THEN sup' = [sup EXCEPT !.pc = "decide"] /\ UNCHANGED <<cl, supGive, pending>>
       ELSE /\ cl' = [cl EXCEPT !.conn = NoConn, !.watch = NoConn]
            /\ supGive' = pending
            /\ pending' = {}
            /\ sup' = [sup EXCEPT !.pc = "give"]
  /\ UNCHANGED <<opts, sd, link, rd, authVars, call, ch, srvReqs>>

\* markDisconnected takes every call bound to the connection.
markDisconnected ==
  /\ sup.pc = "drop"
  /\ IF cl.conn # sup.c
       THEN sup' = [sup EXCEPT !.pc = "decide"] /\ UNCHANGED <<cl, supGive, pending>>
       ELSE /\ cl' = [cl EXCEPT !.conn = NoConn, !.watch = NoConn, !.ready = FALSE]
            /\ supGive' = pending
            /\ pending' = {}
            /\ sup' = [sup EXCEPT !.pc = "give"]
  /\ UNCHANGED <<opts, sd, link, rd, authVars, call, ch, srvReqs>>

\* It fails them one by one, outside the lock,
disconnectedGives(k) ==
  /\ sup.pc = "give" /\ k \in supGive
  /\ supGive' = supGive \ {k}
  /\ ch' = [ch EXCEPT ![k] = Append(@, "lost")]
  /\ UNCHANGED <<opts, cl, sd, sup, link, rd, authVars, pending, call, srvReqs>>

\* and records StateConnecting.
disconnectedEnds ==
  /\ sup.pc = "give" /\ supGive = {}
  /\ cl' = setState(cl, "connecting")
  /\ sup' = [sup EXCEPT !.pc = "decide"]
  /\ UNCHANGED <<opts, sd, supGive, link, rd, authVars, callVars>>

supShutdown(err) ==
  /\ shutdown(Sup, err)
  /\ sup' = [sup EXCEPT !.pc = "shutting"]
  /\ UNCHANGED <<opts, supGive, link, rd, authVars, call, ch, srvReqs>>

\* NoReconnect closes the client; otherwise the reconnect loop starts.
runDecide ==
  /\ sup.pc = "decide"
  /\ IF opts.noReconnect
       THEN supShutdown(IF sup.rejected THEN "rejected" ELSE "lost")
       ELSE /\ sup' = [sup EXCEPT !.pc = "loop", !.attempt = 0,
                         !.rejections = IF sup.rejected THEN @ ELSE 0]
            /\ UNCHANGED <<opts, cl, sd, supGive, link, rd, authVars, callVars>>

\* The last outcome was a rejection: retry at a fixed delay, or close.
runRejected ==
  /\ sup.pc = "loop" /\ sup.rejected
  /\ IF opts.retry = -1 \/ (opts.retry > 0 /\ sup.rejections >= opts.retry)
       THEN supShutdown("rejected")
       ELSE /\ cl' = [cl EXCEPT !.lastRejection = TRUE]
            /\ sup' = [sup EXCEPT !.pc = "delay",
                         !.rejections = Count(@)]
            /\ UNCHANGED <<opts, sd, supGive, link, rd, authVars, callVars>>

\* The last outcome was a drop or a failed attempt: back off, or give up.
runBackoff ==
  /\ sup.pc = "loop" /\ ~sup.rejected
  /\ IF cl.maxAttempts > 0 /\ sup.attempt + 1 > cl.maxAttempts
       THEN supShutdown("gaveUp")
       ELSE /\ sup' = [sup EXCEPT !.pc = "delay", !.rejections = 0,
                         !.attempt = Count(@)]
            /\ UNCHANGED <<opts, cl, sd, supGive, link, rd, authVars, callVars>>

\* The delay is over, or run was cancelled during it.
delayEnds ==
  /\ sup.pc = "delay"
  /\ \/ sup' = [sup EXCEPT !.pc = "dial"]
     \/ cl.cancelled /\ sup' = [sup EXCEPT !.pc = "end"]
  /\ UNCHANGED <<opts, cl, sd, supGive, link, rd, authVars, callVars>>

\* shutdown has returned to the supervisor, which is over.
supEnds ==
  /\ sup.pc = "shutting" /\ Returned(Sup)
  /\ sup' = [sup EXCEPT !.pc = "end"]
  /\ UNCHANGED <<opts, cl, sd, supGive, link, rd, authVars, callVars>>

-----------------------------------------------------------------------------
(* readLoop and handleFrame, one reader per connection.                    *)

\* The reader can meet a frame: it is reading and the link is up.
Meets(c) == rd[c].pc = "reading" /\ link[c] = "open"

Resume(c) == [rd EXCEPT ![c] = Idle("reading")]

\* External: the link breaks under both ends.
Drop(c) ==
  /\ link[c] = "open"
  /\ link' = [link EXCEPT ![c] = "broken"]
  /\ UNCHANGED <<opts, cl, sd, sup, supGive, rd, authVars, callVars>>

\* read fails: it closes the connection, and the watch reports the end.  What
\* the server still owed on it is never read.
readFails(c) ==
  /\ rd[c].pc = "reading" /\ link[c] \in {"broken", "closed"}
  /\ rd' = [rd EXCEPT ![c].pc = "ended"]
  /\ closeLink(c)
  /\ srvAuths' = [srvAuths EXCEPT ![c] = <<>>]
  /\ srvReqs' = [srvReqs EXCEPT ![c] = {}]
  /\ UNCHANGED <<opts, cl, sd, sup, supGive, auth, authMu, wch, watch, pending, call, ch>>

\* The reader takes call k out of pending, to give it its answer.
TakePending(c, k) ==
  IF k \in pending
    THEN /\ pending' = pending \ {k}
         /\ rd' = [rd EXCEPT ![c] = Hand("give", k, "answer", <<>>)]
    ELSE UNCHANGED <<pending, rd>>

\* Faulty: the call stays in the table.
deliverResult_Keeps(c, k) ==
  /\ Meets(c) /\ k \in srvReqs[c]
  /\ srvReqs' = [srvReqs EXCEPT ![c] = @ \ {k}]
  /\ rd' = [rd EXCEPT ![c] = Hand("give", k, "answer", <<>>)]
  /\ UNCHANGED <<opts, cl, sd, sup, supGive, link, authVars, pending, call, ch>>

\* A response: the call it answers, if it is still pending, is given it.
deliverResult(c, k) ==
  /\ Meets(c) /\ k \in srvReqs[c]
  /\ srvReqs' = [srvReqs EXCEPT ![c] = @ \ {k}]
  /\ TakePending(c, k)
  /\ UNCHANGED <<opts, cl, sd, sup, supGive, link, authVars, call, ch>>

\* An error that answers a call.
handleError(c, k) ==
  /\ Meets(c) /\ k \in srvReqs[c]
  /\ srvReqs' = [srvReqs EXCEPT ![c] = @ \ {k}]
  /\ TakePending(c, k)
  /\ UNCHANGED <<opts, cl, sd, sup, supGive, link, authVars, call, ch>>

\* A binary frame of a version or type the client does not know fails its call.
handleBinary(c, k) ==
  /\ Meets(c) /\ k \in srvReqs[c]
  /\ srvReqs' = [srvReqs EXCEPT ![c] = @ \ {k}]
  /\ TakePending(c, k)
  /\ UNCHANGED <<opts, cl, sd, sup, supGive, link, authVars, call, ch>>

\* A stream frame for a call: fail it, and cancel the stream at the server.
rejectStreamForCall(c, k) ==
  /\ Meets(c) /\ k \in srvReqs[c] /\ k \in pending
  /\ srvReqs' = [srvReqs EXCEPT ![c] = @ \ {k}]
  /\ TakePending(c, k)
  /\ UNCHANGED <<opts, cl, sd, sup, supGive, link, authVars, call, ch>>

\* p.ch <- result
readerGives(c) ==
  /\ rd[c].pc = "give"
  /\ ch' = [ch EXCEPT ![rd[c].to] = Append(@, rd[c].res)]
  /\ rd' = Resume(c)
  /\ UNCHANGED <<opts, cl, sd, sup, supGive, link, authVars, pending, call, srvReqs>>

\* Faulty: a rejection is treated like any drop.
connectionRejected_AsDrop(c) ==
  /\ Meets(c)
  /\ cl' = [cl EXCEPT !.refused = TRUE]
  /\ closeLink(c)
  /\ UNCHANGED <<opts, sd, sup, supGive, rd, authVars, callVars>>

\* A rejection mid-session: retried when the options say so, else the client
\* is closed before the server's close lands.
connectionRejected(c) ==
  /\ Meets(c)
  /\ IF opts.retry # -1 /\ ~opts.noReconnect
       THEN /\ cl' = [cl EXCEPT !.dropRejection = @ \/ cl.conn = c, !.refused = TRUE]
            /\ closeLink(c)
            /\ UNCHANGED <<rd, sd, pending>>
       ELSE /\ shutdown(c, "rejected")
            /\ rd' = [rd EXCEPT ![c].pc = "shutting"]
            /\ UNCHANGED link
  /\ UNCHANGED <<opts, sup, supGive, authVars, call, ch, srvReqs>>

\* shutdown has returned to a reader.
readerReturns(c) ==
  /\ rd[c].pc = "shutting" /\ Returned(c)
  /\ rd' = Resume(c)
  /\ UNCHANGED <<opts, cl, sd, sup, supGive, link, authVars, callVars>>

\* handleFrame on auth_ok or auth_error; frame is the auth frame it answers,
\* <<>> for one the server sends unasked.
authFrame(c, verdict, frame) ==
  LET solicited == watch.sent[c] > 0 IN
  /\ watch' = [watch EXCEPT
       !.sent[c] = IF solicited THEN @ - 1 ELSE 0,
       !.abandoned[c] = IF solicited /\ @ > 0 THEN @ - 1 ELSE @,
       !.authWait = IF solicited /\ watch.abandoned[c] = 0 THEN Nobody ELSE @]
  /\ IF ~solicited /\ verdict = "refused" /\ ~opts.token
       THEN shutdown(c, "rejected") /\ rd' = [rd EXCEPT ![c].pc = "shutting"]
       ELSE /\ rd' = IF solicited /\ watch.abandoned[c] = 0 /\ watch.authWait # Nobody
                      THEN [rd EXCEPT ![c] = Hand("verdict", watch.authWait, verdict, frame)]
                      ELSE rd
            /\ UNCHANGED <<cl, sd, pending>>
  /\ UNCHANGED <<opts, sup, supGive, auth, authMu, wch, call, ch>>

\* The server answers its oldest unanswered auth frame.
authVerdict(c, verdict) ==
  /\ Meets(c) /\ srvAuths[c] # <<>>
  /\ srvAuths' = [srvAuths EXCEPT ![c] = Tail(@)]
  /\ authFrame(c, verdict, Head(srvAuths[c]))
  /\ UNCHANGED <<link, srvReqs>>

\* The server refuses a request because the session is not authenticated.
authRequired(c, k) ==
  /\ Meets(c) /\ opts.needAuth /\ ~opts.token /\ k \in srvReqs[c]
  /\ srvReqs' = [srvReqs EXCEPT ![c] = @ \ {k}]
  /\ authFrame(c, "refused", <<>>)
  /\ UNCHANGED <<link, srvAuths>>

\* The server's authentication timeout: a flagged auth_error, then a close.
authTimeout(c) ==
  /\ Meets(c) /\ opts.needAuth
  /\ link' = [link EXCEPT ![c] = "broken"]
  /\ IF opts.token
       THEN UNCHANGED <<opts, cl, sd, sup, supGive, rd, auth, authMu, wch, watch, pending, call, ch>>
       ELSE authFrame(c, "refused", <<>>)
  /\ UNCHANGED <<srvAuths, srvReqs>>

\* wait <- verdict
verdictGiven(c) ==
  /\ rd[c].pc = "verdict"
  /\ wch' = [wch EXCEPT ![rd[c].to] = [res |-> rd[c].res, frame |-> rd[c].frame]]
  /\ rd' = Resume(c)
  /\ UNCHANGED <<opts, cl, sd, sup, supGive, link, auth, authMu, watch, srvAuths, callVars>>

-----------------------------------------------------------------------------
(* authenticate, run by the supervisor and by RefreshAuth.                 *)

\* RefreshAuth: waitConnected ...
RefreshAuth(a) ==
  /\ a \in Refreshers /\ ~sup.first /\ auth[a].pc = "idle" /\ auth[a].n < opts.refreshes
  /\ \/ cl.conn # NoConn /\ ~cl.closed
        /\ auth' = [auth EXCEPT ![a] = [pc |-> "watch", c |-> cl.conn, w |-> NoConn,
                                          n |-> auth[a].n + 1]]
     \/ cl.closed /\ auth' = [auth EXCEPT ![a].n = opts.refreshes]
  /\ UNCHANGED <<opts, cl, sd, sup, supGive, link, rd, authMu, wch, watch, srvAuths, callVars>>

\* ... and then the watch, which may be nil or a newer connection's by now.
refreshWatch(a) ==
  /\ auth[a].pc = "watch"
  /\ auth' = [auth EXCEPT ![a] = IF cl.watch = NoConn
                                   THEN [@ EXCEPT !.pc = "idle", !.c = NoConn]
                                   ELSE [@ EXCEPT !.pc = "lock", !.w = cl.watch]]
  /\ UNCHANGED <<opts, cl, sd, sup, supGive, link, rd, authMu, wch, watch, srvAuths, callVars>>

\* Take authMu and publish the wait channel.
authenticate(a) ==
  /\ auth[a].pc = "lock" /\ authMu = Nobody
  /\ authMu' = a
  /\ watch' = [watch EXCEPT !.authWait = a]
  /\ wch' = [wch EXCEPT ![a] = [res |-> "none", frame |-> <<>>]]
  /\ auth' = [auth EXCEPT ![a].pc = "send"]
  /\ UNCHANGED <<opts, cl, sd, sup, supGive, link, rd, srvAuths, callVars>>

\* Return from authenticate: the deferred clean-up.
authDone(a, pc) ==
  /\ auth' = [auth EXCEPT ![a] = [pc |-> IF a = "sup" THEN pc ELSE "idle",
                                  c |-> NoConn, w |-> NoConn, n |-> auth[a].n]]
  /\ authMu' = Nobody

\* Count and send the auth frame.  A write on a broken link may still succeed;
\* one that fails takes the count back.
authSend(a) ==
  LET c == auth[a].c IN
  /\ auth[a].pc = "send"
  /\ \/ /\ link[c] \in {"open", "broken"}
        /\ watch' = [watch EXCEPT !.sent[auth[a].w] = @ + 1]
        /\ srvAuths' = [srvAuths EXCEPT ![c] = IF link[c] = "open" THEN Append(@, <<a, c, auth[a].n>>) ELSE @]
        /\ auth' = [auth EXCEPT ![a].pc = "await"]
        /\ UNCHANGED authMu
     \/ /\ link[c] \in {"broken", "closed"}
        /\ watch' = [watch EXCEPT !.authWait = IF @ = a THEN Nobody ELSE @]
        /\ authDone(a, "failed")
        /\ UNCHANGED srvAuths
  /\ UNCHANGED <<opts, cl, sd, sup, supGive, link, rd, wch, callVars>>

\* The verdict arrives on the wait channel.
authAnswered(a) ==
  /\ auth[a].pc \in {"await", "handed"} /\ wch[a].res # "none"
  /\ authDone(a, wch[a].res)
  /\ wch' = [wch EXCEPT ![a] = [res |-> "none", frame |-> <<>>]]
  /\ watch' = [watch EXCEPT !.authWait = IF @ = a THEN Nobody ELSE @]
  /\ UNCHANGED <<opts, cl, sd, sup, supGive, link, rd, srvAuths, callVars>>

\* The connection is lost during auth.
authLost(a) ==
  /\ auth[a].pc = "await" /\ rd[auth[a].w].pc = "ended"
  /\ authDone(a, "failed")
  /\ watch' = [watch EXCEPT !.authWait = IF @ = a THEN Nobody ELSE @]
  /\ UNCHANGED <<opts, cl, sd, sup, supGive, link, rd, wch, srvAuths, callVars>>

\* Faulty: the abandoned verdict is not counted.
authGivesUp_NotCounted(a) ==
  /\ auth[a].pc = "await" /\ (a = "sup" => sup.ctx)
  /\ watch.authWait = a
  /\ watch' = [watch EXCEPT !.authWait = Nobody]
  /\ authDone(a, "failed")
  /\ UNCHANGED <<opts, cl, sd, sup, supGive, link, rd, wch, srvAuths, callVars>>

\* The caller's context ends.  If the reader has not taken the wait channel,
\* the verdict is abandoned; else it is on its way and must be taken.
authGivesUp(a) ==
  /\ auth[a].pc = "await" /\ (a = "sup" => sup.ctx)
  /\ IF watch.authWait = a
       THEN /\ watch' = [watch EXCEPT !.authWait = Nobody,
                                      !.abandoned[auth[a].w] = @ + 1]
            /\ authDone(a, "failed")
       ELSE /\ auth' = [auth EXCEPT ![a].pc = "handed"]
            /\ UNCHANGED <<watch, authMu>>
  /\ UNCHANGED <<opts, cl, sd, sup, supGive, link, rd, wch, srvAuths, callVars>>

-----------------------------------------------------------------------------
(* Client.call                                                             *)

Returns(k) == call' = [call EXCEPT ![k] = [pc |-> "returned", c |-> NoConn]]

\* waitConnected, entered by a new call or after a drop.
waitConnected(k) ==
  /\ ~sup.first /\ call[k].pc \in {"idle", "wait"}
  /\ \/ cl.closed /\ Returns(k)
     \/ ~cl.closed /\ cl.conn # NoConn
        /\ call' = [call EXCEPT ![k].pc = "register", ![k].c = cl.conn]
     \/ ~cl.closed /\ cl.conn = NoConn /\ Returns(k)
  /\ UNCHANGED <<opts, cl, sd, sup, supGive, link, rd, authVars, pending, ch, srvReqs>>

\* Register the call, unless the connection changed meanwhile.
callRegisters(k) ==
  /\ call[k].pc = "register"
  /\ IF cl.conn # call[k].c
       THEN call' = [call EXCEPT ![k].pc = "wait"] /\ UNCHANGED pending
       ELSE /\ pending' = pending \cup {k}
            /\ call' = [call EXCEPT ![k].pc = "send"]
  /\ UNCHANGED <<opts, cl, sd, sup, supGive, link, rd, authVars, ch, srvReqs>>

\* The request is written.  On a broken link the write may still succeed.
callSends(k) ==
  /\ call[k].pc = "send" /\ link[call[k].c] \in {"open", "broken"}
  /\ srvReqs' = [srvReqs EXCEPT ![call[k].c] = IF link[call[k].c] = "open"
                                                  THEN @ \cup {k} ELSE @]
  /\ call' = [call EXCEPT ![k].pc = "await"]
  /\ UNCHANGED <<opts, cl, sd, sup, supGive, link, rd, authVars, pending, ch>>

\* takePending: the call itself takes its entry back.
takePending(k) == pending' = pending \ {k}

\* The request is larger than the server accepts: refused locally.
callTooLarge(k) ==
  /\ call[k].pc = "send"
  /\ takePending(k)
  /\ Returns(k)
  /\ UNCHANGED <<opts, cl, sd, sup, supGive, link, rd, authVars, ch, srvReqs>>

\* The write fails: take the call back, or wait for whoever took it.
callSendFails(k) ==
  /\ call[k].pc = "send" /\ link[call[k].c] \in {"broken", "closed"}
  /\ takePending(k)
  /\ IF k \in pending THEN Returns(k)
                       ELSE call' = [call EXCEPT ![k].pc = "await"]
  /\ UNCHANGED <<opts, cl, sd, sup, supGive, link, rd, authVars, ch, srvReqs>>

\* The one result arrives.
callAnswered(k) ==
  /\ call[k].pc \in {"await", "mustTake"} /\ ch[k] # <<>>
  /\ Returns(k)
  /\ ch' = [ch EXCEPT ![k] = Tail(@)]
  /\ UNCHANGED <<opts, cl, sd, sup, supGive, link, rd, authVars, pending, srvReqs>>

\* The caller's context ends: cancel at the server, or take the result that
\* raced the cancellation.
callCancelled(k) ==
  /\ call[k].pc = "await"
  /\ takePending(k)
  /\ IF k \in pending
       THEN /\ Returns(k)
            /\ srvReqs' = [srvReqs EXCEPT ![call[k].c] =
                             IF link[call[k].c] = "open" THEN @ \ {k} ELSE @]
       ELSE call' = [call EXCEPT ![k].pc = "mustTake"] /\ UNCHANGED srvReqs
  /\ UNCHANGED <<opts, cl, sd, sup, supGive, link, rd, authVars, ch>>

-----------------------------------------------------------------------------
Supervisor ==
  \/ dial \/ dialFails \/ watchdog \/ firstError \/ firstFails
  \/ \E v \in ServerMax : firstConfig(v)
  \/ tokenOk \/ tokenFails \/ authReturns \/ unwind
  \/ markConnected \/ connected \/ failStart \/ spawn
  \/ runCancelled \/ runDrop \/ markDisconnected \/ disconnectedEnds
  \/ runDecide \/ runRejected \/ runBackoff \/ delayEnds \/ supEnds
  \/ \E k \in Calls : disconnectedGives(k)

Shutdown ==
  \/ Close \/ shutdownCloses \/ shutdownEnds
  \/ \E k \in Calls : shutdownGives(k)

Reader(c) ==
  \/ Drop(c) \/ readFails(c) \/ readerGives(c) \/ readerReturns(c)
  \/ connectionRejected(c) \/ authTimeout(c) \/ verdictGiven(c)
  \/ \E v \in {"ok", "refused"} : authVerdict(c, v)
  \/ \E k \in Calls : \/ deliverResult(c, k) \/ handleError(c, k)
                      \/ handleBinary(c, k) \/ rejectStreamForCall(c, k)
                      \/ authRequired(c, k)

Authenticate(a) ==
  \/ RefreshAuth(a) \/ refreshWatch(a) \/ authenticate(a) \/ authSend(a)
  \/ authAnswered(a) \/ authLost(a) \/ authGivesUp(a)

Caller(k) ==
  \/ waitConnected(k) \/ callRegisters(k) \/ callSends(k) \/ callTooLarge(k)
  \/ callSendFails(k) \/ callAnswered(k) \/ callCancelled(k)

Next ==
  \/ Supervisor \/ Shutdown
  \/ \E c \in Conns : Reader(c)
  \/ \E a \in Actors : Authenticate(a)
  \/ \E k \in Calls : Caller(k)

Spec == Init /\ [][Next]_vars

-----------------------------------------------------------------------------
(* Properties                                                              *)

Frames == Actors \X Conns \X (0..MaxRefresh)

ClientRec == [closed : BOOLEAN, closeErr : Errors, conn : 0..MaxConns,
              watch : 0..MaxConns, ready : BOOLEAN,
              state : {"connecting", "connected", "closed"}, done : BOOLEAN,
              cancelRun : BOOLEAN, cancelled : BOOLEAN, dropRejection : BOOLEAN,
              lastRejection : BOOLEAN, refused : BOOLEAN, maxAttempts : 0..CountCap]
ShutdownRec == [pc : {"no", "close", "give", "done"}, by : -1..MaxConns,
                conn : 0..MaxConns, cancel : BOOLEAN, give : SUBSET Calls]
SupRec == [pc : {"dial", "first", "token", "auth", "unwind", "mark", "marked",
                 "failStart", "spawn", "up", "leave", "drop", "give", "decide",
                 "loop", "delay", "shutting", "end"},
           c : 0..MaxConns, first : BOOLEAN, ctx : BOOLEAN, err : Errors,
           attempt : 0..CountCap, rejections : 0..CountCap, rejected : BOOLEAN]
ReaderRec == [pc : {"none", "reading", "give", "verdict", "shutting", "ended"},
              to : Calls \cup Actors \cup {Nobody},
              res : Results \cup {"ok", "refused"}, frame : Frames \cup {<<>>}]
AuthRec == [pc : {"idle", "watch", "lock", "send", "await", "handed", "ok",
                  "refused", "failed"},
            c : 0..MaxConns, w : 0..MaxConns, n : 0..MaxRefresh]
WaitRec == [res : {"none", "ok", "refused"}, frame : Frames \cup {<<>>}]
WatchRec == [authWait : Actors \cup {Nobody}, sent : [Conns -> Nat],
             abandoned : [Conns -> Nat]]
CallRec == [pc : {"idle", "wait", "register", "send", "await", "mustTake", "returned"},
            c : 0..MaxConns]

TypeOK ==
  /\ opts \in OptionSet
  /\ cl \in ClientRec /\ sd \in ShutdownRec /\ sup \in SupRec
  /\ supGive \in SUBSET Calls /\ pending \in SUBSET Calls
  /\ link \in [Conns -> {"none", "open", "broken", "closed"}]
  /\ rd \in [Conns -> ReaderRec]
  /\ auth \in [Actors -> AuthRec] /\ authMu \in Actors \cup {Nobody}
  /\ wch \in [Actors -> WaitRec] /\ watch \in WatchRec
  /\ srvAuths \in [Conns -> Seq(Frames)] /\ srvReqs \in [Conns -> SUBSET Calls]
  /\ call \in [Calls -> CallRec] /\ ch \in [Calls -> Seq(Results)]

\* The results on their way to call k: its table entry, the goroutines that
\* took the entry and have yet to send, and what its channel holds.
Promised(k) ==
  Cardinality({x \in {"table", "drop", "shutdown"} :
                 \/ x = "table" /\ k \in pending
                 \/ x = "drop" /\ k \in supGive
                 \/ x = "shutdown" /\ k \in sd.give})
  + Cardinality({c \in Conns : rd[c].pc = "give" /\ rd[c].to = k})
  + Len(ch[k])

\* "ch receives exactly one result" (call.go:32): a call that waits has exactly
\* one result promised or delivered, whoever of the reader, the drop, shutdown
\* and the call itself took it out of the table, and no call has two, so the
\* send on the channel of one never blocks a reader.
ExactlyOneResult ==
  \A k \in Calls :
    /\ call[k].pc \in {"send", "await", "mustTake"} => Promised(k) = 1
    /\ Promised(k) <= 1

\* A call in the table is bound to the connection that is current: when that
\* connection drops or the client closes the call is failed, and no call waits
\* on a connection that is gone.
PendingOnCurrent ==
  \A k \in pending : cl.conn # NoConn /\ call[k].c = cl.conn

\* A verdict reaches the goroutine whose auth frame it answers, also when an
\* earlier caller gave up before its verdict came.  (A client without
\* AuthToken on a server that requires one may see an unasked auth_error taken
\* for the answer of a RefreshAuth; it is excepted.)
VerdictReachesItsCaller ==
  (opts.token \/ ~opts.needAuth) =>
    \A a \in Actors : wch[a].res # "none" /\ auth[a].pc \in {"await", "handed"}
       => wch[a].frame = <<a, auth[a].c, auth[a].n>>

\* The ready channel is closed exactly while there is a connection, until the
\* client closes: nobody waits in waitConnected for a connection that is up,
\* and markConnected never closes the channel twice.
ReadyMatchesConn ==
  ~cl.closed => (cl.ready <=> cl.conn # NoConn)

\* A shutdown, whenever it comes, reaches the supervisor: once it is over and
\* run has been started, run is cancelled, and nothing reconnects for ever.
ShutdownStopsRun ==
  cl.done /\ cl.cancelRun => cl.cancelled

\* When the supervisor is over no socket is left open and every reader started
\* has been waited for, or is the one that shut the client down.
NothingLeftBehind ==
  sup.pc = "end" =>
    /\ cl.closed
    /\ \A c \in Conns : link[c] \in {"none", "closed"} /\ rd[c].pc \in {"none", "ended"}

\* The call table and the ready channel follow the connection: no call waits
\* on a connection that is gone, no caller waits for one that is up.
TableFollowsConn ==
  /\ TypeOK
  /\ PendingOnCurrent
  /\ ReadyMatchesConn

\* A shutdown from any side (Close, a refusal, the context) ends everything the
\* client started: the supervisor, its readers and its sockets.
ShutdownIsComplete ==
  /\ ShutdownStopsRun
  /\ NothingLeftBehind

\* What has ended stays ended.  A refusal that the options do not retry is
\* final: after connect has reported that the server refused the connection or
\* the token, or a refusal came mid-session, no connection is ever published
\* again.  (A refusal that connect reports as the end of its context is retried
\* like any failed attempt, see connectFails.)  Closed is final: the state
\* never leaves it, no connection is published after it and the reason does not
\* change.
EndIsFinal ==
  [][/\ cl'.conn # cl.conn /\ cl'.conn # NoConn => ~(cl.refused /\ opts.retry = -1)
     /\ cl.closed => /\ cl'.closed /\ cl'.closeErr = cl.closeErr /\ cl'.conn = NoConn
                     /\ (cl.state = "closed" => cl'.state = "closed")]_vars
=============================================================================
