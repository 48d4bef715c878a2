-------------------------- MODULE ServerLifecycle --------------------------
(***************************************************************************)
(* Accepting connections, tearing them down and stopping the server        *)
(* (server.go, transport_ws.go, transport_stream.go).                      *)
(*                                                                         *)
(* Four kinds of goroutine meet here: the accept path of each connection   *)
(* (ServeHTTP or ServeStream), which becomes its read loop; whoever closes *)
(* a connection on its own (DisconnectUser, an authentication timeout, a   *)
(* cancelled stream context); the one goroutine of run(), which receives   *)
(* every unregister; and the callers of Stop.  One action is one critical  *)
(* section, channel operation or atomic access of the code.                *)
(***************************************************************************)
EXTENDS Connections, Integers, FiniteSets

CONSTANTS
    Sockets,        \* the ones that are WebSockets; the rest byte streams
    Stoppers,       \* callers of Stop
    None,           \* no connection
    MaxRequests,    \* bound: requests read from each connection
    MayExpire       \* whether the context given to Stop may expire

ASSUME LifecycleAssumption ==
    /\ Sockets \subseteq Conns
    /\ None \notin Conns
    /\ MaxRequests \in Nat
    /\ MayExpire \in BOOLEAN

VARIABLES
    stopping,       \* Server.stopping
    conns,          \* Server.conns, the fan-out set
    stopCh,         \* Server.stopCh has been closed
    requestsWg,     \* Server.requestsWg
    serve,          \* serve[c]: where the accept path and read loop of c is
    requests,       \* requests[c]: requests read from c
    torn,           \* torn[c]: the transport of c has been closed
    socket,         \* socket[c]: what a read of c's stream finds
    evict,          \* evict[c]: where a DisconnectUser or timeout on c is
    loop,           \* the goroutine of run()
    stop,           \* stop[s]: where the call of Stop by s is
    hooked,         \* hooked[c]: times the disconnect hooks have run for c
    observed        \* observed[c]: what the observer was told of c

vars == <<stopping, conns, stopCh, requestsWg, serve, requests, closed, torn,
          socket, evict, loop, stop, hooked, observed>>

ServeSteps == {"new", "hooks", "registered", "ready", "reading", "unregister",
               "ended", "refused"}
LoopSteps == {"select", "remove", "hooks", "close", "tear", "observe",
              "decide", "exited"}
StopSteps == {"idle", "snapshot", "sweep", "tear", "drain", "hooks", "signal",
              "wait", "returned", "expired"}

(* The types of the variables. *)
TypeOK ==
    /\ stopping \in BOOLEAN /\ stopCh \in BOOLEAN
    /\ conns \subseteq Conns
    /\ requestsWg \in Nat
    /\ serve \in [Conns -> ServeSteps]
    /\ requests \in [Conns -> 0..MaxRequests]
    /\ closed \in [Conns -> BOOLEAN] /\ torn \in [Conns -> BOOLEAN]
    /\ socket \in [Conns -> {"open", "shut"}]
    /\ evict \in [Conns -> {"idle", "tear", "done"}]
    /\ loop \in [pc : LoopSteps, conn : Conns \cup {None}, empty : BOOLEAN,
                 armed : BOOLEAN]
    /\ stop \in [Stoppers -> [pc : StopSteps, todo : SUBSET Conns,
                              conn : Conns \cup {None}]]
    /\ hooked \in [Conns -> Nat]
    /\ observed \in [Conns -> {"nothing", "opened", "closed"}]

Init ==
    /\ stopping = FALSE /\ stopCh = FALSE
    /\ conns = {}
    /\ requestsWg = 0
    /\ serve = [c \in Conns |-> "new"]
    /\ requests = [c \in Conns |-> 0]
    /\ closed = [c \in Conns |-> FALSE] /\ torn = [c \in Conns |-> FALSE]
    /\ socket = [c \in Conns |-> "open"]
    /\ evict = [c \in Conns |-> "idle"]
    /\ loop = [pc |-> "select", conn |-> None, empty |-> FALSE, armed |-> TRUE]
    /\ stop = [s \in Stoppers |-> [pc |-> "idle", todo |-> {}, conn |-> None]]
    /\ hooked = [c \in Conns |-> 0]
    /\ observed = [c \in Conns |-> "nothing"]

-----------------------------------------------------------------------------
(* The accept path: ServeHTTP and ServeStream. *)

(* A server that is stopping refuses at the door. *)
Accept(c) ==
    /\ serve[c] = "new"
    /\ serve' = [serve EXCEPT ![c] = IF stopping THEN "refused" ELSE "hooks"]
    /\ UNCHANGED <<stopping, conns, stopCh, requestsWg, requests, closed, torn,
                   socket, evict, loop, stop, hooked, observed>>

(* A connect hook returns an error. *)
HookRejects(c) ==
    /\ serve[c] = "hooks"
    /\ serve' = [serve EXCEPT ![c] = "refused"]
    /\ UNCHANGED <<stopping, conns, stopCh, requestsWg, requests, closed, torn,
                   socket, evict, loop, stop, hooked, observed>>

(* Faulty: stopping is not read again under the lock. *)
registerConn_NoRecheck(c) ==
    /\ serve[c] = "hooks"
    /\ serve' = [serve EXCEPT ![c] = "registered"]
    /\ conns' = conns \cup {c}
    /\ UNCHANGED <<stopping, stopCh, requestsWg, requests, closed, torn,
                   socket, evict, loop, stop, hooked, observed>>

(* Faulty: the observer is not told of the connection. *)
registerConn_Unobserved(c) ==
    /\ serve[c] = "hooks"
    /\ serve' = [serve EXCEPT ![c] = IF stopping THEN "refused" ELSE "ready"]
    /\ conns' = IF stopping THEN conns ELSE conns \cup {c}
    /\ UNCHANGED <<stopping, stopCh, requestsWg, requests, closed, torn,
                   socket, evict, loop, stop, hooked, observed>>

(* The hooks accept; the insert re-reads stopping under the lock, *)
registerConn(c) ==
    /\ serve[c] = "hooks"
    /\ serve' = [serve EXCEPT ![c] = IF stopping THEN "refused" ELSE "registered"]
    /\ conns' = IF stopping THEN conns ELSE conns \cup {c}
    /\ UNCHANGED <<stopping, stopCh, requestsWg, requests, closed, torn,
                   socket, evict, loop, stop, hooked, observed>>

(* ... and the observer hears of the connection outside it, *)
ConnectionOpened(c) ==
    /\ serve[c] = "registered"
    /\ serve' = [serve EXCEPT ![c] = "ready"]
    /\ observed' = [observed EXCEPT ![c] = "opened"]
    /\ UNCHANGED <<stopping, conns, stopCh, requestsWg, requests, closed, torn,
                   socket, evict, loop, stop, hooked>>

(* ... before the config frame goes out and the pumps start. *)
StartPumps(c) ==
    /\ serve[c] = "ready"
    /\ serve' = [serve EXCEPT ![c] = "reading"]
    /\ UNCHANGED <<stopping, conns, stopCh, requestsWg, requests, closed, torn,
                   socket, evict, loop, stop, hooked, observed>>

-----------------------------------------------------------------------------
(* The read loop: readPump and readLoop. *)

(* A request or subscribe frame: dispatchRequest adds to the wait group    *)
(* whether or not the connection is closed.  A frame the peer sent before  *)
(* a close is still read after it: the WebSocket until the write pump has  *)
(* drained, the byte stream from the scanner's buffer.                     *)
dispatchRequest(c) ==
    /\ serve[c] = "reading"
    /\ requests[c] < MaxRequests
    /\ requests' = [requests EXCEPT ![c] = @ + 1]
    /\ requestsWg' = requestsWg + 1
    /\ UNCHANGED <<stopping, conns, stopCh, serve, closed, torn, socket, evict,
                   loop, stop, hooked, observed>>

(* A handler returns. *)
RequestDone ==
    /\ requestsWg > 0
    /\ requestsWg' = requestsWg - 1
    /\ UNCHANGED <<stopping, conns, stopCh, serve, requests, closed, torn,
                   socket, evict, loop, stop, hooked, observed>>

(* The peer goes away, or stops answering pings. *)
PeerLeaves(c) ==
    /\ serve[c] \in {"hooks", "registered", "ready", "reading"}
    /\ socket[c] = "open"
    /\ socket' = [socket EXCEPT ![c] = "shut"]
    /\ UNCHANGED <<stopping, conns, stopCh, requestsWg, serve, requests, closed,
                   torn, evict, loop, stop, hooked, observed>>

(* writePump of a WebSocket sees done, drains its queue and closes. *)
DrainAndClose(c) ==
    /\ c \in Sockets
    /\ serve[c] \in {"reading", "unregister"}
    /\ torn[c] /\ socket[c] = "open"
    /\ socket' = [socket EXCEPT ![c] = "shut"]
    /\ UNCHANGED <<stopping, conns, stopCh, requestsWg, serve, requests, closed,
                   torn, evict, loop, stop, hooked, observed>>

(* A read fails, and the deferred function of the read loop runs. *)
ReadFails(c) ==
    /\ serve[c] = "reading" /\ socket[c] = "shut"
    /\ serve' = [serve EXCEPT ![c] = "unregister"]
    /\ UNCHANGED <<stopping, conns, stopCh, requestsWg, requests, closed, torn,
                   socket, evict, loop, stop, hooked, observed>>

(* closeWithCause: the flag, under the lock of the connection, then the    *)
(* transport.  Only the caller that set the flag goes on to the transport. *)
MarkClosed(c) == ~ closed[c] /\ closed' = [closed EXCEPT ![c] = TRUE]

(* Close and CloseGracefully close the byte stream, or tell the WebSocket's *)
(* write pump to.                                                           *)
TearDown(c) ==
    /\ torn' = [torn EXCEPT ![c] = TRUE]
    /\ socket' = IF c \in Sockets THEN socket ELSE [socket EXCEPT ![c] = "shut"]

(* The byte stream's deferred function gives up once run() has exited; the *)
(* WebSocket's waits for a receiver.  Both close their stream.             *)
GiveUp(c) ==
    /\ serve[c] = "unregister" /\ c \notin Sockets
    /\ loop.pc = "exited"
    /\ serve' = [serve EXCEPT ![c] = "ended"]
    /\ TearDown(c)
    /\ UNCHANGED <<stopping, conns, stopCh, requestsWg, requests, closed,
                   evict, loop, stop, hooked, observed>>

-----------------------------------------------------------------------------
(* DisconnectUser, an authentication timeout, or a cancelled stream context. *)
(* DisconnectUser finds a connection from the moment a connect hook has set *)
(* its user, and may have found it before it was torn down.                 *)

EvictMark(c) ==
    /\ evict[c] = "idle" /\ serve[c] # "new"
    /\ MarkClosed(c)
    /\ evict' = [evict EXCEPT ![c] = "tear"]
    /\ UNCHANGED <<stopping, conns, stopCh, requestsWg, serve, requests, torn,
                   socket, loop, stop, hooked, observed>>

EvictTear(c) ==
    /\ evict[c] = "tear"
    /\ TearDown(c)
    /\ evict' = [evict EXCEPT ![c] = "done"]
    /\ UNCHANGED <<stopping, conns, stopCh, requestsWg, serve, requests, closed,
                   loop, stop, hooked, observed>>

-----------------------------------------------------------------------------
(* run(). *)

(* The channel is unbuffered: run() receives in the step the read loop *)
(* sends, and the read loop closes its stream and ends.                *)
Receive(c) ==
    /\ loop.pc = "select" /\ serve[c] = "unregister"
    /\ loop' = [loop EXCEPT !.pc = "remove", !.conn = c]
    /\ serve' = [serve EXCEPT ![c] = "ended"]
    /\ socket' = [socket EXCEPT ![c] = "shut"]
    /\ torn' = [torn EXCEPT ![c] = @ \/ c \notin Sockets]
    /\ UNCHANGED <<stopping, conns, stopCh, requestsWg, requests, closed,
                   evict, stop, hooked, observed>>

(* Faulty: the connection stays in the set. *)
Remove_Keeps ==
    /\ loop.pc = "remove"
    /\ loop' = [loop EXCEPT !.empty = conns = {},
                            !.pc = IF loop.conn \in conns THEN "hooks" ELSE "decide"]
    /\ UNCHANGED <<stopping, conns, stopCh, requestsWg, serve, requests, closed,
                   torn, socket, evict, stop, hooked, observed>>

(* Under the lock: was it registered, and is the set empty now? *)
Remove ==
    /\ loop.pc = "remove"
    /\ conns' = conns \ {loop.conn}
    /\ loop' = [loop EXCEPT !.empty = conns' = {},
                            !.pc = IF loop.conn \in conns THEN "hooks" ELSE "decide"]
    /\ UNCHANGED <<stopping, stopCh, requestsWg, serve, requests, closed, torn,
                   socket, evict, stop, hooked, observed>>

runDisconnectHooks ==
    /\ loop.pc = "hooks"
    /\ hooked' = [hooked EXCEPT ![loop.conn] = @ + 1]
    /\ loop' = [loop EXCEPT !.pc = "close"]
    /\ UNCHANGED <<stopping, conns, stopCh, requestsWg, serve, requests, closed,
                   torn, socket, evict, stop, observed>>

LoopMark ==
    /\ loop.pc = "close"
    /\ \/ /\ MarkClosed(loop.conn)
          /\ loop' = [loop EXCEPT !.pc = "tear"]
       \/ /\ closed[loop.conn]
          /\ loop' = [loop EXCEPT !.pc = "observe"]
          /\ UNCHANGED closed
    /\ UNCHANGED <<stopping, conns, stopCh, requestsWg, serve, requests, torn,
                   socket, evict, stop, hooked, observed>>

LoopTear ==
    /\ loop.pc = "tear"
    /\ TearDown(loop.conn)
    /\ loop' = [loop EXCEPT !.pc = "observe"]
    /\ UNCHANGED <<stopping, conns, stopCh, requestsWg, serve, requests, closed,
                   evict, stop, hooked, observed>>

ConnectionClosed ==
    /\ loop.pc = "observe"
    /\ observed' = [observed EXCEPT ![loop.conn] = "closed"]
    /\ loop' = [loop EXCEPT !.pc = "decide"]
    /\ UNCHANGED <<stopping, conns, stopCh, requestsWg, serve, requests, closed,
                   torn, socket, evict, stop, hooked>>

(* run() returns if the server is stopping and the set was empty when the *)
(* connection was removed.                                                *)
Decide ==
    /\ loop.pc = "decide"
    /\ loop' = [loop EXCEPT !.conn = None,
                            !.pc = IF stopping /\ loop.empty THEN "exited" ELSE "select"]
    /\ UNCHANGED <<stopping, conns, stopCh, requestsWg, serve, requests, closed,
                   torn, socket, evict, stop, hooked, observed>>

(* Faulty: run() notices stopCh and waits for one more unregister. *)
StopSignalled_Waits ==
    /\ loop.pc = "select" /\ stopCh /\ loop.armed
    /\ loop' = [loop EXCEPT !.armed = FALSE]
    /\ UNCHANGED <<stopping, conns, stopCh, requestsWg, serve, requests, closed,
                   torn, socket, evict, stop, hooked, observed>>

(* The other case of the select: stopCh is closed, which it notices once. *)
StopSignalled ==
    /\ loop.pc = "select" /\ stopCh /\ loop.armed
    /\ loop' = [loop EXCEPT !.armed = FALSE,
                            !.pc = IF conns = {} THEN "exited" ELSE "select"]
    /\ UNCHANGED <<stopping, conns, stopCh, requestsWg, serve, requests, closed,
                   torn, socket, evict, stop, hooked, observed>>

-----------------------------------------------------------------------------
(* Stop. *)

StopBegin(s) ==
    /\ stop[s].pc = "idle"
    /\ stopping' = TRUE
    /\ stop' = [stop EXCEPT ![s].pc = "snapshot"]
    /\ UNCHANGED <<conns, stopCh, requestsWg, serve, requests, closed, torn,
                   socket, evict, loop, hooked, observed>>

Snapshot(s) ==
    /\ stop[s].pc = "snapshot"
    /\ stop' = [stop EXCEPT ![s] = [pc |-> "sweep", conn |-> None, todo |-> conns]]
    /\ UNCHANGED <<stopping, conns, stopCh, requestsWg, serve, requests, closed,
                   torn, socket, evict, loop, hooked, observed>>

(* closeGracefully on each connection of the snapshot. *)
SweepMark(s) ==
    /\ stop[s].pc = "sweep"
    /\ \E c \in stop[s].todo :
        \/ /\ MarkClosed(c)
           /\ stop' = [stop EXCEPT ![s] = [pc |-> "tear", conn |-> c,
                                           todo |-> @.todo \ {c}]]
        \/ /\ closed[c]
           /\ stop' = [stop EXCEPT ![s].todo = @ \ {c}]
           /\ UNCHANGED closed
    /\ UNCHANGED <<stopping, conns, stopCh, requestsWg, serve, requests, torn,
                   socket, evict, loop, hooked, observed>>

SweepTear(s) ==
    /\ stop[s].pc = "tear"
    /\ TearDown(stop[s].conn)
    /\ stop' = [stop EXCEPT ![s] = [pc |-> "sweep", conn |-> None, todo |-> @.todo]]
    /\ UNCHANGED <<stopping, conns, stopCh, requestsWg, serve, requests, closed,
                   evict, loop, hooked, observed>>

SweepDone(s) ==
    /\ stop[s].pc = "sweep" /\ stop[s].todo = {}
    /\ stop' = [stop EXCEPT ![s].pc = "drain"]
    /\ UNCHANGED <<stopping, conns, stopCh, requestsWg, serve, requests, closed,
                   torn, socket, evict, loop, hooked, observed>>

(* requestsWg.Wait returns: the count was zero once. *)
Drained(s) ==
    /\ stop[s].pc = "drain" /\ requestsWg = 0
    /\ stop' = [stop EXCEPT ![s].pc = "hooks"]
    /\ UNCHANGED <<stopping, conns, stopCh, requestsWg, serve, requests, closed,
                   torn, socket, evict, loop, hooked, observed>>

StopHooks(s) ==
    /\ stop[s].pc = "hooks"
    /\ stop' = [stop EXCEPT ![s].pc = "signal"]
    /\ UNCHANGED <<stopping, conns, stopCh, requestsWg, serve, requests, closed,
                   torn, socket, evict, loop, hooked, observed>>

SignalStop(s) ==
    /\ stop[s].pc = "signal"
    /\ stopCh' = TRUE
    /\ stop' = [stop EXCEPT ![s].pc = "wait"]
    /\ UNCHANGED <<stopping, conns, requestsWg, serve, requests, closed, torn,
                   socket, evict, loop, hooked, observed>>

StopReturns(s) ==
    /\ stop[s].pc = "wait" /\ loop.pc = "exited"
    /\ stop' = [stop EXCEPT ![s].pc = "returned"]
    /\ UNCHANGED <<stopping, conns, stopCh, requestsWg, serve, requests, closed,
                   torn, socket, evict, loop, hooked, observed>>

(* The context of the caller ends while Stop waits. *)
StopExpires(s) ==
    /\ MayExpire
    /\ stop[s].pc \in {"drain", "wait"}
    /\ stop' = [stop EXCEPT ![s].pc = "expired"]
    /\ UNCHANGED <<stopping, conns, stopCh, requestsWg, serve, requests, closed,
                   torn, socket, evict, loop, hooked, observed>>

-----------------------------------------------------------------------------
ServeStep(c) ==
    \/ Accept(c) \/ registerConn(c) \/ ConnectionOpened(c) \/ StartPumps(c)
    \/ DrainAndClose(c) \/ ReadFails(c) \/ GiveUp(c) \/ EvictTear(c)

LoopStep ==
    \/ \E c \in Conns : Receive(c)
    \/ Remove \/ runDisconnectHooks \/ LoopMark \/ LoopTear \/ ConnectionClosed
    \/ Decide \/ StopSignalled

StopStep(s) ==
    \/ Snapshot(s) \/ SweepMark(s) \/ SweepTear(s) \/ SweepDone(s)
    \/ Drained(s) \/ StopHooks(s) \/ SignalStop(s) \/ StopReturns(s)

(* Every caller has come back from Stop. *)
Stopped ==
    /\ \A s \in Stoppers : stop[s].pc \in {"returned", "expired"}
    /\ UNCHANGED vars

Next ==
    \/ \E c \in Conns :
        \/ ServeStep(c)
        \/ HookRejects(c) \/ PeerLeaves(c) \/ dispatchRequest(c) \/ EvictMark(c)
    \/ RequestDone
    \/ LoopStep
    \/ \E s \in Stoppers : StopStep(s) \/ StopBegin(s) \/ StopExpires(s)
    \/ Stopped

Spec == Init /\ [][Next]_vars

(* Every goroutine that can take its next step does, and the application's *)
(* handlers and hooks return.  Whether a peer leaves, a hook rejects or a  *)
(* Stop begins is nobody's duty.                                           *)
Fairness ==
    /\ \A c \in Conns : WF_vars(ServeStep(c))
    /\ WF_vars(RequestDone)
    /\ WF_vars(LoopStep)
    /\ \A s \in Stoppers : WF_vars(StopStep(s))

FairSpec == Spec /\ Fairness

-----------------------------------------------------------------------------
(* No connection slips past Stop: once a Stop has swept, every connection   *)
(* of the fan-out set is closed, whatever accept path it raced.  The insert *)
(* of registerConn either precedes the snapshot or sees the flag.           *)
SweepMissesNobody ==
    \A s \in Stoppers :
        stop[s].pc \in {"drain", "hooks", "signal", "wait", "returned"} =>
            \A c \in conns : closed[c]

(* The disconnect hooks run at most once for a connection, only for one that *)
(* was registered, and a registered connection whose hooks have not run is   *)
(* still in the fan-out set or in the hands of run().                        *)
HooksExactlyOnce ==
    \A c \in Conns :
        LET accepted == serve[c] \in {"registered", "ready", "reading",
                                      "unregister", "ended"}
            pending == c \in conns \/ (loop.conn = c /\ loop.pc = "hooks")
        IN hooked[c] = IF accepted /\ ~ pending THEN 1 ELSE 0

(* A client that can talk to the server is in the set that Broadcast and  *)
(* ForEachConn reach (registerConn), for as long as its frames are read.  *)
VisibleInFanOut ==
    \A c \in Conns : serve[c] \in {"ready", "reading", "unregister"} => c \in conns

(* The observer is told of a close only after the open of the same *)
(* connection, and at most once (registerConn).                    *)
ObserverInOrder ==
    [][\A c \in Conns :
          /\ observed'[c] = "opened" /\ observed[c] # "opened" => observed[c] = "nothing"
          /\ observed'[c] = "closed" /\ observed[c] # "closed" => observed[c] = "opened"]_vars

(* A Stop that was called comes back, also when its context never expires. *)
StopTerminates ==
    \A s \in Stoppers :
        stop[s].pc = "snapshot" ~> stop[s].pc \in {"returned", "expired"}

(* A connection is torn down once: from the accept to the last hook it is  *)
(* in the fan-out set, then in the hands of run(), then gone with its      *)
(* hooks run exactly once (registerConn, run).                             *)
TeardownSound ==
    /\ TypeOK
    /\ HooksExactlyOnce
    /\ VisibleInFanOut
=============================================================================
