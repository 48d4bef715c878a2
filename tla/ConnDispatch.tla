---------------------------- MODULE ConnDispatch ----------------------------
(***************************************************************************)
(* Requests, subscriptions and server-driven refreshes of the connections  *)
(* (connection.go, subscription.go): the read loop of each connection      *)
(* dispatches frames, every request, subscribe and refresh executes on a   *)
(* goroutine of its own, and all of them share the request table of their  *)
(* connection and the server's subscription manager.                       *)
(*                                                                         *)
(* An execution is a run with a program counter.  One action is one        *)
(* critical section or one read of shared state of the code, so the gaps   *)
(* between them (a context checked, then a subscription registered) are    *)
(* gaps in which every other goroutine can act.                            *)
(*                                                                         *)
(* Handlers are the application's.  What matters of them here is that a    *)
(* query reads the data at one moment and declares trigger keys, and that  *)
(* a mutation changes the data and triggers the keys of what it changed:   *)
(* the data is a version number, and the keys a query declares depend on   *)
(* its parameters and on the version it read.                              *)
(***************************************************************************)
EXTENDS Integers, FiniteSets

CONSTANTS
    Conns,              \* connections
    SubIds,             \* IDs the clients use for subscriptions
    ReqIds,             \* IDs the clients use for requests
    Keys,               \* trigger keys
    Params,             \* request parameters
    KeysAt,             \* KeysAt[p][v]: keys declared at version v for p
    None,               \* no run, no subscription, no entry
    MaxRuns,            \* bound: executions, numbered in order of creation
    MaxFrames,          \* bound: frames each client sends
    MaxVersion,         \* bound: mutations of the data
    MaxSubscriptions,   \* ServerOptions.MaxSubscriptions, 0 for no cap
    MaxConcurrentRequests,       \* the per-connection cap, 0 for none
    MaxServerConcurrentRequests, \* the server-wide cap, 0 for none
    Frames,             \* the kinds of frame the clients send
    Background,         \* whether Server.TriggerRefresh callers exist
    MayFail,            \* whether a handler may return an error
    MayClose            \* whether a connection may close

Runs == 1..MaxRuns
Ids == SubIds \cup ReqIds

ASSUME BoundsAssumption ==
    /\ MaxRuns \in Nat /\ MaxFrames \in Nat /\ MaxVersion \in Nat
    /\ MaxSubscriptions \in Nat
    /\ MaxConcurrentRequests \in Nat /\ MaxServerConcurrentRequests \in Nat
    /\ KeysAt \in [Params -> [0..MaxVersion -> SUBSET Keys]]
    /\ Frames \subseteq {"request", "subscribe", "unsubscribe", "cancel"}

(* A client numbers its requests and subscriptions with one counter. *)
ASSUME IdsAssumption == SubIds \cap ReqIds = {}

VARIABLES
    closed, swept, byConn, byKey, obj,              \* SubscriptionManager
    requests, reqSeq, run, ctx, victim, found,      \* RequestTable
    exec,       \* exec[r]: where execution r is and what it carries
    reader,     \* reader[c]: what the read loop of c is in the middle of
    reqSem,     \* reqSem[c]: request slots in use on c
    serverSem,  \* request slots in use on the server
    db,         \* the version of the application's data
    frames,     \* frames[c]: frames the client of c has sent
    wire,       \* wire[c][i]: the last frame sent on c for ID i
    best,       \* best[c][i]: the newest version sent on c for ID i
    failed,     \* failed[c][i]: an error frame was sent on c for ID i
    owed,       \* owed[s]: the newest version whose trigger found s
    wanted      \* wanted[c][i]: the last frame for i was not unsubscribe

smVars == <<closed, swept, byConn, byKey, obj>>
rtVars == <<closed, requests, reqSeq, run, ctx, victim, found>>
outVars == <<wire, best, failed>>
slotVars == <<reqSem, serverSem>>
vars == <<smVars, rtVars, exec, reader, slotVars, db, frames, outVars, owed,
          wanted>>

(* A subscription object is identified by the run that allocates it. *)
SM == INSTANCE SubscriptionManager WITH Subs <- Runs, NoSub <- None
RT == INSTANCE RequestTable

(* None stands for Go's nil: it is no run, subscription or table entry. *)
ASSUME NoneAssumption ==
    None \notin Runs /\ None \notin SM!Subscription /\ None \notin RT!Entry

Kinds == {"request", "subscribe", "refresh", "background"}
Steps == {"idle", "starting", "handler", "check", "has", "updateKeys",
          "updateParams", "register", "respond", "flush", "unwind",
          "deferred", "finish", "start", "registerRefresh", "cancelOld", "done"}

Exec == [kind : Kinds, pc : Steps, then : Steps,
         conn : Conns \cup {None}, id : Ids \cup {None},
         params : Params \cup {None}, sub : Runs \cup {None},
         ver : 0..MaxVersion, keys : SUBSET Keys, err : BOOLEAN,
         rq : SUBSET Keys, toRefresh : SUBSET Runs]

Idle == [kind |-> "request", pc |-> "idle", then |-> "idle", conn |-> None,
         id |-> None, params |-> None, sub |-> None, ver |-> 0, keys |-> {},
         err |-> FALSE, rq |-> {}, toRefresh |-> {}]

NoFrame == [type |-> "none", ver |-> 0, params |-> None]

(* The types of the variables this module adds. *)
TypeOK ==
    /\ exec \in [Runs -> Exec]
    /\ reader \in [Conns -> [step : {"idle", "cancelOld", "cancel",
                                     "cancelThenDrop", "drop"},
                             id : Ids \cup {None}, run : Runs \cup {None}]]
    /\ reqSem \in [Conns -> Nat] /\ serverSem \in Nat
    /\ db \in 0..MaxVersion
    /\ owed \in [Runs -> 0..MaxVersion]

ReaderIdle == [step |-> "idle", id |-> None, run |-> None]

Init ==
    /\ SM!SubInit
    /\ RT!Init
    /\ exec = [r \in Runs |-> Idle]
    /\ reader = [c \in Conns |-> ReaderIdle]
    /\ reqSem = [c \in Conns |-> 0]
    /\ serverSem = 0
    /\ db = 0
    /\ frames = [c \in Conns |-> 0]
    /\ wire = [c \in Conns |-> [i \in Ids |-> NoFrame]]
    /\ best = [c \in Conns |-> [i \in Ids |-> 0]]
    /\ failed = [c \in Conns |-> [i \in Ids |-> FALSE]]
    /\ owed = [r \in Runs |-> 0]
    /\ wanted = [c \in Conns |-> [i \in Ids |-> FALSE]]

-----------------------------------------------------------------------------
(* Helpers. *)

At(r, step) == exec[r].pc = step

GoTo(r, step) == exec' = [exec EXCEPT ![r].pc = step]

(* The run the next execution gets; executions are numbered in order. *)
Free == {r \in Runs : At(r, "idle")}
IsNext(r) == r \in Free /\ \A q \in Free : r <= q

(* Frames on the transport are delivered in the order they are sent, and  *)
(* sendRaw drops a frame on a closed connection.                          *)
SendError(c, i) ==
    IF closed[c]
    THEN UNCHANGED outVars
    ELSE /\ wire' = [wire EXCEPT ![c][i] = [NoFrame EXCEPT !.type = "error"]]
         /\ failed' = [failed EXCEPT ![c][i] = TRUE]
         /\ UNCHANGED best

SendResponse(c, i, p, v) ==
    IF closed[c]
    THEN UNCHANGED outVars
    ELSE /\ wire' = [wire EXCEPT ![c][i] =
                         [type |-> "response", ver |-> v, params |-> p]]
         /\ best' = [best EXCEPT ![c][i] = IF v > @ THEN v ELSE @]
         /\ UNCHANGED failed

-----------------------------------------------------------------------------
(* The read loop: handleIncomingMessage. *)

(* acquireRequestSlot succeeds when both caps have room.  A per-connection *)
(* slot taken and rolled back is seen by nobody: only this read loop       *)
(* acquires it.                                                            *)
SlotFree(c) ==
    /\ MaxConcurrentRequests > 0 => reqSem[c] < MaxConcurrentRequests
    /\ MaxServerConcurrentRequests > 0 => serverSem < MaxServerConcurrentRequests

Receive(c, type) ==
    /\ type \in Frames
    /\ reader[c] = ReaderIdle
    /\ frames[c] < MaxFrames
    /\ frames' = [frames EXCEPT ![c] = @ + 1]

(* dispatchRequest and dispatchSubscribe up to the go statement: the slot, *)
(* the entry, and a context that a later frame can cancel.                 *)
Dispatch(c, i, type, p, r) ==
    /\ Receive(c, type)
    /\ SlotFree(c)
    /\ IsNext(r)
    /\ RT!registerRequest(c, i, r)
    /\ exec' = [exec EXCEPT ![r] = [Idle EXCEPT
            !.kind = type, !.conn = c, !.id = i, !.params = p,
            !.pc = IF victim'[r] = None THEN "handler" ELSE "starting"]]
    /\ reader' = [reader EXCEPT ![c] =
            IF victim'[r] = None THEN ReaderIdle
            ELSE [step |-> "cancelOld", id |-> i, run |-> r]]
    /\ reqSem' = [reqSem EXCEPT ![c] = @ + 1]
    /\ serverSem' = serverSem + 1
    /\ wanted' = [wanted EXCEPT ![c][i] = type = "subscribe"]
    /\ UNCHANGED <<smVars, db, outVars, owed>>

(* The end of registerRequest, then the go statement. *)
DispatchCancelOld(c) ==
    /\ reader[c].step = "cancelOld"
    /\ RT!CancelOld(reader[c].run)
    /\ exec' = [exec EXCEPT ![reader[c].run].pc = "handler"]
    /\ reader' = [reader EXCEPT ![c] = ReaderIdle]
    /\ UNCHANGED <<smVars, slotVars, db, frames, outVars, owed, wanted>>

(* A frame beyond a cap is answered with CodeTooManyRequests; it registers *)
(* nothing and cancels nothing.                                            *)
RejectFrame(c, i, type) ==
    /\ Receive(c, type)
    /\ ~ SlotFree(c)
    /\ SendError(c, i)
    /\ wanted' = [wanted EXCEPT ![c][i] = type = "subscribe"]
    /\ UNCHANGED <<smVars, rtVars, exec, reader, slotVars, db, owed>>

(* A cancel or unsubscribe frame: cancelRequest looks the ID up, *)
CancelFrame(c, i, type) ==
    /\ Receive(c, type)
    /\ RT!FindRequest(c, i)
    /\ reader' = [reader EXCEPT ![c] =
            [step |-> CASE found'[c] = None /\ type = "cancel" -> "idle"
                        [] found'[c] = None /\ type = "unsubscribe" -> "drop"
                        [] found'[c] # None /\ type = "cancel" -> "cancel"
                        [] OTHER -> "cancelThenDrop",
             id |-> IF found'[c] = None /\ type = "cancel" THEN None ELSE i,
             run |-> None]]
    /\ wanted' = [wanted EXCEPT ![c][i] = @ /\ type = "cancel"]
    /\ UNCHANGED <<smVars, exec, slotVars, db, outVars, owed>>

(* ... then cancels the run it found, outside the lock, *)
CancelFoundRun(c) ==
    /\ reader[c].step \in {"cancel", "cancelThenDrop"}
    /\ RT!CancelFound(c)
    /\ reader' = [reader EXCEPT ![c] =
            IF @.step = "cancel" THEN ReaderIdle ELSE [@ EXCEPT !.step = "drop"]]
    /\ UNCHANGED <<smVars, exec, slotVars, db, frames, outVars, owed, wanted>>

(* ... and an unsubscribe goes on to handleUnsubscribe. *)
handleUnsubscribe(c) ==
    /\ reader[c].step = "drop"
    /\ SM!unregister(c, reader[c].id)
    /\ reader' = [reader EXCEPT ![c] = ReaderIdle]
    /\ UNCHANGED <<rtVars, exec, slotVars, db, frames, outVars, owed, wanted>>

-----------------------------------------------------------------------------
(* handleRequest, runSubscribe and refreshSubscription. *)

Triggers(v) == UNION {KeysAt[p][v] : p \in Params}

(* A mutation commits the next version and queues its triggers, which it *)
(* may also flush before it returns (TriggerRefreshNow).                 *)
Mutate(r) ==
    /\ At(r, "handler") /\ exec[r].kind = "request"
    /\ db < MaxVersion
    /\ db' = db + 1
    /\ \E step \in {"flush", "check"} :
        exec' = [exec EXCEPT ![r] = [@ EXCEPT !.ver = db + 1,
                    !.rq = Triggers(db), !.pc = step, !.then = "check"]]
    /\ UNCHANGED <<smVars, rtVars, reader, slotVars, frames, outVars, owed, wanted>>

(* A request that changes nothing. *)
Lookup(r) ==
    /\ At(r, "handler") /\ exec[r].kind = "request"
    /\ GoTo(r, "check")
    /\ UNCHANGED <<smVars, rtVars, reader, slotVars, db, frames, outVars, owed, wanted>>

(* A query reads the data and declares its keys; a refresh runs with the  *)
(* parameters its subscription object holds when it starts.               *)
Query(r) ==
    /\ At(r, "handler") /\ exec[r].kind \in {"subscribe", "refresh"}
    /\ LET p == IF exec[r].kind = "refresh" THEN obj[exec[r].sub].params
                ELSE exec[r].params
       IN exec' = [exec EXCEPT ![r] = [@ EXCEPT !.params = p, !.ver = db,
                        !.keys = KeysAt[p][db], !.pc = "check"]]
    /\ UNCHANGED <<smVars, rtVars, reader, slotVars, db, frames, outVars, owed, wanted>>

(* A handler, middleware or principal provider returns an error, or panics. *)
HandlerFails(r) ==
    /\ MayFail
    /\ At(r, "handler")
    /\ exec' = [exec EXCEPT ![r].err = TRUE, ![r].pc = "check"]
    /\ UNCHANGED <<smVars, rtVars, reader, slotVars, db, frames, outVars, owed, wanted>>

(* The handler has returned and its context is cancelled.  A refresh ends   *)
(* silently unless its handler panicked; a subscribe does when the cancel   *)
(* lands between its two checks.                                            *)
ReturnCancelled(r) ==
    /\ At(r, "check") /\ ctx[r] # "live"
    /\ GoTo(r, "unwind")
    /\ \/ /\ exec[r].kind # "refresh" \/ exec[r].err
          /\ SendError(exec[r].conn, exec[r].id)
       \/ exec[r].kind = "refresh" /\ UNCHANGED outVars
       \/ exec[r].kind = "subscribe" /\ ~ exec[r].err /\ UNCHANGED outVars
    /\ UNCHANGED <<smVars, rtVars, reader, slotVars, db, frames, owed, wanted>>

ReturnError(r) ==
    /\ At(r, "check") /\ ctx[r] = "live" /\ exec[r].err
    /\ GoTo(r, "unwind")
    /\ SendError(exec[r].conn, exec[r].id)
    /\ UNCHANGED <<smVars, rtVars, reader, slotVars, db, frames, owed, wanted>>

(* The last read of the context before the run acts on its result: from *)
(* here on a cancel comes too late.                                     *)
ReturnOK(r) ==
    /\ At(r, "check") /\ ctx[r] = "live" /\ ~ exec[r].err
    /\ GoTo(r, IF exec[r].keys = {} THEN "respond"
               ELSE IF exec[r].kind = "refresh" THEN "updateKeys" ELSE "has")
    /\ UNCHANGED <<smVars, rtVars, reader, slotVars, db, frames, outVars, owed, wanted>>

HasSubscription(r) ==
    /\ At(r, "has")
    /\ GoTo(r, IF SM!has(exec[r].conn, exec[r].id) THEN "updateKeys" ELSE "register")
    /\ UNCHANGED <<smVars, rtVars, reader, slotVars, db, frames, outVars, owed, wanted>>

UpdateKeys(r) ==
    /\ At(r, "updateKeys")
    /\ SM!updateKeys(exec[r].conn, exec[r].id, exec[r].keys)
    /\ GoTo(r, IF exec[r].kind = "refresh" THEN "respond" ELSE "updateParams")
    /\ UNCHANGED <<rtVars, reader, slotVars, db, frames, outVars, owed, wanted>>

UpdateParams(r) ==
    /\ At(r, "updateParams")
    /\ SM!updateParams(exec[r].conn, exec[r].id, exec[r].params, FALSE)
    /\ GoTo(r, "respond")
    /\ UNCHANGED <<rtVars, reader, slotVars, db, frames, outVars, owed, wanted>>

Register(r) ==
    /\ At(r, "register")
    /\ LET c == exec[r].conn
           i == exec[r].id
       IN \/ /\ SM!RegisterOK(r, c, i, exec[r].keys, exec[r].params, FALSE)
             /\ GoTo(r, "respond") /\ UNCHANGED outVars
          \/ /\ SM!RegisterLimited(c, i)
             /\ GoTo(r, "unwind") /\ SendError(c, i)
          \/ /\ SM!RegisterRefused(c)
             /\ GoTo(r, "unwind") /\ UNCHANGED outVars
    /\ UNCHANGED <<rtVars, reader, slotVars, db, frames, owed, wanted>>

Respond(r) ==
    /\ At(r, "respond")
    /\ SendResponse(exec[r].conn, exec[r].id, exec[r].params, exec[r].ver)
    /\ exec' = [exec EXCEPT ![r].then = "unwind",
                            ![r].pc = IF @ = "respond" /\ exec[r].rq # {}
                                      THEN "flush" ELSE "unwind"]
    /\ UNCHANGED <<smVars, rtVars, reader, slotVars, db, frames, owed, wanted>>

(* processRefreshQueue: one lookup per queued key, *)
FlushKey(r) ==
    /\ At(r, "flush")
    /\ \E k \in exec[r].rq :
        LET subs == SM!getSubscriptionsForKey(k) IN
        /\ exec' = [exec EXCEPT ![r].rq = @ \ {k},
                                ![r].toRefresh = @ \cup subs]
        /\ owed' = [s \in Runs |-> IF s \in subs /\ owed[s] < exec[r].ver
                                   THEN exec[r].ver ELSE owed[s]]
    /\ UNCHANGED <<smVars, rtVars, reader, slotVars, db, frames, outVars, wanted>>

(* The execution a refresh goroutine for s starts as. *)
RefreshOf(s) ==
    [Idle EXCEPT !.kind = "refresh", !.pc = "start", !.sub = s,
                 !.conn = obj[s].conn, !.id = obj[s].id]

(* ... then one goroutine per subscription found. *)
Spawn(r, q) ==
    /\ At(r, "flush") /\ exec[r].rq = {}
    /\ IsNext(q)
    /\ \E s \in exec[r].toRefresh :
        exec' = [exec EXCEPT ![q] = RefreshOf(s),
                    ![r].toRefresh = @ \ {s},
                    ![r].pc = IF exec[r].toRefresh = {s} THEN exec[r].then ELSE @]
    /\ UNCHANGED <<smVars, rtVars, reader, slotVars, db, frames, outVars, owed, wanted>>

FlushNothing(r) ==
    /\ At(r, "flush") /\ exec[r].rq = {} /\ exec[r].toRefresh = {}
    /\ GoTo(r, exec[r].then)
    /\ UNCHANGED <<smVars, rtVars, reader, slotVars, db, frames, outVars, owed, wanted>>

(* Faulty: the refresh that was deferred to this run is forgotten. *)
Unwind_ForgetsRefresh(r) ==
    /\ At(r, "unwind")
    /\ RT!unregisterRequest(r)
    /\ GoTo(r, IF exec[r].kind = "refresh" THEN "done" ELSE "finish")
    /\ UNCHANGED <<smVars, reader, slotVars, db, frames, outVars, owed, wanted>>

(* The deferred calls of every run: unregisterRequest first, *)
Unwind(r) ==
    /\ At(r, "unwind")
    /\ RT!unregisterRequest(r)
    /\ GoTo(r, CASE exec[r].kind = "refresh" -> "done"
                 [] RT!refreshAgain(r) -> "deferred"
                 [] OTHER -> "finish")
    /\ UNCHANGED <<smVars, reader, slotVars, db, frames, outVars, owed, wanted>>

(* ... then runDeferredRefresh, *)
runDeferredRefresh(r, q) ==
    /\ At(r, "deferred")
    /\ LET s == SM!get(exec[r].conn, exec[r].id) IN
       IF s = None
       THEN GoTo(r, "finish") /\ q = r
       ELSE /\ IsNext(q)
            /\ exec' = [exec EXCEPT ![q] = RefreshOf(s), ![r].pc = "finish"]
    /\ UNCHANGED <<smVars, rtVars, reader, slotVars, db, frames, outVars, owed, wanted>>

(* Faulty: a run on a closed connection keeps its server slot. *)
Finish_LeaksOnClose(r) ==
    /\ At(r, "finish")
    /\ GoTo(r, "done")
    /\ reqSem' = [reqSem EXCEPT ![exec[r].conn] = @ - 1]
    /\ serverSem' = IF closed[exec[r].conn] THEN serverSem ELSE serverSem - 1
    /\ UNCHANGED <<smVars, rtVars, reader, db, frames, outVars, owed, wanted>>

(* Faulty: a cancelled run keeps its slots. *)
Finish_LeaksOnCancel(r) ==
    /\ At(r, "finish")
    /\ GoTo(r, "done")
    /\ IF ctx[r] = "ErrClientCanceled"
       THEN UNCHANGED slotVars
       ELSE /\ reqSem' = [reqSem EXCEPT ![exec[r].conn] = @ - 1]
            /\ serverSem' = serverSem - 1
    /\ UNCHANGED <<smVars, rtVars, reader, db, frames, outVars, owed, wanted>>

(* ... and requestsWg.Done with releaseRequestSlot.  A frame that arrives *)
(* between the two releases is rejected as if it came before both.        *)
Finish(r) ==
    /\ At(r, "finish")
    /\ GoTo(r, "done")
    /\ reqSem' = [reqSem EXCEPT ![exec[r].conn] = @ - 1]
    /\ serverSem' = serverSem - 1
    /\ UNCHANGED <<smVars, rtVars, reader, db, frames, outVars, owed, wanted>>

(* Faulty: a refresh gives up when a run already holds its ID. *)
RefreshStart_DropsIfBusy(r) ==
    /\ At(r, "start")
    /\ GoTo(r, IF /\ SM!has(exec[r].conn, exec[r].id)
                  /\ requests[exec[r].conn][exec[r].id] = None
               THEN "registerRefresh" ELSE "done")
    /\ UNCHANGED <<smVars, rtVars, reader, slotVars, db, frames, outVars, owed, wanted>>

(* The start of refreshSubscription: does the subscription still exist? *)
RefreshStart(r) ==
    /\ At(r, "start")
    /\ GoTo(r, IF SM!has(exec[r].conn, exec[r].id) THEN "registerRefresh" ELSE "done")
    /\ UNCHANGED <<smVars, rtVars, reader, slotVars, db, frames, outVars, owed, wanted>>

RegisterRefresh(r) ==
    /\ At(r, "registerRefresh")
    /\ RT!registerRefresh(exec[r].conn, exec[r].id, r)
    /\ GoTo(r, CASE run'[r].status = "gone" -> "done"
                 [] victim'[r] # None -> "cancelOld"
                 [] OTHER -> "handler")
    /\ UNCHANGED <<smVars, reader, slotVars, db, frames, outVars, owed, wanted>>

RefreshCancelOld(r) ==
    /\ At(r, "cancelOld")
    /\ RT!CancelOld(r)
    /\ GoTo(r, "handler")
    /\ UNCHANGED <<smVars, reader, slotVars, db, frames, outVars, owed, wanted>>

-----------------------------------------------------------------------------
(* The data changes outside every request, and Server.TriggerRefresh fires. *)
BackgroundMutation(r) ==
    /\ Background /\ db < MaxVersion
    /\ IsNext(r)
    /\ db' = db + 1
    /\ exec' = [exec EXCEPT ![r] = [Idle EXCEPT !.kind = "background",
                    !.ver = db + 1, !.rq = Triggers(db),
                    !.pc = "flush", !.then = "done"]]
    /\ UNCHANGED <<smVars, rtVars, reader, slotVars, frames, outVars, owed, wanted>>

(* closeWithCause: the flag and the cancels under c.mu, then the sweep. *)
closeWithCause(c) ==
    /\ MayClose
    /\ RT!MarkClosed(c)
    /\ SM!SubMarkClosed(c)
    /\ UNCHANGED <<exec, reader, slotVars, db, frames, outVars, owed, wanted>>

(* Faulty: the subscriptions of a closed connection stay under their keys. *)
Sweep_KeepsKeys(c) ==
    /\ closed[c] /\ ~ swept[c]
    /\ byConn' = [byConn EXCEPT ![c] = [i \in Ids |-> None]]
    /\ swept' = [swept EXCEPT ![c] = TRUE]
    /\ UNCHANGED <<byKey, obj, rtVars, exec, reader, slotVars, db, frames, outVars,
                   owed, wanted>>

Sweep(c) ==
    /\ SM!unregisterConn(c)
    /\ UNCHANGED <<rtVars, exec, reader, slotVars, db, frames, outVars, owed, wanted>>

Quiescent ==
    /\ \A r \in Runs : exec[r].pc \in {"idle", "done"}
    /\ \A c \in Conns : reader[c] = ReaderIdle /\ closed[c] = swept[c]

(* Nothing is left to do within the bounds. *)
Stopped == Quiescent /\ UNCHANGED vars

Next ==
    \/ \E c \in Conns :
        \/ DispatchCancelOld(c) \/ CancelFoundRun(c) \/ handleUnsubscribe(c)
        \/ closeWithCause(c) \/ Sweep(c)
        \/ \E i \in SubIds, p \in Params, r \in Runs : Dispatch(c, i, "subscribe", p, r)
        \/ \E i \in ReqIds, r \in Runs : Dispatch(c, i, "request", None, r)
        \/ \E i \in SubIds : CancelFrame(c, i, "unsubscribe") \/ RejectFrame(c, i, "subscribe")
        \/ \E i \in ReqIds : CancelFrame(c, i, "cancel") \/ RejectFrame(c, i, "request")
    \/ \E r \in Runs :
        \/ Mutate(r) \/ Lookup(r) \/ Query(r) \/ HandlerFails(r)
        \/ ReturnCancelled(r) \/ ReturnError(r) \/ ReturnOK(r)
        \/ HasSubscription(r) \/ UpdateKeys(r) \/ UpdateParams(r)
        \/ Register(r) \/ Respond(r) \/ FlushKey(r) \/ FlushNothing(r)
        \/ Unwind(r) \/ Finish(r)
        \/ RefreshStart(r) \/ RegisterRefresh(r) \/ RefreshCancelOld(r)
        \/ BackgroundMutation(r)
        \/ \E q \in Runs : Spawn(r, q) \/ runDeferredRefresh(r, q)
    \/ Stopped

Spec == Init /\ [][Next]_vars

-----------------------------------------------------------------------------
(* Every slot acquireRequestSlot took is given back exactly once: the      *)
(* counts are those of the requests and subscribes that have not finished, *)
(* on every path through the handlers, and the caps hold.                  *)
SlotsMatchRuns ==
    LET Holding(C) == {r \in Runs : /\ exec[r].kind \in {"request", "subscribe"}
                                    /\ exec[r].conn \in C
                                    /\ exec[r].pc \notin {"idle", "done"}}
    IN /\ \A c \in Conns : reqSem[c] = Cardinality(Holding({c}))
       /\ serverSem = Cardinality(Holding(Conns))
       /\ MaxConcurrentRequests > 0 =>
             \A c \in Conns : reqSem[c] <= MaxConcurrentRequests
       /\ MaxServerConcurrentRequests > 0 =>
             serverSem <= MaxServerConcurrentRequests

(* A trigger that finds a subscription is never lost: once everything has  *)
(* run, the subscriber was sent a result at least as new as the change, or *)
(* an error on that ID, however the refresh was deferred to a running      *)
(* subscribe, superseded, or cancelled by a re-subscribe.                  *)
NoTriggerLost ==
    Quiescent =>
        \A c \in Conns, i \in SubIds :
            SM!has(c, i) => \/ best[c][i] >= owed[byConn[c][i]]
                            \/ failed[c][i]

(* A client is answered: when everything has run, a subscribe that is still *)
(* wanted on an open connection got a result or an error.                   *)
SubscribeAnswered ==
    Quiescent =>
        \A c \in Conns, i \in SubIds :
            wanted[c][i] /\ ~ closed[c] => wire[c][i].type # "none"

(* A refresh never disturbs the client's own calls: the context of a request *)
(* or subscribe ends only through a frame of its client, a close, or its     *)
(* own return.                                                               *)
OnlyClientCancels ==
    [][\A r \in Runs :
          (/\ ~ At(r, "idle") /\ exec[r].kind \in {"request", "subscribe"}
           /\ ctx[r] = "live" /\ ctx'[r] # "live")
          => \/ At(r, "unwind")
             \/ closed[exec[r].conn] # closed'[exec[r].conn]
             \/ reader[exec[r].conn] # reader'[exec[r].conn]]_vars

IndexSpec == SM!SubSpec
TableSpec == RT!Spec

(* The handlers drive the subscription indexes and the request table only  *)
(* through the operations those modules specify: the composition implements *)
(* both, so what is proved of each holds here too.                          *)
RefinesComponents == IndexSpec /\ TableSpec

(* No path through the handlers, however it is cut short by an error, a cap, *)
(* a cancel or a close, leaks a slot or leaves a subscribe without a reply.  *)
DispatchSound ==
    /\ TypeOK
    /\ SlotsMatchRuns
    /\ SubscribeAnswered
=============================================================================
