------------------------------- MODULE Invoke -------------------------------
(***************************************************************************)
(* One call of a registered handler, from its arrival on any of the four   *)
(* transports to its answer: the socket (Conn.handleRequest), REST         *)
(* (RESTAdapter.handleRequest), MCP (Adapter.callTool) and Server.Invoke.  *)
(* All share Server.invoke: the principal, the middleware chain, the       *)
(* refresh queue and the recovery of panics.                               *)
(*                                                                         *)
(* An argument is the position of the parameter it is meant for (0 is a    *)
(* JSON null), so a binding is right when every argument is at its own     *)
(* position.  Values and messages are left out.  `call' is the one call  *)
(* that is followed: executions share none of this state, and the          *)
(* interleaving of a call with others is the subject of the other modules. *)
(***************************************************************************)
EXTENDS Routes

CONSTANT
    JSON         \* JSON[t]: the kind of JSON value that t is written as

VARIABLES
    server,     \* a server was built from the registry (attachedServer)
    mounted,    \* the adapters built: subset of {"rest", "mcp"}
    routes,     \* RESTAdapter.routes: the wire methods it serves
    tools,      \* mcp.Adapter.tools: the wire methods it serves
    call        \* the call that is followed

invVars == <<server, mounted, routes, tools, call>>

\* The principal of an execution: none resolved yet, an anonymous one, or the
\* one a wrapper or a connection's provider supplies.
Boxes == {"unset", "nil", "wrapper", "provider"}

\* What a connection's provider may do when it runs.
Providers == {"none", "nil", "provider", "fails", "panics"}

\* Outcomes of a chain: a result, an error, or a panic that escapes.
Errors == {"app", "invalidParams", "validation", "internal", "canceled",
           "methodNotFound", "invalidRequest"} \cup ErrorNames

Idle == [pc |-> "idle"]

InvInit ==
    /\ server = FALSE /\ mounted = {} /\ routes = {} /\ tools = {}
    /\ call = Idle

-----------------------------------------------------------------------------
(* Building the server and the adapters.                                   *)

Setup == prog \in Servers /\ phase = "setup"

\* An adapter that cannot be built ends the program.
Refuse == Panic /\ UNCHANGED <<ops, invVars>>

\* NewServer attaches itself to the registry.
NewServer ==
    /\ Setup /\ ~server
    /\ server' = TRUE
    /\ UNCHANGED <<regVars, mounted, routes, tools, call>>

\* NewRESTAdapter: the routes are computed once, with or without a server,
\* and registered; conflicting patterns panic.
NewRESTAdapter ==
    /\ Setup /\ "rest" \notin mounted
    /\ \/ /\ ~Mountable(buildRoutes) /\ Refuse
       \/ /\ Mountable(buildRoutes)
          /\ mounted' = mounted \cup {"rest"}
          /\ routes' = buildRoutes
          /\ UNCHANGED <<regVars, server, tools, call>>

\* mcp.NewAdapter: a RegisterMCP group without a tool is a mistake.
NewMCPAdapter ==
    /\ Setup /\ server /\ "mcp" \notin mounted
    /\ LET toolless == {s \in mcpOnly : \A w \in mcpTools : w[1] # s}
       IN \/ toolless # {} /\ Refuse
          \/ /\ toolless = {}
             /\ mounted' = mounted \cup {"mcp"}
             /\ tools' = {w \in mcpTools : lookupMethod(w)}
             /\ UNCHANGED <<regVars, server, routes, call>>

\* The program starts to serve what it built.
Serve ==
    /\ Setup /\ (server \/ "rest" \in mounted)
    /\ phase' = "serving"
    /\ UNCHANGED <<prog, fields, groups, socketGroups, handlers, restGroups,
                   mcpOnly, mcpTools, pushEvents, groupEnums, sharedEnums,
                   errorCodes, errorMapped, reserved, ops, invVars>>

-----------------------------------------------------------------------------
(* Arguments.                                                              *)

\* A client that calls with positional arguments leaves out the last or none.
Positional(w, full) ==
    [i \in 1..(IF full THEN Len(Ins(w)) ELSE Len(Ins(w)) - 1) |-> i]

\* Faulty: the path parameters are collected from the last to the first.
restParams_Reversed(w, full) ==
    LET path == pathParams(w)
    IN [i \in DOMAIN path |-> path[Len(path) + 1 - i]] \o
       (IF full THEN bodyParam(w) ELSE <<>>)

\* handleRequest joins the path parameters, in order, and then the body.
restParams(w, full) == pathParams(w) \o (IF full THEN bodyParam(w) ELSE <<>>)

HasBody(w) == bodyParam(w) # <<>>

\* mcpBinding: a single struct parameter is the arguments object itself; an
\* absent pointer parameter is a null, any other absent one is refused.
Required(w, i) == ~Ins(w)[i].ptr

\* bindArguments: the last argument may be absent.
bindArguments(w, full) ==
    [i \in DOMAIN Ins(w) |-> IF full \/ i < Len(Ins(w)) THEN i ELSE 0]

\* unmarshalParam: the value meant for v decodes as parameter i's type when the
\* two are written as the same kind of JSON (a sql.NullString as a string); a
\* null decodes as the zero value of any.  Content that a type refuses for
\* other reasons is the fault "malformed".
Decodes(w, i, v) == v = 0 \/ JSON[Ins(w)[i].type] = JSON[Ins(w)[v].type]

\* The parameter that the k-th argument is decoded into.
ParamAt(w, k) == IF k < Len(Ins(w)) THEN k ELSE Len(Ins(w))

\* buildArgs: count, decode, transform and validate, or panic: the transform
\* loop indexes args by parameter, so a variadic struct parameter without a
\* value is out of range.
buildArgs(w, arr, fault, validator) ==
    LET n == Len(Ins(w))
        variadic == n > 0 /\ Ins(w)[n].variadic
        structs == {i \in 1..n : IsStruct(Ins(w)[i])}
    IN IF n = 0 THEN "ok"
       ELSE IF (variadic /\ Len(arr) < n - 1) \/ (~variadic /\ Len(arr) # n)
       THEN "invalidParams"
       ELSE IF fault = "malformed"
               \/ \E k \in DOMAIN arr : ~Decodes(w, ParamAt(w, k), arr[k])
       THEN "invalidParams"
       ELSE IF \E i \in structs : i > Len(arr) THEN "panic"
       ELSE IF validator /\ structs # {} /\ fault = "invalid"
       THEN "validation"
       ELSE "ok"

-----------------------------------------------------------------------------
(* Arrival.                                                                *)

\* rq is the refresh queue in the context: the transport's ("call"), none, the
\* one of the call whose handler calls Server.Invoke ("outer"), or, once invoke
\* has found none, its own ("own").  outer is how that outer call ends.
NewCall(via, w, arr, box, conn, rq, pc) ==
    [rq |-> rq, outer |-> "none", via |-> via, w |-> w, arr |-> arr, given |-> box, box |-> box,
     conn |-> conn, runs |-> 0, failed |-> FALSE, ran |-> <<>>,
     queued |-> FALSE, flushed |-> 0, out |-> "none",
     encode |-> "no", answers |-> 0, answer |-> "none", reported |-> "none",
     pc |-> pc]

CanArrive == phase = "serving" /\ call.pc = "idle"

\* The answer that ends the call.
Answered(c, code) ==
    [c EXCEPT !.answers = @ + 1, !.answer = code, !.pc = "done"]

\* The socket's answer is also reported to the observer.
Reported(c, code) == [Answered(c, code) EXCEPT !.reported = code]

\* dispatchRequest and lookupRunnable: only what Get finds runs; rejectFrame
\* answers and reports the rest.
SocketRequest(w, full, box) ==
    /\ CanArrive /\ server
    /\ LET c == NewCall("socket", w, Positional(w, full), box, TRUE, "call",
                        "principal")
       IN call' = IF Get(w) THEN c ELSE Reported(c, "methodNotFound")
    /\ UNCHANGED <<regVars, server, mounted, routes, tools>>

\* RESTAdapter.handleRequest up to the call of its chain: a path parameter
\* that does not convert, a body that cannot be read and a missing body
\* except on GET are refused.
RESTRequest(w, full, converts, box, conn) ==
    /\ CanArrive /\ "rest" \in mounted /\ w \in routes
    /\ LET c == NewCall("rest", w, restParams(w, full), box, conn,
                        IF server THEN "call" ELSE "none", "adapter")
           refused == \/ ~converts /\ Ins(w) # <<>>
                      \/ HasBody(w) /\ ~full /\ inferHTTPMethod(w) # "GET"
       IN call' = IF refused THEN Answered(c, "invalidParams") ELSE c
    /\ UNCHANGED <<regVars, server, mounted, routes, tools>>

\* Server.Invoke: any registration mode, unary handlers only.
InvokeChecks(c) ==
    IF ~lookupMethod(c.w) THEN Answered(c, "methodNotFound")
    ELSE IF ~Unary(c.w) THEN Answered(c, "invalidRequest")
    ELSE c

\* callTool: an enabled tool, its arguments bound by name, then Invoke.
MCPRequest(w, full, box, conn) ==
    /\ CanArrive /\ "mcp" \in mounted
    /\ LET c == NewCall("mcp", w, bindArguments(w, full), box, conn,
                        "none", "invoke")
           missing == ~full /\ Ins(w) # <<>> /\ Required(w, Len(Ins(w)))
       IN call' = IF w \notin tools \/ missing THEN Answered(c, "rpcInvalid")
                  ELSE InvokeChecks(c)
    /\ UNCHANGED <<regVars, server, mounted, routes, tools>>

\* Server.Invoke called by the program itself, or by a running handler with its
\* own context, whose refresh queue the call inherits.
InProcess(w, full, box, conn, nested) ==
    /\ CanArrive /\ server
    /\ call' = InvokeChecks(NewCall("invoke", w, Positional(w, full), box, conn,
                                    IF nested THEN "outer" ELSE "none", "invoke"))
    /\ UNCHANGED <<regVars, server, mounted, routes, tools>>

-----------------------------------------------------------------------------
(* The principal.                                                          *)

\* resolvePrincipal with the provider the connection has at that moment: the
\* call with its principal, or with the provider's error or panic as outcome.
resolvePrincipal(c, p) ==
    CASE p = "none" -> c
      [] p \in {"nil", "provider"} -> [c EXCEPT !.box = p, !.runs = @ + 1]
      [] p = "fails" -> [c EXCEPT !.runs = @ + 1, !.failed = TRUE, !.out = "app"]
      [] p = "panics" -> [c EXCEPT !.runs = @ + 1, !.failed = TRUE,
                                   !.out = "internal"]

\* handleRequest resolves before it looks at the handler's kind; a provider
\* error is answered, as a cancel if one has reached the call's context.
SocketPrincipal(p, cancelled) ==
    /\ call.pc = "principal"
    /\ LET c == resolvePrincipal(call, p)
       IN call' = IF ~c.failed
                  THEN [c EXCEPT !.pc = IF Unary(c.w) THEN "invoke" ELSE "server"]
                  ELSE Reported(c, IF cancelled /\ p = "fails" THEN "canceled"
                                   ELSE c.out)
    /\ UNCHANGED <<regVars, server, mounted, routes, tools>>

\* principalResolved: a resolved nil counts.
principalResolved(c) == c.box # "unset"

\* Where invoke's own errors go: REST's adapter middleware is still around it.
AfterInvoke(c) == IF c.via = "rest" /\ server THEN "unwind" ELSE "returned"

\* invoke up to its middleware chain; it makes a refresh queue where the context
\* has none.
invokeEntry(p) ==
    /\ call.pc = "invoke"
    /\ LET c == IF principalResolved(call) \/ ~call.conn THEN call
                ELSE resolvePrincipal(call, p)
       IN call' = IF c.failed THEN [c EXCEPT !.pc = AfterInvoke(c)]
                  ELSE [c EXCEPT !.rq = IF @ = "none" THEN "own" ELSE @,
                                 !.pc = "server"]
    /\ UNCHANGED <<regVars, server, mounted, routes, tools>>

-----------------------------------------------------------------------------
(* The chain: adapter, server and group middleware around the handler.     *)

\* Panics below invoke become internal errors there; a stream's chain runs
\* without invoke, so its panic escapes to handleRequest's own recovery.
Recovered(c) == IF Unary(c.w) THEN "internal" ELSE "escapes"

\* A layer calls the next one, or leaves the chain without it; with no
\* middleware it only runs on.
Layer(names, next) ==
    LET c == [call EXCEPT !.ran = @ \o names]
    IN \/ call' = [c EXCEPT !.pc = next]
       \/ names # <<>> /\ call' = [c EXCEPT !.out = "app", !.pc = "unwind"]

\* wrapAdapterMiddleware, and buildHandler when no server is attached.
AdapterLayer ==
    /\ call.pc = "adapter"
    /\ Layer(<<"adapter">>, IF server THEN "invoke" ELSE "group")
    /\ UNCHANGED <<regVars, server, mounted, routes, tools>>

\* Server.buildHandler's outer layer.
ServerLayer ==
    /\ call.pc = "server"
    /\ Layer(<<"server">>, "group")
    /\ UNCHANGED <<regVars, server, mounted, routes, tools>>

\* Faulty: the group is looked up through the dispatch map.
GetMiddleware_DispatchOnly(w) == Get(w)

\* GetMiddleware: the group's middleware in every registration mode.
GetMiddleware(w) == lookupMethod(w)

\* The inner layer; GroupMiddleware for an adapter without a server.
GroupLayer ==
    /\ call.pc = "group"
    /\ Layer(IF server => GetMiddleware(call.w) THEN <<"group">> ELSE <<>>,
             "handler")
    /\ UNCHANGED <<regVars, server, mounted, routes, tools>>

\* TriggerRefresh: queued where the context has a refresh queue.
Triggers(c, b) == IF b /\ c.rq # "none" THEN [c EXCEPT !.queued = TRUE] ELSE c

\* Call and CallStream: bind the arguments, run the method; it may trigger
\* refreshes before it returns a result or an error.
HandlerRuns(fault, validator, b) ==
    /\ call.pc = "handler"
    /\ LET bound == buildArgs(call.w, call.arr, fault, validator)
           c == Triggers([call EXCEPT !.ran = Append(@, "handler")], b)
       IN \/ /\ bound = "panic"
             /\ call' = [call EXCEPT !.out = Recovered(call), !.pc = "unwind"]
          \/ /\ bound \in {"invalidParams", "validation"}
             /\ call' = [call EXCEPT !.out = bound, !.pc = "unwind"]
          \/ /\ bound = "ok"
             /\ \E o \in {"ok"} \cup ErrorNames :
                  call' = [c EXCEPT !.out = o, !.pc = "unwind"]
    /\ UNCHANGED <<regVars, server, mounted, routes, tools>>

\* What leaves the chain: the outcome from below, what a middleware makes of
\* it, or the panic of any layer or of the handler.
Unwind ==
    /\ call.pc = "unwind"
    /\ \E o \in {call.out, "ok", "app", Recovered(call), "escapes"} :
         call' = [call EXCEPT !.out = o, !.pc = "returned"]
    /\ UNCHANGED <<regVars, server, mounted, routes, tools>>

-----------------------------------------------------------------------------
(* The answer.                                                             *)

\* processRefreshQueue.
Flush(c) == IF c.queued THEN [c EXCEPT !.flushed = @ + 1] ELSE c

\* invoke returns: it flushes on success the queue that it made itself.
invokeReturn ==
    /\ call.pc = "returned"
    /\ call' = [(IF call.rq = "own" /\ call.out = "ok" THEN Flush(call) ELSE call)
                  EXCEPT !.pc = "finish"]
    /\ UNCHANGED <<regVars, server, mounted, routes, tools>>

\* errorCode, sendErrorFor and REST's mapping: a registered error value has
\* its own code, any other is internal.
errorCode(o) == IF o \in ErrorNames /\ ~LookupError(o) THEN "internal" ELSE o

\* sendErrorFor returns to the observer the code that it sent.
sendErrorFor(c) == Reported(c, errorCode(c.out))

\* sendResponse: the result encodes, fails to, or panics in its marshaler; a
\* failure is answered but not reported, a panic reaches the backstop before
\* the flush.
sendResponse(c, e) ==
    CASE e = "ok" -> Flush(Reported([c EXCEPT !.encode = e], "ok"))
      [] e = "fail" -> Flush([Reported([c EXCEPT !.encode = e], "internal")
                                EXCEPT !.reported = "ok"])
      [] e = "panic" -> Reported([c EXCEPT !.encode = e], "internal")

\* handleRequest after the chain: recovery, a cancel that has reached the
\* call's context, error, stream, response.
SocketAnswer(e, cancelled) ==
    /\ call.pc = "finish" /\ call.via = "socket"
    /\ call' = IF call.out = "escapes" THEN Reported(call, "internal")
               ELSE IF cancelled THEN Reported(call, "canceled")
               ELSE IF call.out # "ok" THEN sendErrorFor(call)
               ELSE IF Unary(call.w) THEN sendResponse(call, e)
               ELSE Flush(Reported(call, IF e = "ok" THEN "ok" ELSE "internal"))
    /\ UNCHANGED <<regVars, server, mounted, routes, tools>>

\* Faulty: a result that does not marshal is answered twice.
RESTAnswer_NoReturn(e) ==
    /\ call.pc = "finish" /\ call.via = "rest"
    /\ call' = IF call.out = "escapes" THEN [call EXCEPT !.pc = "done"]
               ELSE IF call.out # "ok" THEN Answered(call, errorCode(call.out))
               ELSE IF KindOf(call.w) = "void" \/ e = "ok"
               THEN Flush(Answered(call, "ok"))
               ELSE Flush(Answered(Answered([call EXCEPT !.encode = e],
                                            "internal"), "ok"))
    /\ UNCHANGED <<regVars, server, mounted, routes, tools>>

\* RESTAdapter.handleRequest after the chain: an abort reaches net/http, and
\* the flush is deferred past every way to write a result.
RESTAnswer(e) ==
    /\ call.pc = "finish" /\ call.via = "rest"
    /\ call' = IF call.out = "escapes" THEN [call EXCEPT !.pc = "done"]
               ELSE IF call.out # "ok" THEN Answered(call, errorCode(call.out))
               ELSE IF KindOf(call.w) = "void" \/ e = "ok"
               THEN Flush(Answered(call, "ok"))
               ELSE Flush(Answered([call EXCEPT !.encode = e], "internal"))
    /\ UNCHANGED <<regVars, server, mounted, routes, tools>>

\* callTool and ServeHTTP after Invoke: invalid params are an RPC error, any
\* other error a tool result marked isError.
MCPAnswer(e) ==
    /\ call.pc = "finish" /\ call.via = "mcp"
    /\ call' = IF call.out = "escapes" THEN [call EXCEPT !.pc = "done"]
               ELSE IF call.out = "invalidParams" THEN Answered(call, "rpcInvalid")
               ELSE IF call.out # "ok" THEN Answered(call, "isError")
               ELSE IF KindOf(call.w) = "void" \/ e = "ok"
               THEN Answered(call, "ok")
               ELSE Answered([call EXCEPT !.encode = e],
                             IF e = "fail" THEN "isError" ELSE "rpcInternal")
    /\ UNCHANGED <<regVars, server, mounted, routes, tools>>

\* Invoke returns to the program; a handler that called it goes on.
InProcessReturns ==
    /\ call.pc = "finish" /\ call.via = "invoke"
    /\ LET c == IF call.out = "escapes" THEN call ELSE Answered(call, call.out)
       IN call' = [c EXCEPT !.pc = IF call.rq = "outer" THEN "outer" ELSE "done"]
    /\ UNCHANGED <<regVars, server, mounted, routes, tools>>

\* The outer call ends, whatever it made of the inner one, and flushes its
\* queue with a success.
OuterReturns(o) ==
    /\ call.pc = "outer"
    /\ call' = [(IF o = "ok" THEN Flush(call) ELSE call)
                  EXCEPT !.outer = o, !.pc = "done"]
    /\ UNCHANGED <<regVars, server, mounted, routes, tools>>

\* Who calls: the principal that a wrapper attached, if any, and whether a
\* request-scoped context carries a (detached) connection.
Identities == {<<"unset", FALSE>>, <<"unset", TRUE>>, <<"nil", TRUE>>,
               <<"wrapper", TRUE>>}

InvNext ==
    \/ NewServer \/ NewRESTAdapter \/ NewMCPAdapter \/ Serve
    \/ /\ CanArrive
       /\ \E w \in WireMethods, full \in BOOLEAN, id \in Identities :
            \/ SocketRequest(w, full, id[1])
            \/ \E b \in BOOLEAN : RESTRequest(w, full, b, id[1], id[2])
            \/ MCPRequest(w, full, id[1], id[2])
            \/ \E b \in BOOLEAN : InProcess(w, full, id[1], id[2], b)
    \/ \E p \in Providers :
         \/ \E b \in BOOLEAN : SocketPrincipal(p, b)
         \/ invokeEntry(p)
    \/ AdapterLayer \/ ServerLayer \/ GroupLayer
    \/ /\ call.pc = "handler"
       /\ \E f \in {"none", "malformed", "invalid"}, v, b \in BOOLEAN :
            HandlerRuns(f, v, b)
    \/ Unwind \/ invokeReturn
    \/ \E e \in {"ok", "fail", "panic"} :
         \/ \E b \in BOOLEAN : SocketAnswer(e, b)
         \/ RESTAnswer(e) \/ MCPAnswer(e)
    \/ InProcessReturns
    \/ \E o \in {"ok", "fails"} : OuterReturns(o)

\* The registry, the server and the call; a generator command goes on to
\* generate, which calls nothing.
InvSpec ==
    /\ RegInit /\ InvInit
    /\ [][\/ RegNext /\ UNCHANGED invVars
          \/ InvNext
          \/ Generator /\ Finished /\ UNCHANGED invVars]_<<regVars, invVars>>

-----------------------------------------------------------------------------
(* Properties.                                                             *)

Done == call.pc = "done"
Ran(layer) == call.pc # "idle" /\ \E i \in DOMAIN call.ran : call.ran[i] = layer

\* The registry and the call have their types.
InvTypeOK ==
    /\ RegTypeOK
    /\ server \in BOOLEAN /\ mounted \subseteq {"rest", "mcp"}
    /\ routes \subseteq WireMethods /\ tools \subseteq WireMethods
    /\ call.pc # "idle" =>
         /\ call.via \in {"socket", "rest", "mcp", "invoke"}
         /\ call.w \in WireMethods /\ call.box \in Boxes
         /\ call.out \in Errors \cup {"none", "ok", "escapes"}

\* A handler runs only behind every middleware of its chain, in order: the
\* REST adapter's outermost, then the server's, then its group's, whichever
\* call registered the group and whichever transport the call came by (the
\* group middleware of REST-only structs was once skipped, #321).
MiddlewareNeverBypassed ==
    Ran("handler") =>
      call.ran = (IF call.via = "rest" THEN <<"adapter">> ELSE <<>>)
                   \o (IF server THEN <<"server">> ELSE <<>>)
                   \o <<"group", "handler">>

\* A handler is reachable only where its registration exposes it: over the
\* socket after Register, over REST after an opt-in to REST, over MCP as an
\* enabled tool; a streaming handler runs on the socket alone.
ExposedWhereRegistered ==
    Ran("handler") =>
      /\ call.via = "socket" => call.w[1] \in socketGroups
      /\ call.via = "rest" => call.w[1] \in restGroups
      /\ call.via = "mcp" => call.w \in mcpTools
      /\ ~Unary(call.w) => call.via = "socket"

\* One execution runs its connection's provider at most once, a request that
\* a wrapper authenticated (as anyone, or explicitly as nobody) keeps the
\* wrapper's principal on the request-scoped transports, and when the
\* provider failed neither middleware of the server nor handler ran.
PrincipalResolvedOnce ==
    call.pc # "idle" =>
      /\ call.runs <= 1
      /\ call.via # "socket" /\ call.given # "unset" =>
           call.box = call.given /\ call.runs = 0
      /\ call.failed => ~Ran("server") /\ ~Ran("handler")

InPlace(k) == call.arr[k] \in {0, ParamAt(call.w, k)}

\* An argument reaches the parameter it was meant for, on every transport and
\* for every order of primitive, struct and variadic parameters.  REST puts
\* the body last, so a handler that declares its struct before a path
\* parameter runs over REST only when struct and path parameter are written
\* as the same kind of JSON, and then with the two exchanged.
ArgumentsReachTheirParameter ==
    Ran("handler") /\ Ins(call.w) # <<>> =>
      /\ \A i \in DOMAIN Ins(call.w) :
           ~Ins(call.w)[i].variadic => i \in DOMAIN call.arr
      /\ \/ \A k \in DOMAIN call.arr : InPlace(k)
         \/ /\ call.via = "rest"
            /\ \E i, j \in DOMAIN Ins(call.w) :
                 /\ i < j /\ IsStruct(Ins(call.w)[i]) /\ ~IsStruct(Ins(call.w)[j])
                 /\ JSON[Ins(call.w)[i].type] = JSON[Ins(call.w)[j].type]

\* Refresh triggers follow the outcome the caller sees: they are flushed once
\* when the call is answered with success, and dropped when it is answered
\* with an error, except for an error in encoding a successful result and
\* for streams, which flush however the iteration ends.  A Server.Invoke with
\* the context of another call adds to that call's queue: its triggers follow
\* the outcome of the outer call, whatever its own was.
TriggersFollowTheAnswer ==
    Done /\ call.queued =>
      /\ call.flushed <= 1
      /\ call.rq # "outer" =>
           /\ call.answer = "ok" => call.flushed = 1
           /\ call.answer # "ok" /\ call.encode = "no" /\ Unary(call.w) =>
                call.flushed = 0
      /\ call.rq = "outer" => (call.flushed = 1 <=> call.outer = "ok")

\* Every call is answered exactly once, whatever panics on the way; only
\* http.ErrAbortHandler leaves a request-scoped caller without an answer.
AnsweredOnce ==
    Done => call.answers = (IF call.out = "escapes" /\ call.via # "socket"
                            THEN 0 ELSE 1)

\* The observer hears the code that the client receives, except for a result
\* that could not be encoded, which is reported as a success.
ObserverHearsTheAnswer ==
    Done /\ call.via = "socket" =>
      call.reported = IF call.encode = "fail" THEN "ok" ELSE call.answer

\* A handler runs only for the callers it was registered for, as the principal
\* they were given, and behind the whole chain of its middleware, whichever
\* transport the call came by.
HandlerGuarded ==
    /\ InvTypeOK
    /\ MiddlewareNeverBypassed
    /\ ExposedWhereRegistered
    /\ PrincipalResolvedOnce

\* One outcome, told consistently: a call is answered once, and the observer
\* and the refresh triggers follow the answer that the caller gets.
OutcomeConsistent ==
    /\ AnsweredOnce
    /\ ObserverHearsTheAnswer
    /\ TriggersFollowTheAnswer
=============================================================================
