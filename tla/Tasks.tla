------------------------------- MODULE Tasks -------------------------------
(***************************************************************************)
(* One task tree of the tasks package: a task started by a handler, its    *)
(* sub-tasks, the lifecycle middleware around each of them, cancellation,  *)
(* the manager's registry and the progress throttle.  What the clients are *)
(* told of it, and which of them may cancel, is in TaskViews.              *)
(*                                                                         *)
(* A call into the package is a sequence of critical sections, taken in    *)
(* order by the goroutine that made the call.  thread[a] is the sequence   *)
(* of sections the goroutine a has still to run, and one action runs its   *)
(* head; a call made inside a section is put in front of what is left.     *)
(***************************************************************************)
EXTENDS Integers, Sequences, FiniteSets

CONSTANTS
    Top, Kids,          \* the task, and the sub-tasks made under it
    Handler, Workers,   \* the handler's goroutine, and ones it starts
    Cancelers,          \* goroutines that cancel the task
    Remover, Flusher,   \* the delayed removal, and a timer's goroutine
    Kinds,              \* how the task may be started, of AllKinds
    None,
    MaxCalls,           \* bound: calls of the package, by kind of task
    MaxCancels          \* bound: cancels

(* StartTask on the request's context, Shared or not, StartTask Shared on a *)
(* detached context, and SharedSubTask.                                     *)
AllKinds == {"request", "shared", "detached", "scoped"}

Nodes == {Top} \cup Kids
Callables == {Handler} \cup Workers
Threads == Callables \cup Cancelers \cup {Remover, Flusher}

VARIABLES
    kind,           \* how the task was started
    phase,          \* phase of the handler
    slot,           \* taskSlot.node has been set
    node,           \* node[n]: status and error of n
    kids,           \* kids[n]: taskNode.children
    holder,         \* holder[n]: the goroutine that has the handle of n
    mid,            \* mid[n]: the lifecycle middleware around n
    tasks,          \* taskManager.tasks holds the task
    sleeping,       \* goroutines waiting to remove it
    throttle,       \* throttle[n]: taskManager.throttles, or None
    timers,         \* timers[n]: pending trailing flushes of n
    thread,         \* thread[a]: the sections a has still to run
    calls, cancels, \* calls and cancels made so far
    revived,        \* history: a terminal status was overwritten
    late            \* history: sub-tasks made under a finished parent

vars == <<kind, phase, slot, node, kids, holder, mid, tasks, sleeping,
          throttle, timers, thread, calls,
          cancels, revived, late>>

Statuses == {"absent", "created", "running", "completed", "failed"}
Terminal == {"completed", "failed"}
Results == {"none", "ok", "error", "canceled"}
Entry == [hot : BOOLEAN, pending : BOOLEAN, timer : BOOLEAN]

(* Goroutines are told apart, and None is no goroutine and no entry. *)
ASSUME TasksAssumption ==
    /\ Top \notin Kids
    /\ Handler \notin Workers /\ Callables \cap Cancelers = {}
    /\ {Remover, Flusher} \cap (Callables \cup Cancelers) = {} /\ Remover # Flusher
    /\ None \notin Callables /\ None \notin Entry
    /\ MaxCalls \in [AllKinds -> Nat] /\ Kinds \subseteq AllKinds
    /\ MaxCancels \in Nat

Sections == {"running", "set", "fail", "completeTop",
             "failTop", "list", "mark", "signal", "managed", "ready",
             "scoped", "body", "collect", "drop", "send", "flush"}

(* The types of the variables; the channel on which the middleware waits   *)
(* holds at most one end, so that no goroutine blocks sending it.          *)
TypeOK ==
    /\ kind \in Kinds
    /\ phase \in {"new", "starting", "body", "returned"}
    /\ slot \in BOOLEAN /\ tasks \in BOOLEAN /\ revived \in BOOLEAN
    /\ node \in [Nodes -> [status : Statuses, error : Results]]
    /\ kids \in [Nodes -> Seq(Kids)]
    /\ holder \in [Nodes -> Callables \cup {None}]
    /\ mid \in [Nodes -> [pc : {"none", "begin", "wait", "returned", "skipped",
                                "panicked"},
                          open : BOOLEAN,
                          done : {<<>>} \cup {<<r>> : r \in Results},
                          ended : Results, got : Results]]
    /\ sleeping \in 0..2
    /\ throttle \in [Nodes -> Entry \cup {None}]
    /\ timers \in [Nodes -> Nat]
    /\ late \subseteq Kids
    /\ \A a \in Threads : \A i \in DOMAIN thread[a] :
         thread[a][i].op \in Sections /\ thread[a][i].n \in Nodes
    /\ calls \in 0..MaxCalls[kind] /\ cancels \in 0..MaxCancels

Init ==
    /\ kind \in Kinds
    /\ phase = "new" /\ slot = FALSE /\ tasks = FALSE /\ revived = FALSE
    /\ node = [n \in Nodes |-> [status |-> "absent", error |-> "none"]]
    /\ kids = [n \in Nodes |-> <<>>]
    /\ holder = [n \in Nodes |-> None]
    /\ mid = [n \in Nodes |-> [pc |-> "none", open |-> FALSE, done |-> <<>>,
                               ended |-> "none", got |-> "none"]]
    /\ sleeping = 0
    /\ throttle = [n \in Nodes |-> None]
    /\ timers = [n \in Nodes |-> 0]
    /\ late = {}
    /\ thread = [a \in Threads |-> <<>>]
    /\ calls = 0 /\ cancels = 0

nodeVars == <<node, kids, holder>>
managerVars == <<tasks, sleeping, throttle, timers>>
userVars == <<kind, phase, slot, calls, cancels>>
historyVars == <<revived, late>>

(* A section of the node n, and the goroutine a at a section of that name. *)
Do(op, n, x) == [op |-> op, n |-> n, x |-> x]
At(a, op) == thread[a] # <<>> /\ Head(thread[a]).op = op
The(a) == Head(thread[a])

(* The head of a has run; secs is what it has called. *)
Then(a, secs) == thread' = [thread EXCEPT ![a] = secs \o Tail(@)]

(* A call by an idle goroutine. *)
Call(a, secs) ==
    /\ thread[a] = <<>>
    /\ calls < MaxCalls[kind]
    /\ calls' = calls + 1
    /\ UNCHANGED cancels
    /\ thread' = [thread EXCEPT ![a] = secs]

Cancel(a, secs) ==
    /\ thread[a] = <<>>
    /\ cancels < MaxCancels
    /\ cancels' = cancels + 1
    /\ thread' = [thread EXCEPT ![a] = secs]
    /\ UNCHANGED calls

Shared == kind # "request"
Ended(n) == node[n].status \in Terminal
Live(n) == node[n].status \in {"created", "running"}

-----------------------------------------------------------------------------
(* The status of a node, and the signal to its middleware. *)

(* Faulty: a terminal status may be overwritten. *)
setStatus_NoGuard(a) ==
    /\ At(a, "set")
    /\ LET n == The(a).n IN
       /\ node' = [node EXCEPT ![n].status = The(a).x]
       /\ Then(a, IF The(a).x = "completed" THEN <<Do("signal", n, "ok")>>
                  ELSE <<>>)
    /\ UNCHANGED <<kids, holder, managerVars, userVars, historyVars, mid>>

(* setStatus: a terminal status stays. *)
setStatus(a) ==
    /\ At(a, "set")
    /\ LET n == The(a).n IN
       IF Ended(n) THEN Then(a, <<>>) /\ UNCHANGED node
       ELSE /\ node' = [node EXCEPT ![n].status = The(a).x]
            /\ Then(a, IF The(a).x = "completed" THEN <<Do("signal", n, "ok")>>
                       ELSE <<>>)
    /\ UNCHANGED <<kids, holder, managerVars, userVars, historyVars, mid>>

(* Faulty: the middleware is told whether or not the failure counts. *)
setFailed_Tells(a) ==
    /\ At(a, "fail")
    /\ LET n == The(a).n IN
       /\ node' = IF Ended(n) THEN node
                  ELSE [node EXCEPT ![n].status = "failed",
                                    ![n].error = The(a).x]
       /\ Then(a, <<Do("signal", n, The(a).x)>>)
    /\ UNCHANGED <<kids, holder, managerVars, userVars, historyVars, mid>>

(* setFailed, likewise. *)
setFailed(a) ==
    /\ At(a, "fail")
    /\ LET n == The(a).n IN
       IF Ended(n) THEN Then(a, <<>>) /\ UNCHANGED node
       ELSE /\ node' = [node EXCEPT ![n].status = "failed",
                                    ![n].error = The(a).x]
            /\ Then(a, <<Do("signal", n, The(a).x)>>)
    /\ UNCHANGED <<kids, holder, managerVars, userVars, historyVars, mid>>

(* The start of a shared task writes the status whatever it is by then. *)
becomeRunning(a) ==
    /\ At(a, "running")
    /\ node' = [node EXCEPT ![Top].status = "running"]
    /\ revived' = (revived \/ Ended(Top))
    /\ Then(a, <<>>)
    /\ UNCHANGED <<kids, holder, managerVars, userVars, late, mid>>

(* completeTop; the task's context is cancelled, which no section reads. *)
completeTop(a) ==
    /\ At(a, "completeTop")
    /\ IF ~Live(Top) THEN Then(a, <<>>) /\ UNCHANGED node
       ELSE /\ node' = [node EXCEPT ![Top].status = "completed"]
            /\ Then(a, <<Do("signal", Top, "ok")>>)
    /\ UNCHANGED <<kids, holder, managerVars, userVars, historyVars, mid>>

(* failTop, and the cascade it starts. *)
failTop(a) ==
    /\ At(a, "failTop")
    /\ IF ~Live(Top) THEN Then(a, <<>>) /\ UNCHANGED node
       ELSE /\ node' = [node EXCEPT ![Top].status = "failed",
                                    ![Top].error = The(a).x]
            /\ Then(a, <<Do("list", Top, The(a).x), Do("signal", Top, The(a).x)>>)
    /\ UNCHANGED <<kids, holder, managerVars, userVars, historyVars, mid>>

(* failChildren: the children are copied under the lock, then each is      *)
(* marked and its own children follow.                                     *)
Cascade(children, x) ==
    [i \in 1..2 * Len(children) |->
       IF i % 2 = 1 THEN Do("mark", children[(i + 1) \div 2], x)
       ELSE Do("list", children[i \div 2], x)]

failChildren(a) ==
    /\ At(a, "list")
    /\ Then(a, Cascade(kids[The(a).n], The(a).x))
    /\ UNCHANGED <<nodeVars, managerVars, userVars, historyVars, mid>>

failChild(a) ==
    /\ At(a, "mark")
    /\ LET n == The(a).n IN
       IF ~Live(n) THEN Then(a, <<>>) /\ UNCHANGED node
       ELSE /\ node' = [node EXCEPT ![n].status = "failed",
                                    ![n].error = The(a).x]
            /\ Then(a, <<Do("signal", n, The(a).x)>>)
    /\ UNCHANGED <<kids, holder, managerVars, userVars, historyVars, mid>>

(* The end of a shared task also starts the goroutine that removes it. *)
armRemoval(n) ==
    /\ sleeping' = IF n = Top /\ Shared THEN sleeping + 1 ELSE sleeping
    /\ UNCHANGED <<tasks, throttle, timers>>

(* signalMiddlewareEnd: the first end is recorded, and sent when the       *)
(* middleware has been started.                                            *)
signalMiddlewareEnd(a) ==
    /\ At(a, "signal")
    /\ LET n == The(a).n IN
       /\ mid' = IF mid[n].ended # "none" THEN mid
                 ELSE [mid EXCEPT ![n].ended = The(a).x,
                                  ![n].done = IF mid[n].open THEN <<The(a).x>>
                                              ELSE @]
       /\ armRemoval(n)
    /\ Then(a, <<>>)
    /\ UNCHANGED <<nodeVars, userVars, historyVars>>

-----------------------------------------------------------------------------
(* The lifecycle middleware. *)

(* runManaged starts the middleware's goroutine *)
runManaged(a) ==
    /\ At(a, "managed")
    /\ LET n == The(a).n IN
       /\ mid' = [mid EXCEPT ![n].pc = "begin", ![n].open = TRUE]
       /\ Then(a, <<Do("ready", n, None)>>)
    /\ UNCHANGED <<nodeVars, managerVars, userVars, historyVars>>

(* The middleware calls next, which returns at once what has been recorded *)
MiddlewareNext(n) ==
    /\ mid[n].pc = "begin"
    /\ mid' = IF mid[n].ended = "none" THEN [mid EXCEPT ![n].pc = "wait"]
              ELSE [mid EXCEPT ![n].pc = "returned", ![n].got = mid[n].ended]
    /\ UNCHANGED <<nodeVars, managerVars, userVars, historyVars, thread>>

(* or waits for the signal. *)
MiddlewareDone(n) ==
    /\ mid[n].pc = "wait" /\ mid[n].done # <<>>
    /\ mid' = [mid EXCEPT ![n].pc = "returned", ![n].got = Head(mid[n].done),
                          ![n].done = Tail(@)]
    /\ UNCHANGED <<nodeVars, managerVars, userVars, historyVars, thread>>

(* The middleware returns without calling next. *)
MiddlewareSkips(n) ==
    /\ mid[n].pc = "begin"
    /\ mid' = [mid EXCEPT ![n].pc = "skipped"]
    /\ UNCHANGED <<nodeVars, managerVars, userVars, historyVars, thread>>

(* The middleware panics before next, in a call made by the handler: the   *)
(* panic unwinds the handler, and nothing finalizes its slot.              *)
MiddlewarePanics(n) ==
    /\ mid[n].pc = "begin"
    /\ At(Handler, "ready") /\ The(Handler).n = n
    /\ phase \in {"starting", "body"}
    /\ mid' = [mid EXCEPT ![n].pc = "panicked"]
    /\ phase' = "returned"
    /\ thread' = [thread EXCEPT ![Handler] = <<>>]
    /\ UNCHANGED <<nodeVars, managerVars, kind, slot, calls, cancels,
                   historyVars>>

(* The caller goes on once the middleware has called next or returned. *)
runManagedReturns(a) ==
    /\ At(a, "ready")
    /\ mid[The(a).n].pc \notin {"begin", "panicked"}
    /\ holder' = [holder EXCEPT ![The(a).n] = a]
    /\ Then(a, <<>>)
    /\ UNCHANGED <<node, kids, managerVars, userVars, historyVars, mid>>

(* runScoped: the middleware runs in the caller; next runs the function, *)
(* and a middleware that does not call it leaves the task as it is.      *)
runScoped(a) ==
    /\ At(a, "scoped")
    /\ \E run \in BOOLEAN :
         holder' = IF run THEN [holder EXCEPT ![The(a).n] = a] ELSE holder
    /\ Then(a, <<>>)
    /\ UNCHANGED <<node, kids, managerVars, userVars, historyVars, mid>>

-----------------------------------------------------------------------------
(* The handler. *)

(* The node is made visible; secs makes it running and puts the middleware *)
(* around it.  The slot of an inline task is set.                          *)
Announce(inline, secs) ==
    /\ phase = "new"
    /\ phase' = "starting"
    /\ node' = [node EXCEPT ![Top].status = "created"]
    /\ tasks' = Shared
    /\ slot' = inline
    /\ thread' = [thread EXCEPT ![Handler] = secs \o <<Do("body", Top, None)>>]
    /\ UNCHANGED <<kids, holder, mid, sleeping, throttle, timers, kind,
                   calls, cancels, historyVars>>

(* StartTask of a request's own task, *)
startRequestTask ==
    /\ kind = "request"
    /\ Announce(TRUE, <<Do("set", Top, "running"), Do("managed", Top, None)>>)

(* of a shared task, inline unless its context is detached, *)
startSharedTask ==
    /\ kind \in {"shared", "detached"}
    /\ Announce(kind = "shared",
                <<Do("running", Top, None), Do("managed", Top, None)>>)

(* and a shared task around a function. *)
SharedSubTask ==
    /\ kind = "scoped"
    /\ Announce(FALSE, <<Do("running", Top, None), Do("scoped", Top, None)>>)

(* The call that started the task returns to the handler. *)
startReturns ==
    /\ At(Handler, "body")
    /\ phase' = "body"
    /\ Then(Handler, <<>>)
    /\ UNCHANGED <<nodeVars, managerVars, kind, slot, calls, cancels,
                   historyVars, mid>>

(* The node a scope-based call made, whose function a is running. *)
InScope(a, n) == holder[n] = a /\ mid[n].pc = "none"

(* finalizeTaskSlot: what the return of the handler means for its task. *)
finalizeTaskSlot(result) ==
    IF ~slot THEN <<>>
    ELSE IF Shared
         THEN <<IF result = "ok" THEN Do("completeTop", Top, None)
                ELSE Do("failTop", Top, result)>>
         ELSE <<IF result = "ok" THEN Do("set", Top, "completed")
                ELSE Do("fail", Top, result)>>

(* The handler returns, with an error, cancelled, or neither. *)
HandlerReturns(result) ==
    /\ phase = "body" /\ thread[Handler] = <<>>
    /\ \A n \in Nodes : ~InScope(Handler, n)
    /\ phase' = "returned"
    /\ thread' = [thread EXCEPT ![Handler] = finalizeTaskSlot(result)]
    /\ UNCHANGED <<nodeVars, managerVars, kind, slot, calls, cancels,
                   historyVars, mid>>

(* A panic of the handler is recovered outside the task middleware. *)
HandlerPanics ==
    /\ phase = "body" /\ thread[Handler] = <<>>
    /\ phase' = "returned"
    /\ UNCHANGED <<nodeVars, managerVars, kind, slot, calls, cancels,
                   historyVars, mid, thread>>

-----------------------------------------------------------------------------
(* Calls on a task's handles, by the handler and the goroutines it starts. *)

MayCall(a) == phase = "body" \/ (a \in Workers /\ phase = "returned")

(* A handle exists for a node that StartTask or a sub-task call returned. *)
HasHandle(n) == n = Top \/ holder[n] # None

(* The next unused node. *)
allocID == CHOOSE k \in Kids : node[k].status = "absent"

(* createChild makes the node visible under its parent and then running;  *)
(* what follows depends on the call.                                       *)
createChild(a, p, how) ==
    /\ MayCall(a) /\ HasHandle(p)
    /\ \E k \in Kids : node[k].status = "absent"
    /\ LET k == allocID IN
       /\ node' = [node EXCEPT ![k].status = "created"]
       /\ kids' = [kids EXCEPT ![p] = Append(@, k)]
       /\ late' = IF Ended(Top) THEN late \cup {k} ELSE late
       /\ Call(a, <<Do("set", k, "running"), Do(how, k, None)>>)
    /\ UNCHANGED <<holder, mid, managerVars, kind, phase, slot,
                   revived>>

(* SubTask runs a function inside the sub-task, *)
SubTask(a, p) == createChild(a, p, "scoped")

(* Task.SubTask and TaskSub.SubTask return a handle, *)
TaskSubTask(a, p) == createChild(a, p, "managed")

(* and so do OutputWriter *)
OutputWriter(a, p) == createChild(a, p, "managed")

(* and WriterProgress, under the current node. *)
WriterProgress(a, p) == createChild(a, p, "managed")

closeNode(k) == <<Do("set", k, "completed")>>
failNode(k, r) == <<Do("fail", k, r)>>

(* The handle or the writer of a sub-task ends it, any number of times. *)
EndSub(a, k, result) ==
    /\ MayCall(a) /\ holder[k] = a /\ ~InScope(a, k) /\ k # Top
    /\ Call(a, IF result = "ok" THEN closeNode(k) ELSE failNode(k, result))
    /\ UNCHANGED <<nodeVars, mid, managerVars, kind, phase, slot, historyVars>>

(* The function of SubTask returns. *)
SubTaskEnds(a, k, result) ==
    /\ MayCall(a) /\ InScope(a, k) /\ k # Top
    /\ Call(a, IF result = "ok" THEN closeNode(k) ELSE failNode(k, result))
    /\ holder' = [holder EXCEPT ![k] = None]
    /\ UNCHANGED <<node, kids, mid, managerVars, kind, phase, slot, historyVars>>

(* Task.Close, Task.Fail and Task.Err. *)
EndTask(a, result) ==
    /\ MayCall(a) /\ kind # "scoped"
    /\ Call(a, IF ~Shared
               THEN IF result = "ok" THEN closeNode(Top) ELSE failNode(Top, result)
               ELSE <<IF result = "ok" THEN Do("completeTop", Top, None)
                      ELSE Do("failTop", Top, result)>>)
    /\ UNCHANGED <<nodeVars, mid, managerVars, kind, phase, slot, historyVars>>

(* The function of SharedSubTask returns. *)
SharedSubTaskEnds(a, result) ==
    /\ MayCall(a) /\ InScope(a, Top)
    /\ Call(a, <<IF result = "ok" THEN Do("completeTop", Top, None)
                 ELSE Do("failTop", Top, result)>>)
    /\ holder' = [holder EXCEPT ![Top] = None]
    /\ UNCHANGED <<node, kids, mid, managerVars, kind, phase, slot, historyVars>>

(* Progress, StepTaskProgress and the progress writer report a value, and  *)
(* which value it is matters to no section.  A request's task pushes it at *)
(* once; that, Output and SetMeta send without changing anything here.     *)
Progress(a, n) ==
    /\ MayCall(a) /\ HasHandle(n) /\ Shared
    /\ Call(a, <<Do("send", n, None)>>)
    /\ UNCHANGED <<nodeVars, mid, managerVars, kind, phase, slot, historyVars>>

-----------------------------------------------------------------------------
(* Cancelling. *)

(* CancelTaskByID, and CancelSharedTask of a caller who may: the node is   *)
(* found under the lock and failed after it.                               *)
CancelTaskByID(a) ==
    /\ phase # "new" /\ tasks
    /\ Cancel(a, <<Do("failTop", Top, "canceled")>>)
    /\ UNCHANGED <<nodeVars, mid, managerVars, kind, phase, slot,
                   historyVars>>

-----------------------------------------------------------------------------
(* The manager: removal and the progress throttle. *)

(* remove takes the task out of the registry, *)
remove ==
    /\ sleeping > 0 /\ thread[Remover] = <<>>
    /\ sleeping' = sleeping - 1
    /\ tasks' = FALSE
    /\ thread' = [thread EXCEPT ![Remover] = <<Do("collect", Top, None)>>]
    /\ UNCHANGED <<nodeVars, throttle, timers, userVars, historyVars, mid>>

(* collects the ids of its nodes *)
collectIDs(a) ==
    /\ At(a, "collect")
    /\ Then(a, <<Do("drop", Top, {n \in Nodes : node[n].status # "absent"})>>)
    /\ UNCHANGED <<nodeVars, managerVars, userVars, historyVars, mid>>

(* and drops their throttles, stopping the timer each refers to. *)
dropThrottles(a) ==
    /\ At(a, "drop")
    /\ throttle' = [n \in Nodes |-> IF n \in The(a).x THEN None ELSE throttle[n]]
    /\ timers' = [n \in Nodes |->
         IF n \in The(a).x /\ throttle[n] # None /\ timers[n] > 0
         THEN IF throttle[n].timer THEN timers[n] - 1 ELSE timers[n]
         ELSE timers[n]]
    /\ Then(a, <<>>)
    /\ UNCHANGED <<nodeVars, tasks, sleeping, userVars, historyVars, mid>>

(* taskManager.stop, called when the server stops and the requests have    *)
(* drained: every timer an entry refers to is stopped.                     *)
stop ==
    /\ phase = "returned" /\ thread[Handler] = <<>>
    /\ \E n \in Nodes : throttle[n] # None
    /\ timers' = [n \in Nodes |->
         IF throttle[n] # None /\ timers[n] > 0
         THEN IF throttle[n].timer THEN timers[n] - 1 ELSE timers[n]
         ELSE timers[n]]
    /\ throttle' = [n \in Nodes |-> None]
    /\ UNCHANGED <<nodeVars, tasks, sleeping, userVars, historyVars, mid,
                   thread>>

(* Faulty: a suppressed value schedules no flush. *)
sendUpdate_NoTimer(a) ==
    /\ At(a, "send")
    /\ LET n == The(a).n IN
       throttle' = [throttle EXCEPT ![n] =
         IF @ = None THEN [hot |-> TRUE, pending |-> FALSE, timer |-> FALSE]
         ELSE [hot |-> TRUE, pending |-> @.hot, timer |-> @.timer]]
    /\ Then(a, <<>>)
    /\ UNCHANGED <<nodeVars, tasks, sleeping, timers, userVars, historyVars,
                   mid>>

(* sendUpdate: outside the window the value is broadcast once the lock is  *)
(* released; inside it is kept, and a trailing flush scheduled.            *)
sendUpdate(a) ==
    /\ At(a, "send")
    /\ LET n == The(a).n IN
       \/ /\ throttle[n] = None
          /\ throttle' = [throttle EXCEPT ![n] =
               [hot |-> TRUE, pending |-> FALSE, timer |-> FALSE]]
          /\ UNCHANGED timers
       \/ /\ throttle[n] # None /\ ~throttle[n].hot
          /\ throttle' = [throttle EXCEPT ![n].hot = TRUE, ![n].pending = FALSE]
          /\ UNCHANGED timers
       \/ /\ throttle[n] # None /\ throttle[n].hot
          /\ throttle' = [throttle EXCEPT ![n].pending = TRUE, ![n].timer = TRUE]
          /\ timers' = IF throttle[n].timer THEN timers
                       ELSE [timers EXCEPT ![n] = @ + 1]
    /\ Then(a, <<>>)
    /\ UNCHANGED <<nodeVars, tasks, sleeping, userVars, historyVars, mid>>

(* The throttle window of a node ends. *)
WindowEnds(n) ==
    /\ throttle[n] # None /\ throttle[n].hot
    /\ throttle' = [throttle EXCEPT ![n].hot = FALSE]
    /\ UNCHANGED <<nodeVars, tasks, sleeping, timers, userVars,
                   historyVars, mid, thread>>

(* A trailing flush's timer fires: from here on it cannot be stopped. *)
TimerFires(n) ==
    /\ timers[n] > 0 /\ thread[Flusher] = <<>>
    /\ timers' = [timers EXCEPT ![n] = @ - 1]
    /\ thread' = [thread EXCEPT ![Flusher] = <<Do("flush", n, None)>>]
    /\ UNCHANGED <<nodeVars, tasks, sleeping, throttle, userVars,
                   historyVars, mid>>

(* flushProgress broadcasts the value kept, if there is one. *)
flushProgress(a) ==
    /\ At(a, "flush")
    /\ LET n == The(a).n IN
       throttle' = IF throttle[n] = None THEN throttle
                   ELSE [throttle EXCEPT ![n] =
                           [hot |-> @.hot \/ @.pending, pending |-> FALSE,
                            timer |-> FALSE]]
    /\ Then(a, <<>>)
    /\ UNCHANGED <<nodeVars, tasks, sleeping, timers, userVars, historyVars,
                   mid>>

-----------------------------------------------------------------------------
RunSection(a) ==
    \/ setStatus(a) \/ setFailed(a) \/ becomeRunning(a)
    \/ completeTop(a) \/ failTop(a) \/ failChildren(a) \/ failChild(a)
    \/ signalMiddlewareEnd(a)
    \/ runManaged(a) \/ runManagedReturns(a) \/ runScoped(a)
    \/ collectIDs(a) \/ dropThrottles(a)
    \/ sendUpdate(a) \/ flushProgress(a)

APICall(a) ==
    \/ \E p \in Nodes : \/ SubTask(a, p) \/ TaskSubTask(a, p)
                        \/ OutputWriter(a, p) \/ WriterProgress(a, p)
    \/ \E k \in Kids, r \in {"ok", "error"} :
         EndSub(a, k, r) \/ SubTaskEnds(a, k, r)
    \/ \E r \in {"ok", "error"} : EndTask(a, r) \/ SharedSubTaskEnds(a, r)
    \/ \E n \in Nodes : Progress(a, n)

Next ==
    \/ startRequestTask \/ startSharedTask \/ SharedSubTask \/ startReturns \/ HandlerPanics
    \/ \E r \in {"ok", "error", "canceled"} : HandlerReturns(r)
    \/ \E a \in Callables : APICall(a)
    \/ \E a \in Cancelers : CancelTaskByID(a)
    \/ \E a \in Threads : RunSection(a)
    \/ \E n \in Nodes :
         \/ MiddlewareNext(n) \/ MiddlewareDone(n) \/ MiddlewareSkips(n)
         \/ MiddlewarePanics(n)
         \/ WindowEnds(n) \/ TimerFires(n)
    \/ remove \/ stop

Spec == Init /\ [][Next]_vars

-----------------------------------------------------------------------------
(* Properties. *)

(* A sub-task, and a request's own task, keeps the first terminal status   *)
(* it reaches: a close that races a cascade, or the move to running that   *)
(* createChild makes after the node is visible, cannot undo it             *)
(* (taskNode.setStatus, failChildren).                                     *)
TerminalStays ==
    [][\A n \in Nodes :
         (n \in Kids \/ ~Shared) /\ Ended(n) => node'[n] = node[n]]_vars

(* The middleware of a task sees next return once, with the very end that  *)
(* the status and error shown to clients record, however many goroutines   *)
(* close, fail and cancel the task (signalMiddlewareEnd).  The one         *)
(* exception is a task that was cancelled while it was being announced.    *)
NextSeesTheEnd ==
    \A n \in Nodes : mid[n].pc = "returned" /\ ~(n = Top /\ revived) =>
        \/ node[n].status = "completed" /\ mid[n].got = "ok"
        \/ node[n].status = "failed" /\ mid[n].got = node[n].error

Cascading(a) == \E i \in DOMAIN thread[a] : thread[a][i].op \in {"list", "mark"}

(* When the cascade of a failed task is over, every sub-task made before   *)
(* the failure has ended, at any depth (failTop, failChildren).            *)
CascadeReachesAll ==
    Shared /\ node[Top].status = "failed"
      /\ (\A a \in Threads : ~Cascading(a))
    => \A k \in Kids : node[k].status # "absent" /\ k \notin late => Ended(k)

(* Some goroutine has still to run a section of that name on n. *)
Queued(op, n) ==
    \E a \in Threads : \E i \in DOMAIN thread[a] :
        thread[a][i].op = op /\ thread[a][i].n = n

(* The middleware of an ended task is not left waiting: whether the end    *)
(* comes before runManaged, before next or after it, next finds it, or a   *)
(* goroutine is on its way with it (runManaged, signalMiddlewareEnd).      *)
NextNotForgotten ==
    \A n \in Nodes : Ended(n) /\ mid[n].pc \in {"begin", "wait"} =>
        \/ Queued("signal", n)
        \/ mid[n].ended # "none" /\ (mid[n].pc = "wait" => mid[n].done # <<>>)

(* A suppressed progress value does not stay behind: a trailing flush is   *)
(* due for it, also when a timer that could not be stopped ran against the *)
(* entry of a later report (sendUpdate, flushProgress, remove).            *)
PendingHasFlush ==
    \A n \in Nodes : throttle[n] # None =>
        (throttle[n].pending => timers[n] > 0 \/ Queued("flush", n))

(* An ended shared task is on its way out of the registry: no order of     *)
(* close, failure and cancel leaves it there (completeTop, failTop).       *)
EndedIsRemoved ==
    tasks /\ Ended(Top) => sleeping > 0 \/ Queued("signal", Top)

(* One end, told to everybody: the middleware of a task, its status and    *)
(* its sub-tasks agree on how it ended, in every interleaving of close,    *)
(* failure, cancel and cascade (signalMiddlewareEnd, failChildren).        *)
EndReachesEverybody ==
    /\ NextSeesTheEnd
    /\ NextNotForgotten
    /\ CascadeReachesAll

(* Nothing of a task is left to nobody: a suppressed progress value has a  *)
(* flush due, an ended task is on its way out of the registry.             *)
NothingLeftDue ==
    /\ TypeOK
    /\ PendingHasFlush
    /\ EndedIsRemoved
=============================================================================
