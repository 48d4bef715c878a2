----------------------------- MODULE TaskViews -----------------------------
(***************************************************************************)
(* What one client is shown of the shared tasks, and what it may cancel.   *)
(*                                                                         *)
(* The server tells a client the whole list: when it connects, after each  *)
(* change of a task, and when the client asks.  Each time a goroutine      *)
(* copies the registry, marked for the connection and the user it has, and *)
(* then sends the copy; others run in between.  The generated client keeps *)
(* the last list it was sent, over reconnects too, and cancels from it.    *)
(***************************************************************************)
EXTENDS Integers, Sequences, FiniteSets

CONSTANTS
    Tasks,
    Goroutines,     \* the server's goroutines that change or list tasks
    Users, NoUser,
    Client,         \* the client, on its connection and as its user
    None,
    MaxConns,       \* bound: connections the client makes
    Loads           \* what may happen in a behaviour:
                    \*   starters: who starts tasks: <<connection or 0, user>>, or Client
                    \*   topLevels: TRUE for StartTask, FALSE for SharedSubTask
                    \*   busy: bound on goroutines at work at once
                    \*   setUsers: bound on calls of SetUserID
                    \*   clicks: bound on cancels the client sends

(* Connection IDs start at 1, and 0 is no connection. *)
ASSUME TaskViewsAssumption ==
    /\ MaxConns \in Nat /\ NoUser \notin Users
    /\ None \notin Goroutines \cup Users \cup Tasks \cup {NoUser}
    /\ \A l \in Loads :
         /\ \A c \in l.starters \ {Client} : c[1] \in Nat /\ c[1] \notin 1..MaxConns
         /\ l.topLevels \subseteq BOOLEAN
         /\ {l.busy, l.setUsers, l.clicks} \subseteq Nat

VARIABLES
    load,       \* which of Loads this behaviour has
    task,       \* task[t]: status, owner and topLevel
    registry,   \* taskManager.tasks
    sleeping,   \* sleeping[t]: goroutines waiting to remove t
    work,       \* work[g]: the list g is about to send, or None
    conn, user, \* the client's connection, 0 when it has none, and its user
    hooked,     \* its connect hooks have run, so that its frames are read
    ids,        \* connections made so far
    wire,       \* lists sent to the client and not yet received
    opening,    \* the client has yet to see that it is connected
    seed,       \* snapshotEpoch that the unread ListTasks was sent at, or None
    mounted,    \* the client's store exists
    epoch,      \* snapshotEpoch
    view,       \* the store's list, as which caller and when it was copied
    click,      \* a cancel on its way, with what it was rendered from
    setUsers, clicks, \* calls made so far
    clock,      \* history: changes that a broadcast follows
    newest,     \* history: when the newest copy received was made
    overtaken,  \* history: an event with an older copy came after it
    missed,     \* history: a ListTasks failed, and no list has come since
    refusals    \* history: how buttons of live tasks came to be refused

serverVars == <<task, registry, sleeping, clock>>
connVars == <<conn, user, hooked, ids, setUsers>>
linkVars == <<wire, opening, seed>>
storeVars == <<mounted, epoch, view, newest, overtaken, missed>>
clickVars == <<click, clicks, refusals>>
vars == <<load, serverVars, work, connVars, linkVars, storeVars, clickVars>>

UserIDs == Users \cup {NoUser}
Callers == ((0..MaxConns) \X UserIDs) \cup (load.starters \ {Client})
Shown == [status : {"created", "running", "ended"}, isOwner : BOOLEAN,
          startedHere : BOOLEAN]
Lists == [Tasks -> Shown \cup {None}]

(* The types of the variables. *)
TypeOK ==
    /\ task \in [Tasks -> [status : {"none", "created", "running", "ended"},
                           owner : Callers, topLevel : BOOLEAN]]
    /\ registry \subseteq Tasks /\ sleeping \in [Tasks -> 0..2]
    /\ DOMAIN work = Goroutines
    /\ conn \in 0..MaxConns /\ ids \in 0..MaxConns /\ user \in UserIDs
    /\ {hooked, opening, mounted, overtaken, missed} \subseteq BOOLEAN
    /\ \A i \in DOMAIN wire : wire[i].list \in Lists
    /\ view.list \in Lists /\ view.caller \in Callers
    /\ load \in Loads /\ setUsers \in 0..load.setUsers /\ clicks \in 0..load.clicks
    /\ refusals \subseteq {"none", "other user", "other connection"}

Nothing == [list |-> [t \in Tasks |-> None], caller |-> <<0, NoUser>>, at |-> 0]

Init ==
    /\ load \in Loads
    /\ task = [t \in Tasks |-> [status |-> "none", owner |-> <<0, NoUser>>,
                                topLevel |-> FALSE]]
    /\ registry = {} /\ sleeping = [t \in Tasks |-> 0]
    /\ work = [g \in Goroutines |-> None]
    /\ conn = 0 /\ user = NoUser /\ hooked = FALSE /\ ids = 0
    /\ wire = <<>> /\ seed = None /\ opening = FALSE
    /\ mounted = FALSE /\ epoch = 0 /\ view = Nothing
    /\ click = None
    /\ setUsers = 0 /\ clicks = 0
    /\ clock = 0 /\ newest = 0 /\ overtaken = FALSE /\ missed = FALSE /\ refusals = {}

Live(t) == task[t].status \in {"created", "running"}

-----------------------------------------------------------------------------
(* Ownership. *)

(* The user decides when the owner had one, else the connection. *)
ownedBy(t, c) ==
    IF task[t].owner[2] # NoUser THEN c[2] = task[t].owner[2]
    ELSE task[t].owner[1] # 0 /\ task[t].owner[1] = c[1]

startedOn(t, c) == task[t].owner[1] # 0 /\ task[t].owner[1] = c[1]

(* What the caller c is shown of a task; a SharedSubTask is nobody's. *)
sharedSnapshotForConn(t, c) ==
    [status |-> task[t].status,
     isOwner |-> task[t].topLevel /\ ownedBy(t, c),
     startedHere |-> task[t].topLevel /\ startedOn(t, c)]

snapshotAllForConn(c) ==
    [t \in Tasks |-> IF t \in registry THEN sharedSnapshotForConn(t, c) ELSE None]

-----------------------------------------------------------------------------
(* A goroutine sends the list.  pc names its next step, kind the frame,    *)
(* op what it does to the task t afterwards.                               *)
List(pc, kind, op, t) ==
    [pc |-> pc, kind |-> kind, op |-> op, t |-> t, epoch |-> 0,
     to |-> 0, caller |-> <<0, NoUser>>, list |-> Nothing.list, at |-> 0]

At(g, pc) == work[g] # None /\ work[g].pc = pc
Idle(g) == work[g] = None
Free(g) == Idle(g) /\ Cardinality({h \in Goroutines : ~Idle(h)}) < load.busy
broadcastNow(g, op, t) == work' = [work EXCEPT ![g] = List("conns", "event", op, t)]

(* ForEachConn visits the connections there are. *)
ForEachConn(g) ==
    /\ At(g, "conns")
    /\ work' = [work EXCEPT ![g].to = conn,
                            ![g].pc = IF conn = 0 THEN "push" ELSE "snapshot"]
    /\ UNCHANGED <<serverVars, connVars, linkVars, storeVars, clickVars>>

(* conn.UserID() is read and the registry copied under its lock.  A        *)
(* connection that has closed is sent nothing, so that it does not matter  *)
(* what it is shown;                                                       *)
snapshot(g) ==
    /\ At(g, "snapshot")
    /\ work' = [work EXCEPT ![g].caller = <<work[g].to, user>>,
                            ![g].list = snapshotAllForConn(<<work[g].to, user>>),
                            ![g].at = clock, ![g].pc = "push"]
    /\ UNCHANGED <<serverVars, connVars, linkVars, storeVars, clickVars>>

(* the copy is then sent, if the connection is still there. *)
Push(g) ==
    /\ At(g, "push")
    /\ wire' = IF conn = 0 \/ conn # work[g].to THEN wire
               ELSE Append(wire, [kind |-> work[g].kind, epoch |-> work[g].epoch,
                                  caller |-> work[g].caller, list |-> work[g].list,
                                  at |-> work[g].at])
    /\ work' = [work EXCEPT ![g] =
                  IF work[g].op = "none" THEN None
                  ELSE [List("after", "event", work[g].op, work[g].t) EXCEPT !.to = work[g].to]]
    /\ UNCHANGED <<serverVars, connVars, opening, seed, storeVars, clickVars>>

(* What follows: a started task is made running whatever it has become,    *)
(* the removal of an ended one is put off, the connection's frames are read.*)
afterPush(g) ==
    /\ At(g, "after")
    /\ work' = [work EXCEPT ![g] = None]
    /\ LET op == work[g].op
           t == work[g].t IN
       /\ task' = IF op = "start" THEN [task EXCEPT ![t].status = "running"] ELSE task
       /\ sleeping' = IF op = "end" THEN [sleeping EXCEPT ![t] = @ + 1] ELSE sleeping
       /\ hooked' = (hooked \/ (op = "connect" /\ conn = work[g].to))
    /\ UNCHANGED <<registry, clock, conn, user, ids, setUsers, linkVars,
                   storeVars, clickVars>>

-----------------------------------------------------------------------------
(* The server's tasks. *)

(* A task of the caller c is made and announced. *)
create(g, t, c, topLevel) ==
    /\ Free(g) /\ task[t].status = "none"
    /\ task' = [task EXCEPT ![t] = [status |-> "created", owner |-> c,
                                    topLevel |-> topLevel]]
    /\ registry' = registry \cup {t}
    /\ clock' = clock + 1
    /\ broadcastNow(g, "start", t)
    /\ UNCHANGED <<sleeping, connVars, linkVars, storeVars, clickVars>>

(* A caller on the client's socket is one whose frames are read. *)
StartTask(g, t, c, topLevel) ==
    /\ c = Client => hooked
    /\ create(g, t, IF c = Client THEN <<conn, user>> ELSE c, topLevel)

(* The call that started t has returned a handle of it. *)
Started(t) ==
    /\ task[t].status # "none"
    /\ \A g \in Goroutines : ~Idle(g) => ~(work[g].op = "start" /\ work[g].t = t)

(* completeTop and failTop of a live task. *)
EndTop(g, t) ==
    /\ Free(g) /\ Live(t)
    /\ task' = [task EXCEPT ![t].status = "ended"]
    /\ clock' = clock + 1
    /\ broadcastNow(g, "end", t)
    /\ UNCHANGED <<registry, sleeping>>

(* The task is closed or failed through its handle, *)
EndTask(g, t) ==
    /\ Started(t)
    /\ EndTop(g, t)
    /\ UNCHANGED <<connVars, linkVars, storeVars, clickVars>>

(* or by CancelTaskByID, or CancelSharedTask of a caller who may. *)
CancelTaskByID(g, t) ==
    /\ t \in registry
    /\ EndTop(g, t)
    /\ UNCHANGED <<connVars, linkVars, storeVars, clickVars>>

(* An ended task is removed a moment later. *)
remove(g, t) ==
    /\ Free(g) /\ sleeping[t] > 0
    /\ sleeping' = [sleeping EXCEPT ![t] = @ - 1]
    /\ registry' = registry \ {t}
    /\ clock' = clock + 1
    /\ broadcastNow(g, "none", t)
    /\ UNCHANGED <<task, connVars, linkVars, storeVars, clickVars>>

-----------------------------------------------------------------------------
(* The client's connection. *)

(* A connection is among the server's before its connect hook sends it the *)
(* list.                                                                   *)
Connect(g) ==
    /\ conn = 0 /\ ids < MaxConns /\ Free(g)
    /\ ids' = ids + 1
    /\ conn' = ids + 1
    /\ user' = NoUser
    /\ opening' = TRUE
    /\ work' = [work EXCEPT ![g] =
                  [List("snapshot", "event", "connect", None) EXCEPT !.to = ids + 1]]
    /\ UNCHANGED <<serverVars, hooked, setUsers, wire, seed, storeVars, clickVars>>

Disconnect ==
    /\ conn # 0
    /\ conn' = 0
    /\ user' = NoUser
    /\ hooked' = FALSE
    /\ wire' = <<>> /\ opening' = FALSE /\ seed' = None
    /\ click' = None
    /\ UNCHANGED <<serverVars, work, ids, setUsers, storeVars, clicks, refusals>>

(* A hook, middleware or handler of the application sets the user. *)
SetUserID(u) ==
    /\ conn # 0 /\ u # user
    /\ setUsers < load.setUsers
    /\ setUsers' = setUsers + 1
    /\ user' = u
    /\ UNCHANGED <<serverVars, work, conn, hooked, ids, linkVars, storeVars,
                   clickVars>>

(* The seed is answered with the list, *)
ListTasks(g) ==
    /\ Free(g) /\ hooked /\ seed # None
    /\ seed' = None
    /\ work' = [work EXCEPT ![g] =
                  [List("snapshot", "seed", "none", None) EXCEPT !.to = conn, !.epoch = seed]]
    /\ UNCHANGED <<serverVars, connVars, wire, opening, storeVars, clickVars>>

(* or refused by a middleware or a limit of the server. *)
ListTasksFails ==
    /\ hooked /\ seed # None
    /\ seed' = None
    /\ missed' = TRUE
    /\ UNCHANGED <<serverVars, work, connVars, wire, opening, mounted, epoch, view,
                   newest, overtaken, clickVars>>

-----------------------------------------------------------------------------
(* The client's store. *)

(* The store is made, and asks for the list if it is connected. *)
sharedTaskStore ==
    /\ ~mounted
    /\ mounted' = TRUE
    /\ seed' = IF conn # 0 /\ ~opening THEN epoch ELSE seed
    /\ UNCHANGED <<serverVars, work, connVars, wire, opening, epoch, view, newest,
                   overtaken, missed, clickVars>>

(* It also asks whenever the client becomes connected. *)
onStateChange ==
    /\ opening
    /\ opening' = FALSE
    /\ seed' = IF mounted THEN epoch ELSE seed
    /\ UNCHANGED <<serverVars, work, connVars, wire, storeVars, clickVars>>

(* The store's list becomes the one received. *)
take(f) ==
    /\ epoch' = epoch + 1
    /\ view' = [list |-> f.list, caller |-> f.caller, at |-> f.at]
    /\ overtaken' = (f.kind = "event" /\ f.at < newest)
    /\ missed' = FALSE

(* A TaskStateEvent; without a store nobody listens. *)
onTaskState ==
    /\ wire # <<>> /\ Head(wire).kind = "event"
    /\ wire' = Tail(wire)
    /\ newest' = IF Head(wire).at > newest THEN Head(wire).at ELSE newest
    /\ IF mounted THEN take(Head(wire)) ELSE UNCHANGED <<epoch, view, overtaken, missed>>
    /\ UNCHANGED <<serverVars, work, connVars, opening, seed, mounted, clickVars>>

(* Faulty: the answer counts whatever came before it. *)
onSeed_Always ==
    /\ wire # <<>> /\ Head(wire).kind = "seed"
    /\ wire' = Tail(wire)
    /\ newest' = IF Head(wire).at > newest THEN Head(wire).at ELSE newest
    /\ take(Head(wire))
    /\ UNCHANGED <<serverVars, work, connVars, opening, seed, mounted, clickVars>>

(* The answer to a seed counts unless an event came first. *)
onSeed ==
    /\ wire # <<>> /\ Head(wire).kind = "seed"
    /\ wire' = Tail(wire)
    /\ newest' = IF Head(wire).at > newest THEN Head(wire).at ELSE newest
    /\ IF epoch = Head(wire).epoch THEN take(Head(wire))
       ELSE UNCHANGED <<epoch, view, overtaken, missed>>
    /\ UNCHANGED <<serverVars, work, connVars, opening, seed, mounted, clickVars>>

(* The cancel button of a task shown as the client's own. *)
Click(t) ==
    /\ conn # 0 /\ click = None /\ clicks < load.clicks
    /\ view.list[t] # None /\ view.list[t].isOwner
    /\ clicks' = clicks + 1
    /\ click' = [t |-> t, caller |-> view.caller]
    /\ UNCHANGED <<serverVars, work, connVars, linkVars, storeVars, refusals>>

(* What sets the caller of a refused cancel apart from the one that was    *)
(* shown the button.                                                       *)
Difference(t) ==
    IF task[t].owner[2] # NoUser
    THEN IF click.caller[2] # user THEN "other user" ELSE "none"
    ELSE IF click.caller[1] # conn THEN "other connection" ELSE "none"

(* Faulty: only the creating connection may cancel. *)
CancelSharedTask_ByConn(g) ==
    /\ hooked /\ click # None
    /\ LET t == click.t IN
       IF t \in registry /\ startedOn(t, <<conn, user>>)
       THEN /\ IF Live(t) THEN EndTop(g, t) ELSE UNCHANGED <<serverVars, work>>
            /\ UNCHANGED refusals
       ELSE /\ refusals' = IF t \in registry /\ Live(t) THEN refusals \cup {Difference(t)}
                           ELSE refusals
            /\ UNCHANGED <<serverVars, work>>
    /\ click' = None
    /\ UNCHANGED <<connVars, linkVars, storeVars, clicks>>

(* CancelSharedTask of that click, under the default policy. *)
CancelSharedTask(g) ==
    /\ hooked /\ click # None
    /\ LET t == click.t IN
       IF t \in registry /\ ownedBy(t, <<conn, user>>)
       THEN /\ IF Live(t) THEN EndTop(g, t) ELSE UNCHANGED <<serverVars, work>>
            /\ UNCHANGED refusals
       ELSE /\ refusals' = IF t \in registry /\ Live(t) THEN refusals \cup {Difference(t)}
                           ELSE refusals
            /\ UNCHANGED <<serverVars, work>>
    /\ click' = None
    /\ UNCHANGED <<connVars, linkVars, storeVars, clicks>>

-----------------------------------------------------------------------------
Next ==
    \/ \E g \in Goroutines :
         \/ ForEachConn(g) \/ snapshot(g) \/ Push(g) \/ afterPush(g)
         \/ Connect(g) \/ ListTasks(g) \/ CancelSharedTask(g)
         \/ \E t \in Tasks :
              \/ \E c \in load.starters, topLevel \in load.topLevels : StartTask(g, t, c, topLevel)
              \/ EndTask(g, t) \/ CancelTaskByID(g, t)
              \/ remove(g, t)
    \/ Disconnect \/ ListTasksFails
    \/ \E u \in UserIDs : SetUserID(u)
    \/ sharedTaskStore \/ onStateChange \/ onTaskState \/ onSeed
    \/ \E t \in Tasks : Click(t)

Spec == Init /\ [][Next /\ UNCHANGED load]_vars

-----------------------------------------------------------------------------
(* Properties. *)

(* Nothing is on its way to the client. *)
Quiet ==
    /\ mounted /\ hooked /\ ~opening
    /\ wire = <<>> /\ seed = None
    /\ \A g \in Goroutines : Idle(g) \/ work[g].pc = "after"

(* A task made running is not announced, so it may be shown as created. *)
Agrees(shown, fresh) ==
    IF fresh = None THEN shown = None
    ELSE /\ shown # None
         /\ shown.isOwner = fresh.isOwner /\ shown.startedHere = fresh.startedHere
         /\ fresh.status = "ended" => shown.status = "ended"

(* Once nothing is on its way, the client shows the tasks as they are,     *)
(* marked for its connection and the user it had when the list was copied: *)
(* whenever it mounted, reconnected or was sent lists by several           *)
(* goroutines, and although the answer to its ListTasks may be older than  *)
(* an event read before it (snapshotEpoch).  Two cases are excepted: an    *)
(* event with an older copy sent after a newer one, since broadcastNow     *)
(* does not order the two, and a ListTasks that failed (broadcastNow,      *)
(* Enable's connect hook, sharedTaskStore).                                *)
ViewSettles ==
    /\ TypeOK
    /\ Quiet /\ ~overtaken /\ ~missed =>
         \A t \in Tasks :
             Agrees(view.list[t], snapshotAllForConn(<<conn, view.caller[2]>>)[t])

(* A live task's cancel button is refused only to a caller that is not the *)
(* one it was rendered for: a task with a user's owner when the user was   *)
(* set since, an anonymous owner's on a later connection.  A reconnect of  *)
(* the same user keeps the right (ownedBy, CancelSharedTask).              *)
RefusedOnlyToAnother == "none" \notin refusals
=============================================================================
