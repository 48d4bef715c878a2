----------------------------- MODULE ClientSubs -----------------------------
(***************************************************************************)
(* The subscriptions of the Go client (client/subscription.go, with the    *)
(* parts of client.go that route frames to them and reset them).           *)
(*                                                                         *)
(* A subscription outlives connections: markConnected sends it again on    *)
(* every new one.  At most maxSubscribesInFlight subscribe frames may be   *)
(* unanswered; the others queue, and each answer sends the next.  Client.mu *)
(* guards the table, the count and the queue, subSendMu orders subscribe   *)
(* and unsubscribe frames, and each subscription has a mutex of its own.   *)
(* They are taken by the application's goroutines, the reader of the       *)
(* current connection and the supervisor.                                  *)
(*                                                                         *)
(* A step is one critical section.  The server is external: it has a       *)
(* subscription once the frame is written, computes the answer at some     *)
(* later point, may send patches from then on and, after the first answer, *)
(* refreshes, also while a frame that was sent again is unanswered.  The   *)
(* data of a subscription is a number of changes, and a value of it the    *)
(* set of changes it has.                                                  *)
(***************************************************************************)
EXTENDS Naturals, Sequences, FiniteSets, SequencesExt

CONSTANTS
  Subs,         \* subscriptions the application opens
  Patching,     \* those opened with WithPatch
  maxSubscribesInFlight,
  MaxConns,     \* bound: connections
  MaxVersion    \* bound: changes of each subscription's data

ASSUME SubsAssumption ==
  /\ Patching \subseteq Subs
  /\ maxSubscribesInFlight \in Nat \ {0}
  /\ MaxConns \in Nat \ {0} /\ MaxVersion \in Nat

VARIABLES
  conn,         \* Client.conn, 0 when nil
  last,         \* connections so far
  linkUp,       \* external: the current connection still carries frames
  closed,       \* Client.closed
  subs,         \* Client.subs
  subInFlight,  \* Client.subInFlight
  subQueue,     \* Client.subQueue
  subSendMu,    \* subSendMu, and the subscribe frames its holder has to write
  sub,          \* fields of each Subscription
  opening,      \* goroutines inside Subscribe
  ending,       \* goroutines inside Subscription.end
  rd,           \* the reader of the current connection
  sup,          \* the supervisor, and the subscriptions it has yet to visit
  ver,          \* external: changes of each subscription's data so far
  srvSubs,      \* external: subscriptions sent on the current connection
  kept,         \* external: those that have an answer, and so a registration
  owed,         \* external: subscribe frames not yet answered
  computed,     \* external: changes the answer being sent has, or NoAnswer
  missed        \* history: patches that came before a value to apply them to

vars == <<conn, last, linkUp, closed, subs, subInFlight, subQueue, subSendMu,
          sub, opening, ending, rd, sup, ver, srvSubs, kept, owed, computed, missed>>

srvVars == <<ver, srvSubs, kept, owed, computed, missed>>
table   == <<subs, subInFlight, subQueue>>

NoConn   == 0
NoValue  == [conn |-> NoConn, has |-> {}]
NoAnswer == MaxVersion + 1
Free     == [by |-> "nobody", conn |-> NoConn, todo |-> <<>>]
Idle     == [pc |-> "read", x |-> "none", aw |-> NoConn]

-----------------------------------------------------------------------------
Init ==
  /\ conn = 1 /\ last = 1 /\ linkUp = TRUE /\ closed = FALSE
  /\ subs = {} /\ subInFlight = 0 /\ subQueue = <<>>
  /\ subSendMu = Free
  /\ sub = [x \in Subs |-> [closed |-> FALSE, current |-> NoValue, awaiting |-> NoConn,
                            resend |-> FALSE, failing |-> FALSE]]
  /\ opening = [x \in Subs |-> [pc |-> "new", conn |-> NoConn]]
  /\ ending = [x \in Subs |-> [pc |-> "no", aw |-> NoConn]]
  /\ rd = Idle
  /\ sup = [pc |-> "up", todo |-> {}]
  /\ ver = [x \in Subs |-> 0]
  /\ srvSubs = {} /\ kept = {}
  /\ owed = [x \in Subs |-> 0] /\ computed = [x \in Subs |-> NoAnswer]
  /\ missed = [x \in Subs |-> {}]

Queued(x) == \E i \in 1..Len(subQueue) : subQueue[i] = x

-----------------------------------------------------------------------------
(* Sending subscribe frames.  The holder of subSendMu has a list to write. *)

\* Faulty: the slot is not counted.
sendSubscribe_NoCount(who, c, x) ==
  /\ subSendMu = Free
  /\ IF x \notin subs \/ conn # c
       THEN UNCHANGED <<subInFlight, subQueue, subSendMu>>
       ELSE /\ subSendMu' = [by |-> who, conn |-> c, todo |-> <<x>>]
            /\ UNCHANGED <<subInFlight, subQueue>>

\* sendSubscribe, up to the write: nothing if x was closed or c is no longer
\* current, queue x if every slot is taken, else take a slot.
sendSubscribe(who, c, x) ==
  /\ subSendMu = Free
  /\ IF x \notin subs \/ conn # c
       THEN UNCHANGED <<subInFlight, subQueue, subSendMu>>
       ELSE IF subInFlight >= maxSubscribesInFlight
         THEN /\ subQueue' = Append(subQueue, x)
              /\ UNCHANGED <<subInFlight, subSendMu>>
         ELSE /\ subInFlight' = subInFlight + 1
              /\ subSendMu' = [by |-> who, conn |-> c, todo |-> <<x>>]
              /\ UNCHANGED subQueue

\* writeSubscribe for the first of the list: record the connection and write.
\* A write on a dead connection is lost; one that is too large fails x.
writeSubscribe ==
  /\ subSendMu.todo # <<>>
  /\ LET x == Head(subSendMu.todo)
         rest == Tail(subSendMu.todo)
         delivered == linkUp /\ conn = subSendMu.conn
     IN
     /\ subSendMu' = IF rest = <<>> THEN Free ELSE [subSendMu EXCEPT !.todo = rest]
     /\ \/ /\ sub' = [sub EXCEPT ![x].awaiting = subSendMu.conn]
           /\ srvSubs' = IF delivered THEN srvSubs \cup {x} ELSE srvSubs
           /\ owed' = IF delivered THEN [owed EXCEPT ![x] = @ + 1] ELSE owed
        \/ /\ sub' = [sub EXCEPT ![x].awaiting = subSendMu.conn, ![x].failing = TRUE]
           /\ UNCHANGED <<srvSubs, owed>>
  /\ UNCHANGED <<conn, last, linkUp, closed, table, opening, ending, rd, sup, ver,
                 kept, computed, missed>>

\* The first entries of the queue that are still open: those of positions 1..k.
OpenAmong(k) == {i \in 1..k : subQueue[i] \in subs}

\* How many entries the loop takes off the queue when n slots are free: it
\* stops when they are taken or the queue is empty.
Popped(n) ==
  CHOOSE k \in 0..Len(subQueue) :
    /\ k = Len(subQueue) \/ Cardinality(OpenAmong(k)) = n
    /\ \A j \in 0..k-1 : Cardinality(OpenAmong(j)) < n

\* The open ones of them, in order.
NextOf(k) ==
  [m \in 1..Cardinality(OpenAmong(k)) |->
     subQueue[CHOOSE i \in OpenAmong(k) : Cardinality(OpenAmong(i)) = m]]

\* releaseSubSlot: ignored for an old connection; otherwise the slot is freed
\* and queued subscriptions take what is free.  Those closed while queued are
\* skipped.
releaseSubSlot(who, c) ==
  /\ subSendMu = Free
  /\ IF conn # c
       THEN UNCHANGED <<subInFlight, subQueue, subSendMu>>
       ELSE LET k    == Popped(maxSubscribesInFlight - (subInFlight - 1))
                next == NextOf(k)
            IN /\ subInFlight' = subInFlight - 1 + Len(next)
               /\ subQueue' = SubSeq(subQueue, k + 1, Len(subQueue))
               /\ subSendMu' = IF next = <<>> THEN Free
                               ELSE [by |-> who, conn |-> c, todo |-> next]

-----------------------------------------------------------------------------
(* Subscribe and end                                                       *)

\* Subscribe registers x and reads conn under one lock.
Subscribe(x) ==
  /\ opening[x].pc = "new"
  /\ IF closed
       THEN /\ sub' = [sub EXCEPT ![x].closed = TRUE]
            /\ opening' = [opening EXCEPT ![x].pc = "done"]
            /\ ending' = [ending EXCEPT ![x].pc = "done"]
            /\ UNCHANGED subs
       ELSE /\ subs' = subs \cup {x}
            /\ opening' = [opening EXCEPT ![x] =
                 [pc |-> IF conn = NoConn THEN "done" ELSE "send", conn |-> conn]]
            /\ UNCHANGED <<sub, ending>>
  /\ UNCHANGED <<conn, last, linkUp, closed, subInFlight, subQueue, subSendMu, rd, sup, srvVars>>

\* It sends the frame if there was a connection.
SubscribeSends(x) ==
  /\ opening[x].pc = "send"
  /\ sendSubscribe("app", opening[x].conn, x)
  /\ opening' = [opening EXCEPT ![x].pc = "done"]
  /\ UNCHANGED <<conn, last, linkUp, closed, subs, sub, ending, rd, sup, srvVars>>

\* closeWith: only the first caller closes C, and goes on to end.
closeWith(x) ==
  /\ sub' = [sub EXCEPT ![x].closed = TRUE, ![x].current = NoValue]
  /\ ending' = [ending EXCEPT ![x].pc = "lock"]

\* Subscription.Close, the end of its context, or the fail that an oversized
\* frame starts.  Subscribe has returned it to the application, or it failed.
endBegins(x) ==
  /\ opening[x].pc = "done" \/ sub[x].failing
  /\ ~sub[x].closed
  /\ closeWith(x)
  /\ UNCHANGED <<conn, last, linkUp, closed, table, subSendMu, opening, rd, sup, srvVars>>

\* Faulty: the frame goes out before subSendMu is taken.
endUnsubscribes_Unordered(x) ==
  /\ ending[x].pc = "lock"
  /\ subs' = subs \ {x}
  /\ subQueue' = RemoveFirst(subQueue, x)
  /\ srvSubs' = IF conn # NoConn /\ linkUp THEN srvSubs \ {x} ELSE srvSubs
  /\ kept' = IF conn # NoConn /\ linkUp THEN kept \ {x} ELSE kept
  /\ ending' = [ending EXCEPT ![x].pc = "take"]
  /\ UNCHANGED <<conn, last, linkUp, closed, subInFlight, subSendMu, sub, opening,
                 rd, sup, ver, owed, computed, missed>>

\* Under subSendMu: out of the table and the queue, and unsubscribe.
endUnsubscribes(x) ==
  /\ ending[x].pc = "lock" /\ subSendMu = Free
  /\ subs' = subs \ {x}
  /\ subQueue' = RemoveFirst(subQueue, x)
  /\ srvSubs' = IF conn # NoConn /\ linkUp THEN srvSubs \ {x} ELSE srvSubs
  /\ kept' = IF conn # NoConn /\ linkUp THEN kept \ {x} ELSE kept
  /\ ending' = [ending EXCEPT ![x].pc = "take"]
  /\ UNCHANGED <<conn, last, linkUp, closed, subInFlight, subSendMu, sub, opening,
                 rd, sup, ver, owed, computed, missed>>

\* takeAwaiting: the slot of an unanswered frame is the ender's to release.
endTakes(x) ==
  /\ ending[x].pc = "take"
  /\ sub' = [sub EXCEPT ![x].awaiting = NoConn]
  /\ ending' = [ending EXCEPT ![x] =
       [pc |-> IF sub[x].awaiting = NoConn THEN "done" ELSE "release", aw |-> sub[x].awaiting]]
  /\ UNCHANGED <<conn, last, linkUp, closed, table, subSendMu, opening, rd, sup, srvVars>>

\* releaseSubSlot, for the slot end took.
endReleases(x) ==
  /\ ending[x].pc = "release"
  /\ releaseSubSlot("ender", ending[x].aw)
  /\ ending' = [ending EXCEPT ![x] = [pc |-> "done", aw |-> NoConn]]
  /\ UNCHANGED <<conn, last, linkUp, closed, subs, sub, opening, rd, sup, srvVars>>

-----------------------------------------------------------------------------
(* The reader of the current connection.                                   *)

\* The reader can meet a frame: it is not inside a handler, and frames come.
Meets == rd.pc = "read" /\ linkUp /\ conn # NoConn /\ subSendMu.by # "reader"

\* publishLocked: nothing once closed; the value is kept only for patches.
publish(x, v) ==
  IF sub[x].closed \/ x \notin Patching THEN sub
  ELSE [sub EXCEPT ![x].current = v]

\* External: the server's handler has read the data for x's oldest frame.
ServerComputes(x) ==
  /\ owed[x] > 0 /\ computed[x] = NoAnswer
  /\ computed' = [computed EXCEPT ![x] = ver[x]]
  /\ UNCHANGED <<conn, last, linkUp, closed, table, subSendMu, sub, opening, ending,
                 rd, sup, ver, srvSubs, kept, owed, missed>>

\* deliverResult and deliver; takeAwaiting says whether it was the first answer.
Delivered(x, v) ==
  IF x \in subs
    THEN /\ sub' = [publish(x, [conn |-> conn, has |-> 1..v]) EXCEPT ![x].awaiting = NoConn]
         /\ rd' = IF sub[x].awaiting = NoConn THEN rd
                  ELSE [pc |-> "answered", x |-> x, aw |-> sub[x].awaiting]
    ELSE UNCHANGED <<sub, rd>>

\* External: the server has sent the result of x's oldest frame.  From then on
\* it has x registered, unless x was unsubscribed.
ServerAnswers(x) ==
  /\ computed[x] # NoAnswer
  /\ computed' = [computed EXCEPT ![x] = NoAnswer]
  /\ owed' = [owed EXCEPT ![x] = @ - 1]
  /\ kept' = kept \cup ({x} \cap srvSubs)

\* The answer to a subscribe frame.
deliverAnswer(x) ==
  /\ Meets /\ ServerAnswers(x)
  /\ Delivered(x, computed[x])
  /\ UNCHANGED <<conn, last, linkUp, closed, table, subSendMu, opening, ending, sup, ver, srvSubs, missed>>

\* The result of a refresh the server ran after the data changed.  The client
\* does not tell it from an answer, and the server may have sent it before it
\* met a subscribe frame that was sent again: the result then takes the slot of
\* a frame that is still owed its answer.  Its data is the newest when it is read.
deliverRefresh(x) ==
  /\ Meets /\ x \in kept /\ ver[x] < MaxVersion
  /\ ver' = [ver EXCEPT ![x] = @ + 1]
  /\ Delivered(x, ver[x] + 1)
  /\ UNCHANGED <<conn, last, linkUp, closed, table, subSendMu, opening, ending, sup,
                 srvSubs, kept, owed, computed, missed>>

\* deliver of a result that does not decode: the subscription ends, and its end
\* frees the slot.
Undecodable(x) ==
  IF sub[x].closed
    THEN Delivered(x, 0) /\ UNCHANGED ending
    ELSE closeWith(x) /\ rd' = [pc |-> "ending", x |-> x, aw |-> NoConn]

\* The answer does not decode.
deliverUndecodable(x) ==
  /\ Meets /\ x \in subs /\ ServerAnswers(x)
  /\ Undecodable(x)
  /\ UNCHANGED <<conn, last, linkUp, closed, table, subSendMu, opening, sup, ver, srvSubs, missed>>

\* The result of a refresh does not decode.
refreshUndecodable(x) ==
  /\ Meets /\ x \in subs /\ x \in kept
  /\ Undecodable(x)
  /\ UNCHANGED <<conn, last, linkUp, closed, table, subSendMu, opening, sup, srvVars>>

\* The end a handler called has returned; it has taken the slot itself.
endReturns ==
  /\ rd.pc = "ending" /\ ending[rd.x].pc = "done"
  /\ rd' = Idle
  /\ UNCHANGED <<conn, last, linkUp, closed, table, subSendMu, sub, opening, ending, sup, srvVars>>

\* answered: a re-send asked for meanwhile goes out on the same slot, unless x
\* or the connection is gone; otherwise the slot is freed.
answered ==
  /\ rd.pc = "answered"
  /\ subSendMu = Free
  /\ IF sub[rd.x].resend /\ rd.x \in subs /\ conn = rd.aw
       THEN /\ subSendMu' = [by |-> "reader", conn |-> rd.aw, todo |-> <<rd.x>>]
            /\ UNCHANGED <<subInFlight, subQueue>>
       ELSE releaseSubSlot("reader", rd.aw)
  /\ sub' = [sub EXCEPT ![rd.x].resend = FALSE]
  /\ rd' = Idle
  /\ UNCHANGED <<conn, last, linkUp, closed, subs, opening, ending, sup, srvVars>>

\* handleError: an error while x awaits an answer is that answer: the slot is
\* released and x fails.  A registration the server has from an earlier frame
\* outlives it.
errorAnswers(x) ==
  /\ Meets /\ computed[x] # NoAnswer
  /\ computed' = [computed EXCEPT ![x] = NoAnswer]
  /\ owed' = [owed EXCEPT ![x] = @ - 1]
  /\ srvSubs' = srvSubs \ ({x} \ kept)
  /\ IF x \in subs /\ sub[x].awaiting # NoConn
       THEN /\ rd' = [pc |-> "failed", x |-> x, aw |-> sub[x].awaiting]
            /\ sub' = [sub EXCEPT ![x].awaiting = NoConn]
       ELSE UNCHANGED <<rd, sub>>
  /\ UNCHANGED <<conn, last, linkUp, closed, table, subSendMu, opening, ending, sup, ver,
                 kept, missed>>

\* The error of a refresh.  It is reported, unless x awaits an answer: then it
\* is taken for that answer, although the server has x registered.
errorRefresh(x) ==
  /\ Meets /\ x \in kept /\ x \in subs /\ sub[x].awaiting # NoConn
  /\ rd' = [pc |-> "failed", x |-> x, aw |-> sub[x].awaiting]
  /\ sub' = [sub EXCEPT ![x].awaiting = NoConn]
  /\ UNCHANGED <<conn, last, linkUp, closed, table, subSendMu, opening, ending, sup, srvVars>>

\* releaseSubSlot, and then fail.
errorFails ==
  /\ rd.pc = "failed"
  /\ releaseSubSlot("reader", rd.aw)
  /\ rd' = [pc |-> "fail", x |-> rd.x, aw |-> NoConn]
  /\ UNCHANGED <<conn, last, linkUp, closed, subs, sub, opening, ending, sup, srvVars>>

errorEnds ==
  /\ rd.pc = "fail" /\ subSendMu.by # "reader"
  /\ IF sub[rd.x].closed
       THEN rd' = Idle /\ UNCHANGED <<sub, ending>>
       ELSE rd' = [pc |-> "ending", x |-> rd.x, aw |-> NoConn] /\ closeWith(rd.x)
  /\ UNCHANGED <<conn, last, linkUp, closed, table, subSendMu, opening, sup, srvVars>>

\* Faulty: nothing is asked for again.
resubscribe_Ignores(x) == UNCHANGED <<sub, subInFlight, subQueue, subSendMu>>

\* Ask for the full result again, after the pending first answer if there is
\* one.
resubscribe(x) ==
  IF sub[x].awaiting = conn
    THEN /\ sub' = [sub EXCEPT ![x].resend = TRUE]
         /\ UNCHANGED <<subInFlight, subQueue, subSendMu>>
    ELSE sendSubscribe("reader", conn, x) /\ UNCHANGED sub

\* External: the server sends patches once its handler has registered x, which
\* may be before the client has read the first answer.
Registered(x) == x \in srvSubs /\ (x \in kept \/ computed[x] # NoAnswer)

\* A patch.  It is applied to the value of this connection; without one the full
\* result is asked for again.
patch(x) ==
  /\ Meets /\ Registered(x) /\ x \in Patching /\ ver[x] < MaxVersion
  /\ ver' = [ver EXCEPT ![x] = @ + 1]
  /\ IF x \notin subs \/ sub[x].closed
       THEN UNCHANGED <<sub, subInFlight, subQueue, subSendMu, missed>>
       ELSE IF sub[x].current # NoValue
         THEN /\ sub' = [sub EXCEPT ![x].current.has = @ \cup {ver[x] + 1}]
              /\ UNCHANGED <<subInFlight, subQueue, subSendMu, missed>>
         ELSE /\ resubscribe(x)
              /\ missed' = [missed EXCEPT ![x] = @ \cup {ver[x] + 1}]
  /\ UNCHANGED <<conn, last, linkUp, closed, subs, opening, ending, rd, sup,
                 srvSubs, kept, owed, computed>>

\* apply returns an error: the subscription ends.
patchFails(x) ==
  /\ Meets /\ Registered(x) /\ x \in Patching /\ ver[x] < MaxVersion
  /\ x \in subs /\ ~sub[x].closed /\ sub[x].current # NoValue
  /\ ver' = [ver EXCEPT ![x] = @ + 1]
  /\ closeWith(x)
  /\ rd' = [pc |-> "ending", x |-> x, aw |-> NoConn]
  /\ UNCHANGED <<conn, last, linkUp, closed, table, subSendMu, opening, sup,
                 srvSubs, kept, owed, computed, missed>>

-----------------------------------------------------------------------------
(* The supervisor: drop and reconnect.  The reader has ended by then.      *)

\* External: the connection breaks.
Break ==
  /\ linkUp /\ last < MaxConns
  /\ linkUp' = FALSE
  /\ srvSubs' = {} /\ kept' = {} /\ owed' = [x \in Subs |-> 0]
  /\ computed' = [x \in Subs |-> NoAnswer]
  /\ missed' = [x \in Subs |-> {}]
  /\ UNCHANGED <<conn, last, closed, table, subSendMu, sub, opening, ending, rd, sup, ver>>

\* markDisconnected: the count and the queue are reset with the connection.
markDisconnected ==
  /\ sup.pc = "up" /\ ~linkUp /\ rd.pc = "read" /\ subSendMu.by # "reader"
  /\ IF conn = NoConn
       THEN sup' = [sup EXCEPT !.pc = "down"] /\ UNCHANGED <<conn, subInFlight, subQueue>>
       ELSE /\ conn' = NoConn /\ subInFlight' = 0 /\ subQueue' = <<>>
            /\ sup' = [pc |-> "lose", todo |-> subs]
  /\ UNCHANGED <<last, linkUp, closed, subs, subSendMu, sub, opening, ending, rd, srvVars>>

\* connLost: forget what was tied to the connection.
connLost(x) ==
  /\ sup.pc = "lose" /\ x \in sup.todo
  /\ sub' = [sub EXCEPT ![x].current = NoValue, ![x].awaiting = NoConn, ![x].resend = FALSE]
  /\ sup' = [sup EXCEPT !.todo = @ \ {x}]
  /\ UNCHANGED <<conn, last, linkUp, closed, table, subSendMu, opening, ending, rd, srvVars>>

\* Faulty: a subscription opened during the outage is not sent.
markConnected_OnlyOld ==
  /\ sup.pc = "lose" /\ sup.todo = {} /\ ~closed
  /\ conn' = last + 1 /\ last' = last + 1 /\ linkUp' = TRUE
  /\ subInFlight' = 0 /\ subQueue' = <<>>
  /\ sup' = [pc |-> "resend", todo |-> {x \in subs : opening[x].conn # NoConn}]
  /\ UNCHANGED <<closed, subs, subSendMu, sub, opening, ending, rd, srvVars>>

\* markConnected: publish the connection and take the open subscriptions, under
\* one lock.
markConnected ==
  /\ sup.pc = "lose" /\ sup.todo = {} /\ ~closed
  /\ conn' = last + 1 /\ last' = last + 1 /\ linkUp' = TRUE
  /\ subInFlight' = 0 /\ subQueue' = <<>>
  /\ sup' = [pc |-> "resend", todo |-> subs]
  /\ UNCHANGED <<closed, subs, subSendMu, sub, opening, ending, rd, srvVars>>

\* It sends them one by one, in any order.
resend(x) ==
  /\ sup.pc = "resend" /\ x \in sup.todo
  /\ subSendMu.by # "sup"
  /\ sendSubscribe("sup", last, x)
  /\ sup' = [sup EXCEPT !.todo = @ \ {x}]
  /\ UNCHANGED <<conn, last, linkUp, closed, subs, sub, opening, ending, rd, srvVars>>

resendDone ==
  /\ sup.pc = "resend" /\ sup.todo = {} /\ subSendMu.by # "sup"
  /\ sup' = [sup EXCEPT !.pc = "up"]
  /\ UNCHANGED <<conn, last, linkUp, closed, table, subSendMu, sub, opening, ending, rd, srvVars>>

\* Client.shutdown, as far as subscriptions are concerned: the table is taken
\* and every subscription in it fails.
shutdown ==
  /\ ~closed
  /\ closed' = TRUE /\ conn' = NoConn /\ linkUp' = FALSE
  /\ subs' = {}
  /\ sub' = [x \in Subs |-> IF x \in subs THEN [sub[x] EXCEPT !.failing = TRUE] ELSE sub[x]]
  /\ srvSubs' = {} /\ kept' = {}
  /\ owed' = [x \in Subs |-> 0] /\ computed' = [x \in Subs |-> NoAnswer]
  /\ missed' = [x \in Subs |-> {}]
  /\ UNCHANGED <<last, subInFlight, subQueue, subSendMu, opening, ending, rd, sup, ver>>

-----------------------------------------------------------------------------
Next ==
  \/ writeSubscribe \/ endReturns \/ answered \/ errorFails \/ errorEnds
  \/ Break \/ markDisconnected \/ markConnected \/ resendDone \/ shutdown
  \/ \E x \in Subs :
       \/ Subscribe(x) \/ SubscribeSends(x)
       \/ endBegins(x) \/ endUnsubscribes(x) \/ endTakes(x) \/ endReleases(x)
       \/ ServerComputes(x) \/ deliverAnswer(x) \/ deliverRefresh(x)
       \/ deliverUndecodable(x) \/ refreshUndecodable(x)
       \/ errorAnswers(x) \/ errorRefresh(x)
       \/ patch(x) \/ patchFails(x) \/ connLost(x) \/ resend(x)

Spec == Init /\ [][Next]_vars

-----------------------------------------------------------------------------
(* Properties                                                              *)

Conns0 == 0..MaxConns

TypeOK ==
  /\ conn \in Conns0 /\ last \in Conns0 /\ linkUp \in BOOLEAN /\ closed \in BOOLEAN
  /\ subs \in SUBSET Subs
  /\ subInFlight \in 0..maxSubscribesInFlight
  /\ subQueue \in Seq(Subs)
  /\ subSendMu \in [by : {"nobody", "app", "ender", "reader", "sup"}, conn : Conns0,
                    todo : Seq(Subs)]
  /\ sub \in [Subs -> [closed : BOOLEAN, current : [conn : Conns0, has : SUBSET (1..MaxVersion)],
                       awaiting : Conns0, resend : BOOLEAN, failing : BOOLEAN]]
  /\ opening \in [Subs -> [pc : {"new", "send", "done"}, conn : Conns0]]
  /\ ending \in [Subs -> [pc : {"no", "lock", "take", "release", "done"}, aw : Conns0]]
  /\ rd.pc \in {"read", "answered", "ending", "failed", "fail"} /\ rd.aw \in Conns0
  /\ sup \in [pc : {"up", "lose", "resend", "down"}, todo : SUBSET Subs]
  /\ ver \in [Subs -> 0..MaxVersion]
  /\ srvSubs \in SUBSET Subs /\ kept \in SUBSET srvSubs
  /\ owed \in [Subs -> Nat]
  /\ computed \in [Subs -> 0..NoAnswer]
  /\ missed \in [Subs -> SUBSET (1..MaxVersion)]

\* Every slot of the current connection is held by exactly one subscription
\* whose awaiting is set, or by the one goroutine that is about to write its
\* frame or to release it, although answers, closes, re-sends and drops race
\* for it ("Exactly one caller gets a non-nil result, and that caller releases
\* the slot", subscription.go:25).  The slot may be released before the frame
\* it was taken for is answered, when that is one that was sent again: see
\* deliverRefresh.
SlotsAccounted ==
  conn # NoConn =>
    subInFlight =
      Cardinality({x \in Subs : sub[x].awaiting = conn})
      + Cardinality({x \in Subs : ending[x].pc = "release" /\ ending[x].aw = conn})
      + (IF rd.pc \in {"answered", "failed"} /\ rd.aw = conn THEN 1 ELSE 0)
      + (IF subSendMu.conn = conn THEN Len(subSendMu.todo) ELSE 0)

\* No subscription starves in the queue: while one waits there every slot is
\* taken, and each taken slot is released by SlotsAccounted's holder.
QueuedOnlyWhenFull ==
  subQueue # <<>> => subInFlight = maxSubscribesInFlight

\* An open subscription is never forgotten: on the current connection the server
\* has it, it is queued, or a goroutine is about to send it or to close it.
\* Subscribe, a reconnect and the queue hand it to one another ("exactly one
\* side sends each subscribe frame", client.go:581).
OpenIsKnownOrDue ==
  conn # NoConn /\ linkUp =>
    \A x \in subs :
      \/ x \in srvSubs \/ Queued(x)
      \/ opening[x].pc = "send" /\ opening[x].conn = conn
      \/ sup.pc = "resend" /\ x \in sup.todo
      \/ \E i \in 1..Len(subSendMu.todo) : subSendMu.todo[i] = x
      \/ sub[x].failing \/ sub[x].closed
      \/ rd.pc \in {"failed", "fail"} /\ rd.x = x

\* No frame is sent twice at a time: a subscription is queued at most once, and
\* not while its frame is on the way.
QueuedOnce ==
  \A x \in subs : Queued(x) =>
    /\ Cardinality({i \in 1..Len(subQueue) : subQueue[i] = x}) = 1
    /\ sub[x].awaiting # conn

\* "the server would keep a subscription the client has dropped"
\* (client.go:198): once end has sent unsubscribe, the server does not have the
\* subscription, and no goroutine will still subscribe it.
ClosedIsForgotten ==
  \A x \in Subs : ending[x].pc \in {"take", "release", "done"} =>
    /\ x \notin srvSubs
    /\ \A i \in 1..Len(subSendMu.todo) :
         subSendMu.todo[i] = x => subSendMu.conn # conn

\* "fetch the full result again rather than go stale" (client.go:957): a patch
\* that comes before there is a value of this connection to apply it to is not
\* lost, and it is not applied to a value of an older connection.  When nothing
\* is on its way, a patching subscription holds a value of this connection
\* with every such patch in it.  Only those patches: one that was applied to a
\* value may be overwritten by an older full result that is read after it.
MissedPatchRefetched ==
  conn # NoConn /\ linkUp /\ rd.pc = "read" =>
    \A x \in subs \cap Patching \cap srvSubs :
      \/ owed[x] > 0 \/ sub[x].closed \/ sub[x].failing
      \/ \E i \in 1..Len(subSendMu.todo) : subSendMu.todo[i] = x
      \/ sub[x].current.conn = conn /\ missed[x] \subseteq sub[x].current.has

\* The first frames of the open subscriptions keep to the limit: no more than
\* maxSubscribesInFlight of them wait for an answer at once, so that the burst
\* after a reconnect is not refused by the server.  Frames that were sent again
\* are not counted: the client may take a refresh's result for their answer, and
\* then sends the next frame while they are unanswered.
FirstFramesCapped ==
  Cardinality({x \in subs : owed[x] > 0 /\ x \notin kept}) <= maxSubscribesInFlight

\* No slot is leaked or given twice: every slot has one holder, nobody queues
\* while one is free, and the first frames keep to the limit; frames that were
\* sent again may exceed it.
SlotsSound ==
  /\ TypeOK
  /\ SlotsAccounted
  /\ QueuedOnlyWhenFull
  /\ FirstFramesCapped

\* Exactly one side sends each subscribe frame: an open subscription is known
\* to the server or due to be sent, and due only once.
EachSubscribeSent ==
  /\ OpenIsKnownOrDue
  /\ QueuedOnce
=============================================================================
