---------------------------- MODULE RequestTable ----------------------------
(***************************************************************************)
(* Conn.requests (connection.go): the table through which a cancel frame,  *)
(* an unsubscribe or a close finds the context of a handler that is still  *)
(* running.  A run is one execution of a handler: a request or a subscribe *)
(* dispatched by the connection's read loop, or a server-driven refresh of *)
(* a subscription.  An entry is replaced when its ID is reused, and a run  *)
(* removes its entry when it unwinds, so the two race.                     *)
(*                                                                         *)
(* The critical sections under c.mu are atomic.  A cancel func is always   *)
(* called after the lock is released (closeWithCause excepted), so those   *)
(* calls are actions of their own: CancelOld and CancelFound.              *)
(***************************************************************************)
EXTENDS ConnTables, Integers

CONSTANTS
    Runs,       \* handler executions
    None        \* no run, no entry

(* inflight: cancel is the run whose context the cancel func ends. *)
Entry == [seq : Nat \ {0}, cancel : Runs, refresh : BOOLEAN,
          refreshAgain : BOOLEAN]

ASSUME NoneAssumption == None \notin Runs /\ None \notin Entry

VARIABLES
    requests,   \* requests[c][i]: the entry of connection c under ID i
    reqSeq,     \* reqSeq[c]: the last registration token handed out
    run,        \* run[r]: what run r registered as
    ctx,        \* ctx[r]: "live", or the cause run r's context ended with
    victim,     \* victim[r]: the run whose entry r replaced, until cancelled
    found       \* found[c]: what cancelRequest found, until cancelled

vars == <<closed, requests, reqSeq, run, ctx, victim, found>>

Causes == {"ErrClientCanceled", "ErrConnectionClosed", "returned"}

(* status: "new" before registration, "live" until the handler unwinds, *)
(* "gone" after.  seq is the token, 0 when registration was refused.    *)
RunState == [status : {"new", "live", "gone"}, conn : Conns \cup {None},
             id : Ids \cup {None}, seq : Nat, refresh : BOOLEAN]

(* The types of the table, the runs and the pending cancels. *)
TypeOK ==
    /\ closed \in [Conns -> BOOLEAN]
    /\ requests \in [Conns -> [Ids -> Entry \cup {None}]]
    /\ reqSeq \in [Conns -> Nat]
    /\ run \in [Runs -> RunState]
    /\ ctx \in [Runs -> {"live"} \cup Causes]
    /\ victim \in [Runs -> Runs \cup {None}]
    /\ found \in [Conns -> Runs \cup {None}]

Init ==
    /\ closed = [c \in Conns |-> FALSE]
    /\ requests = [c \in Conns |-> [i \in Ids |-> None]]
    /\ reqSeq = [c \in Conns |-> 0]
    /\ run = [r \in Runs |-> [status |-> "new", conn |-> None, id |-> None,
                              seq |-> 0, refresh |-> FALSE]]
    /\ ctx = [r \in Runs |-> "live"]
    /\ victim = [r \in Runs |-> None]
    /\ found = [c \in Conns |-> None]

-----------------------------------------------------------------------------
(* A context ends once: the first cause stays. *)
Cancelled(R, cause) ==
    [r \in Runs |-> IF r \in R /\ ctx[r] = "live" THEN cause ELSE ctx[r]]

(* The run that the entry of c under i can cancel, if there is an entry. *)
holder(c, i) == IF requests[c][i] = None THEN None ELSE requests[c][i].cancel

(* The part registerRequest and registerRefresh share: a fresh token, and *)
(* an entry that takes the place of whatever the ID held.                 *)
Store(c, i, r, refresh) ==
    /\ reqSeq' = [reqSeq EXCEPT ![c] = @ + 1]
    /\ requests' = [requests EXCEPT ![c][i] =
            [seq |-> reqSeq[c] + 1, cancel |-> r, refresh |-> refresh,
             refreshAgain |-> FALSE]]
    /\ run' = [run EXCEPT ![r] = [status |-> "live", conn |-> c, id |-> i,
                                  seq |-> reqSeq[c] + 1, refresh |-> refresh]]
    /\ victim' = [victim EXCEPT ![r] = holder(c, i)]
    /\ UNCHANGED <<closed, ctx, found>>

(* Faulty: a run that registers after the close is stored like any other. *)
registerRequest_IgnoresClosed(c, i, r) ==
    run[r].status = "new" /\ Store(c, i, r, FALSE)

(* registerRequest: on a closed connection the run still starts, with a *)
(* context that is already cancelled and the token 0.                   *)
registerRequest(c, i, r) ==
    /\ run[r].status = "new"
    /\ IF closed[c]
       THEN /\ run' = [run EXCEPT ![r] = [status |-> "live", conn |-> c,
                            id |-> i, seq |-> 0, refresh |-> FALSE]]
            /\ ctx' = Cancelled({r}, "ErrConnectionClosed")
            /\ UNCHANGED <<closed, requests, reqSeq, victim, found>>
       ELSE Store(c, i, r, FALSE)

(* Faulty: a refresh supersedes whatever holds the ID. *)
MustDefer_Never(c, i) == FALSE

(* The condition under which registerRefresh defers to the entry it finds. *)
MustDefer(c, i) ==
    ~ closed[c] /\ requests[c][i] # None /\ ~ requests[c][i].refresh

(* registerRefresh: refused on a closed connection, deferred to a client *)
(* request that holds the ID, and otherwise it supersedes a refresh.     *)
registerRefresh(c, i, r) ==
    /\ run[r].status = "new"
    /\ CASE closed[c] ->
              /\ run' = [run EXCEPT ![r].status = "gone", ![r].refresh = TRUE]
              /\ ctx' = Cancelled({r}, "ErrConnectionClosed")
              /\ UNCHANGED <<closed, requests, reqSeq, victim, found>>
         [] MustDefer(c, i) ->
              /\ requests' = [requests EXCEPT ![c][i].refreshAgain = TRUE]
              /\ run' = [run EXCEPT ![r].status = "gone", ![r].refresh = TRUE]
              /\ ctx' = Cancelled({r}, "returned")
              /\ UNCHANGED <<closed, reqSeq, victim, found>>
         [] OTHER -> Store(c, i, r, TRUE)

(* The end of both registrations: the replaced run's cancel is called. *)
CancelOld(r) ==
    /\ victim[r] # None
    /\ ctx' = Cancelled({victim[r]}, "ErrClientCanceled")
    /\ victim' = [victim EXCEPT ![r] = None]
    /\ UNCHANGED <<closed, requests, reqSeq, run, found>>

(* Faulty: the entry under the ID is taken for the run's own (#225). *)
Owns_AnyEntry(r) ==
    requests[run[r].conn][run[r].id] # None /\ run[r].seq # 0

(* Whether the entry of c under i is the one run r registered. *)
Owns(r) ==
    LET e == requests[run[r].conn][run[r].id] IN
    e # None /\ run[r].seq # 0 /\ e.seq = run[r].seq

(* The value unregisterRequest returns: a refresh was deferred to r. *)
refreshAgain(r) == Owns(r) /\ requests[run[r].conn][run[r].id].refreshAgain

(* unregisterRequest, with the cancel(nil) that follows it in each defer. *)
(* The handler starts after registration has returned, so its own pending *)
(* cancel of a replaced run is over.                                      *)
unregisterRequest(r) ==
    /\ run[r].status = "live"
    /\ victim[r] = None
    /\ requests' = IF Owns(r)
                   THEN [requests EXCEPT ![run[r].conn][run[r].id] = None]
                   ELSE requests
    /\ run' = [run EXCEPT ![r].status = "gone"]
    /\ ctx' = Cancelled({r}, "returned")
    /\ UNCHANGED <<closed, reqSeq, victim, found>>

(* cancelRequest, for a cancel or an unsubscribe frame: the lookup under *)
(* the lock, then the cancel of what was found.                          *)
FindRequest(c, i) ==
    /\ found[c] = None
    /\ found' = [found EXCEPT ![c] = holder(c, i)]
    /\ UNCHANGED <<closed, requests, reqSeq, run, ctx, victim>>

CancelFound(c) ==
    /\ found[c] # None
    /\ ctx' = Cancelled({found[c]}, "ErrClientCanceled")
    /\ found' = [found EXCEPT ![c] = None]
    /\ UNCHANGED <<closed, requests, reqSeq, run, victim>>

(* closeWithCause's critical section: the flag and every cancel. *)
MarkClosed(c) ==
    /\ ~ closed[c]
    /\ closed' = [closed EXCEPT ![c] = TRUE]
    /\ ctx' = Cancelled({holder(c, i) : i \in Ids}, "ErrConnectionClosed")
    /\ UNCHANGED <<requests, reqSeq, run, victim, found>>

-----------------------------------------------------------------------------
Next ==
    \/ \E c \in Conns, i \in Ids, r \in Runs :
          registerRequest(c, i, r) \/ registerRefresh(c, i, r)
    \/ \E r \in Runs : CancelOld(r) \/ unregisterRequest(r)
    \/ \E c \in Conns, i \in Ids : FindRequest(c, i)
    \/ \E c \in Conns : CancelFound(c) \/ MarkClosed(c)

Spec == Init /\ [][Next]_vars

-----------------------------------------------------------------------------
(* A run whose cancel is still owed to it by a registration that replaced *)
(* its entry.                                                              *)
CancelPending(r) == \E q \in Runs : victim[q] = r

(* Every entry is the live run's that registered it under this connection *)
(* and ID with this token.  A shadowed handler that unwinds late must not *)
(* delete its replacement's entry, nor leave its own behind (#225).       *)
EntriesOwned ==
    \A c \in Conns, i \in Ids : requests[c][i] # None =>
        LET e == requests[c][i] IN
        /\ run[e.cancel].status = "live"
        /\ run[e.cancel].conn = c
        /\ run[e.cancel].id = i
        /\ run[e.cancel].seq = e.seq
        /\ run[e.cancel].refresh = e.refresh

(* No handler becomes uncancelable: a live run whose context has not ended *)
(* is in the table under its own ID, or a pending cancel will end it.      *)
(* Reusing an ID, a late unwind or a deferred refresh cannot orphan one.   *)
NoUncancelableRun ==
    \A r \in Runs :
        run[r].status = "live" /\ ctx[r] = "live"
            => \/ holder(run[r].conn, run[r].id) = r
               \/ CancelPending(r)

(* After a close no handler keeps running with a live context, the ones  *)
(* registered while the close ran included: they would hold requestsWg   *)
(* and stall Server.Stop.                                                *)
ClosedRunsEnd ==
    \A r \in Runs :
        run[r].status = "live" /\ closed[run[r].conn]
            => ctx[r] # "live" \/ CancelPending(r)

(* A refresh never cancels a client's request or subscribe: a client would *)
(* get "request canceled" for a subscription it never cancelled.           *)
RefreshSparesRequests ==
    \A q \in Runs :
        run[q].refresh /\ victim[q] # None => run[victim[q]].refresh

(* The table tells the truth: an entry is the live run's that made it, and *)
(* every live run can be found and cancelled, whatever reuse of IDs, late  *)
(* unwinding and superseding refreshes did (registerRequest,               *)
(* unregisterRequest).                                                     *)
TableSound ==
    /\ TypeOK
    /\ EntriesOwned
    /\ NoUncancelableRun
=============================================================================
