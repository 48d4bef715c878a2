----------------------------- MODULE UserIndex -----------------------------
(***************************************************************************)
(* The user index, Server.userConns (server.go, connection.go): which      *)
(* connections PushToUser and DisconnectUser find for a user.  The user of *)
(* a connection is kept twice, in Conn.userID under c.mu and in userConns  *)
(* under s.mu, and the two locks never nest: SetUserID is three critical   *)
(* sections and disassociateUser two, with gaps between them.              *)
(***************************************************************************)
EXTENDS Connections, Integers, FiniteSets

CONSTANTS
    Users,      \* user IDs
    Nobody,       \* the empty user ID, and no connection
    Calls,      \* calls of SetUserID
    Pushes,     \* calls of PushToUser
    Evictions,  \* calls of DisconnectUser
    Overlapping \* connections on which calls of SetUserID may overlap each
                \* other and the teardown: handlers and middleware make
                \* them; on the others only the connect and auth hooks do,
                \* one after another on the read loop

ASSUME NobodyAssumption == Nobody \notin Users /\ Nobody \notin Conns
ASSUME OverlapAssumption == Overlapping \subseteq Conns

VARIABLES
    userID,     \* userID[c]: Conn.userID
    userConns,  \* Server.userConns, as pairs of a user and a connection
    down,       \* down[c]: where the teardown of c by run() is
    call,       \* call[t]: a call of SetUserID
    push,       \* push[p]: a call of PushToUser
    eviction,   \* eviction[e]: a call of DisconnectUser
    got,        \* got[p]: the connections push p was sent on
    steady      \* steady[p]: connections that were p's user's all along

userVars == <<userID, userConns, closed, down, call, push, eviction, got, steady>>

Call == [pc : {"idle", "drop", "associate", "done"}, conn : Conns \cup {Nobody},
         old : Users \cup {Nobody}, new : Users \cup {Nobody}]

FanOut == [pc : {"idle", "next", "act", "done"}, user : Users \cup {Nobody},
           conn : Conns \cup {Nobody}, todo : SUBSET Conns]

(* The types of the variables. *)
UserTypeOK ==
    /\ userID \in [Conns -> Users \cup {Nobody}]
    /\ userConns \subseteq Users \X Conns
    /\ closed \in [Conns -> BOOLEAN]
    /\ down \in [Conns -> [pc : {"up", "disassociate", "gone"},
                           user : Users \cup {Nobody}]]
    /\ call \in [Calls -> Call]
    /\ push \in [Pushes -> FanOut] /\ eviction \in [Evictions -> FanOut]
    /\ got \in [Pushes -> SUBSET Conns] /\ steady \in [Pushes -> SUBSET Conns]

IdleFanOut == [pc |-> "idle", user |-> Nobody, conn |-> Nobody, todo |-> {}]

UserInit ==
    /\ userID = [c \in Conns |-> Nobody]
    /\ userConns = {}
    /\ closed = [c \in Conns |-> FALSE]
    /\ down = [c \in Conns |-> [pc |-> "up", user |-> Nobody]]
    /\ call = [t \in Calls |-> [pc |-> "idle", conn |-> Nobody, old |-> Nobody,
                                new |-> Nobody]]
    /\ push = [p \in Pushes |-> IdleFanOut]
    /\ eviction = [e \in Evictions |-> IdleFanOut]
    /\ got = [p \in Pushes |-> {}] /\ steady = [p \in Pushes |-> {}]

-----------------------------------------------------------------------------
(* SetUserID. *)

Busy(c) == \E t \in Calls : call[t].conn = c /\ call[t].pc \in {"drop", "associate"}

(* The connections for which the two copies of the user should agree. *)
Settled(c) == ~ Busy(c) /\ down[c].pc = "up"

Unsteady(c) == steady' = [p \in Pushes |-> steady[p] \ {c}]

(* Under c.mu: the new user takes the place of the old.  A change of user  *)
(* goes on to drop the old association, and a user that is not empty to be *)
(* associated.                                                             *)
SetUserID(t, c, u) ==
    /\ call[t].pc = "idle"
    /\ c \in Overlapping \/ Settled(c)
    /\ call' = [call EXCEPT ![t] =
            [conn |-> c, old |-> userID[c], new |-> u,
             pc |-> CASE userID[c] \notin {Nobody, u} -> "drop"
                      [] userID[c] \in {Nobody, u} /\ u # Nobody -> "associate"
                      [] OTHER -> "done"]]
    /\ userID' = [userID EXCEPT ![c] = u]
    /\ IF u = userID[c] THEN UNCHANGED steady ELSE Unsteady(c)
    /\ UNCHANGED <<userConns, closed, down, push, eviction, got>>

(* Faulty: the whole entry of the old user goes, other connections too. *)
DropOld_WholeUser(t) ==
    /\ call[t].pc = "drop"
    /\ userConns' = {x \in userConns : x[1] # call[t].old}
    /\ call' = [call EXCEPT ![t].pc = IF call[t].new = Nobody THEN "done" ELSE "associate"]
    /\ UNCHANGED <<userID, closed, down, push, eviction, got, steady>>

(* Under s.mu: the connection leaves the old user, *)
DropOld(t) ==
    /\ call[t].pc = "drop"
    /\ userConns' = userConns \ {<<call[t].old, call[t].conn>>}
    /\ call' = [call EXCEPT ![t].pc = IF call[t].new = Nobody THEN "done" ELSE "associate"]
    /\ UNCHANGED <<userID, closed, down, push, eviction, got, steady>>

(* ... and, under s.mu again, joins the new one. *)
associateUser(t) ==
    /\ call[t].pc = "associate"
    /\ userConns' = userConns \cup {<<call[t].new, call[t].conn>>}
    /\ call' = [call EXCEPT ![t].pc = "done"]
    /\ UNCHANGED <<userID, closed, down, push, eviction, got, steady>>

-----------------------------------------------------------------------------
(* The teardown by run(), or by an accept path that refuses a connection. *)

(* disassociateUser reads the user under c.mu, *)
ReadUser(c) ==
    /\ down[c].pc = "up"
    /\ c \in Overlapping \/ ~ Busy(c)
    /\ down' = [down EXCEPT ![c] =
            [user |-> userID[c], pc |-> IF userID[c] = Nobody THEN "gone" ELSE "disassociate"]]
    /\ Unsteady(c)
    /\ UNCHANGED <<userID, userConns, closed, call, push, eviction, got>>

(* ... and drops the association under s.mu. *)
disassociateUser(c) ==
    /\ down[c].pc = "disassociate"
    /\ userConns' = userConns \ {<<down[c].user, c>>}
    /\ down' = [down EXCEPT ![c].pc = "gone"]
    /\ UNCHANGED <<userID, closed, call, push, eviction, got, steady>>

(* conn.close() at the end of the teardown. *)
Close(c) ==
    /\ down[c].pc = "gone" /\ ~ closed[c]
    /\ closed' = [closed EXCEPT ![c] = TRUE]
    /\ UNCHANGED <<userID, userConns, down, call, push, eviction, got, steady>>

-----------------------------------------------------------------------------
(* PushToUser and DisconnectUser. *)

ConnsOf(u) == {c \in Conns : <<u, c>> \in userConns}

(* The snapshot, under s.mu. *)
UserSnapshot(u) == [pc |-> "next", user |-> u, conn |-> Nobody, todo |-> ConnsOf(u)]

(* The next connection of the snapshot, if its user is still the one the *)
(* call is for; UserID takes c.mu and releases it.                       *)
Pick(f, c) == [f EXCEPT !.todo = @ \ {c},
                        !.conn = IF userID[c] = f.user THEN c ELSE Nobody,
                        !.pc = IF userID[c] = f.user THEN "act" ELSE "next"]

PushToUser(p, u) ==
    /\ push[p].pc = "idle"
    /\ push' = [push EXCEPT ![p] = UserSnapshot(u)]
    /\ steady' = [steady EXCEPT ![p] =
            {c \in Conns : Settled(c) /\ userID[c] = u /\ ~ closed[c]}]
    /\ UNCHANGED <<userID, userConns, closed, down, call, eviction, got>>

(* Faulty: a connection that has changed its user ends the whole push. *)
PushPick_StopsEarly(p) ==
    /\ push[p].pc = "next"
    /\ \/ \E c \in push[p].todo :
            push' = [push EXCEPT ![p] = IF userID[c] = push[p].user THEN Pick(@, c)
                                       ELSE [@ EXCEPT !.pc = "done"]]
       \/ push[p].todo = {} /\ push' = [push EXCEPT ![p].pc = "done"]
    /\ UNCHANGED <<userID, userConns, closed, down, call, eviction, got, steady>>

PushPick(p) ==
    /\ push[p].pc = "next"
    /\ \/ \E c \in push[p].todo : push' = [push EXCEPT ![p] = Pick(@, c)]
       \/ push[p].todo = {} /\ push' = [push EXCEPT ![p].pc = "done"]
    /\ UNCHANGED <<userID, userConns, closed, down, call, eviction, got, steady>>

(* conn.push; a closed connection drops it. *)
PushSend(p) ==
    /\ push[p].pc = "act"
    /\ LET c == push[p].conn
       IN got' = IF closed[c] THEN got ELSE [got EXCEPT ![p] = @ \cup {c}]
    /\ push' = [push EXCEPT ![p].pc = "next", ![p].conn = Nobody]
    /\ UNCHANGED <<userID, userConns, closed, down, call, eviction, steady>>

DisconnectUser(e, u) ==
    /\ eviction[e].pc = "idle"
    /\ eviction' = [eviction EXCEPT ![e] = UserSnapshot(u)]
    /\ UNCHANGED <<userID, userConns, closed, down, call, push, got, steady>>

EvictPick(e) ==
    /\ eviction[e].pc = "next"
    /\ \/ \E c \in eviction[e].todo : eviction' = [eviction EXCEPT ![e] = Pick(@, c)]
       \/ eviction[e].todo = {} /\ eviction' = [eviction EXCEPT ![e].pc = "done"]
    /\ UNCHANGED <<userID, userConns, closed, down, call, push, got, steady>>

(* closeWithCause; the read loop of a connection it closed ends and the *)
(* teardown follows in its own time.                                    *)
EvictClose(e) ==
    /\ eviction[e].pc = "act"
    /\ LET c == eviction[e].conn IN
       /\ closed' = [closed EXCEPT ![c] = TRUE]
       /\ Unsteady(c)
    /\ eviction' = [eviction EXCEPT ![e].pc = "next", ![e].conn = Nobody]
    /\ UNCHANGED <<userID, userConns, down, call, push, got>>

-----------------------------------------------------------------------------
Done ==
    /\ \A t \in Calls : call[t].pc \in {"idle", "done"}
    /\ \A p \in Pushes : push[p].pc = "done"
    /\ \A e \in Evictions : eviction[e].pc = "done"
    /\ \A c \in Conns : closed[c] /\ down[c].pc = "gone"

(* Every call that began has returned and every connection is gone. *)
Finished == Done /\ UNCHANGED userVars

UserNext ==
    \/ \E t \in Calls :
        \/ DropOld(t) \/ associateUser(t)
        \/ \E c \in Conns, u \in Users \cup {Nobody} : SetUserID(t, c, u)
    \/ \E c \in Conns : ReadUser(c) \/ disassociateUser(c) \/ Close(c)
    \/ \E p \in Pushes :
        PushPick(p) \/ PushSend(p) \/ \E u \in Users : PushToUser(p, u)
    \/ \E e \in Evictions :
        EvictPick(e) \/ EvictClose(e) \/ \E u \in Users : DisconnectUser(e, u)
    \/ Finished

UserSpec == UserInit /\ [][UserNext]_userVars

-----------------------------------------------------------------------------
(* Where calls of SetUserID do not overlap, the two copies of a connection's *)
(* user agree whenever no call is under way on it: the index holds it under  *)
(* its current user and under no other.                                      *)
IndexExact ==
    \A c \in Conns \ Overlapping : Settled(c) =>
        \A u \in Users : <<u, c>> \in userConns <=> userID[c] = u

(* A dead connection does not linger in userConns once it has been torn   *)
(* down, so that no later PushToUser blocks on its send buffer.           *)
DeadConnsLeave ==
    \A c \in Conns \ Overlapping : down[c].pc = "gone" =>
        \A u \in Users : <<u, c>> \notin userConns

(* A push reaches every connection that was the user's from the moment the *)
(* call began, whatever happened meanwhile to the user's other connections. *)
PushReachesUser ==
    \A p \in Pushes :
        push[p].pc = "done" => steady[p] \ Overlapping \subseteq got[p]

(* The index follows the connections: exact between calls, and empty of    *)
(* the dead (SetUserID, disassociateUser).                                 *)
IndexFollows ==
    /\ UserTypeOK
    /\ IndexExact
    /\ DeadConnsLeave
=============================================================================
