------------------------ MODULE SubscriptionManager ------------------------
(***************************************************************************)
(* The subscriptionManager of subscription.go: the two indexes that say    *)
(* which subscriptions a connection holds (byConn) and which of them a     *)
(* trigger key re-runs (byKey).  Every method runs under sm.mu and is one  *)
(* atomic action here; callers may interleave the actions in any order,    *)
(* which is what the handler goroutines of many connections do.            *)
(*                                                                         *)
(* A subscription is a heap object shared by the indexes and by the        *)
(* goroutines that refresh it, so it is modelled by a pointer (an element  *)
(* of Subs) and a heap, obj, that gives the pointer its fields.            *)
(***************************************************************************)
EXTENDS ConnTables, Integers, FiniteSets

CONSTANTS
    Keys,               \* trigger keys
    Params,             \* raw request parameters
    Subs,               \* addresses a subscription object may be given
    NoSub,              \* the nil *subscription
    MaxSubscriptions    \* ServerOptions.MaxSubscriptions, 0 for no cap

Subscription == [conn : Conns, id : Ids, keys : SUBSET Keys,
                 params : Params, wantsPatch : BOOLEAN]

ASSUME SubsAssumption == NoSub \notin Subs /\ NoSub \notin Subscription
ASSUME CapAssumption == MaxSubscriptions \in Nat

VARIABLES
    swept,      \* closeWithCause has returned from unregisterConn
    byConn,     \* byConn[c][i]: the subscription of connection c with ID i
    byKey,      \* byKey[k]: the subscriptions indexed under key k
    obj         \* the heap: the fields of each allocated subscription

subVars == <<closed, swept, byConn, byKey, obj>>

(* The type of the indexes, the heap and the two close flags. *)
SubTypeOK ==
    /\ closed \in [Conns -> BOOLEAN]
    /\ swept \in [Conns -> BOOLEAN]
    /\ byConn \in [Conns -> [Ids -> Subs \cup {NoSub}]]
    /\ byKey \in [Keys -> SUBSET Subs]
    /\ obj \in [Subs -> Subscription \cup {NoSub}]

SubInit ==
    /\ closed = [c \in Conns |-> FALSE]
    /\ swept = [c \in Conns |-> FALSE]
    /\ byConn = [c \in Conns |-> [i \in Ids |-> NoSub]]
    /\ byKey = [k \in Keys |-> {}]
    /\ obj = [s \in Subs |-> NoSub]

-----------------------------------------------------------------------------
(* Lookups: has, get and getSubscriptionsForKey under the read lock. *)

has(c, i) == byConn[c][i] # NoSub

get(c, i) == byConn[c][i]

getSubscriptionsForKey(k) == byKey[k]

(* The IDs a connection holds a subscription for: the keys of byConn[c]. *)
ActiveIds(c) == {i \in Ids : has(c, i)}

(* The per-connection cap of register: only an ID the connection does not *)
(* hold yet counts against it.                                            *)
AtCap(c, i) ==
    /\ MaxSubscriptions > 0
    /\ ~ has(c, i)
    /\ Cardinality(ActiveIds(c)) >= MaxSubscriptions

(* byKey with the entries of the objects S removed under their own keys. *)
Unindexed(S) ==
    [k \in Keys |-> byKey[k] \ {s \in S : k \in obj[s].keys}]

-----------------------------------------------------------------------------
(* register's three outcomes.  A new object overwrites whatever byConn held *)
(* for the ID; the overwritten object's byKey entries are left as they are. *)

RegisterOK(s, c, i, K, p, w) ==
    /\ obj[s] = NoSub
    /\ ~ closed[c]
    /\ ~ AtCap(c, i)
    /\ obj' = [obj EXCEPT ![s] = [conn |-> c, id |-> i, keys |-> K,
                                  params |-> p, wantsPatch |-> w]]
    /\ byConn' = [byConn EXCEPT ![c][i] = s]
    /\ byKey' = [k \in Keys |-> IF k \in K THEN byKey[k] \cup {s} ELSE byKey[k]]
    /\ UNCHANGED <<closed, swept>>

RegisterRefused(c) == closed[c] /\ UNCHANGED subVars

RegisterLimited(c, i) == ~ closed[c] /\ AtCap(c, i) /\ UNCHANGED subVars

(* Faulty: the object leaves byConn and stays indexed under its keys. *)
unregister_KeepsKeys(c, i) ==
    IF has(c, i)
    THEN byConn' = [byConn EXCEPT ![c][i] = NoSub] /\ UNCHANGED <<closed, swept, byKey, obj>>
    ELSE UNCHANGED subVars

(* unregister: a no-op when the connection holds no such subscription. *)
unregister(c, i) ==
    IF has(c, i)
    THEN /\ byKey' = Unindexed({byConn[c][i]})
         /\ byConn' = [byConn EXCEPT ![c][i] = NoSub]
         /\ UNCHANGED <<closed, swept, obj>>
    ELSE UNCHANGED subVars

(* unregisterConn, the sweep closeWithCause runs once the flag is set. *)
unregisterConn(c) ==
    /\ closed[c]
    /\ ~ swept[c]
    /\ byKey' = Unindexed({byConn[c][i] : i \in ActiveIds(c)})
    /\ byConn' = [byConn EXCEPT ![c] = [i \in Ids |-> NoSub]]
    /\ swept' = [swept EXCEPT ![c] = TRUE]
    /\ UNCHANGED <<closed, obj>>

(* Faulty: the old keys are dropped after the new ones are indexed. *)
updateKeys_DropsAfterAdding(c, i, K) ==
    IF has(c, i)
    THEN LET s == byConn[c][i] IN
         /\ obj' = [obj EXCEPT ![s].keys = K]
         /\ byKey' = [k \in Keys |-> IF k \in K \ obj[s].keys THEN byKey[k] \cup {s}
                                     ELSE Unindexed({s})[k]]
         /\ UNCHANGED <<closed, swept, byConn>>
    ELSE UNCHANGED subVars

(* updateKeys: the object leaves its old keys, gets the new set, and is *)
(* indexed under it.                                                    *)
updateKeys(c, i, K) ==
    IF has(c, i)
    THEN LET s == byConn[c][i] IN
         /\ obj' = [obj EXCEPT ![s].keys = K]
         /\ byKey' = [k \in Keys |-> IF k \in K THEN byKey[k] \cup {s}
                                                ELSE Unindexed({s})[k]]
         /\ UNCHANGED <<closed, swept, byConn>>
    ELSE UNCHANGED subVars

updateParams(c, i, p, w) ==
    IF has(c, i)
    THEN /\ obj' = [obj EXCEPT ![byConn[c][i]].params = p,
                               ![byConn[c][i]].wantsPatch = w]
         /\ UNCHANGED <<closed, swept, byConn, byKey>>
    ELSE UNCHANGED subVars

(* closeWithCause sets the flag under c.mu, before it sweeps. *)
SubMarkClosed(c) ==
    /\ ~ closed[c]
    /\ closed' = [closed EXCEPT ![c] = TRUE]
    /\ UNCHANGED <<swept, byConn, byKey, obj>>

-----------------------------------------------------------------------------
SubNext ==
    \E c \in Conns :
        \/ SubMarkClosed(c)
        \/ unregisterConn(c)
        \/ \E i \in Ids :
            \/ unregister(c, i)
            \/ RegisterLimited(c, i)
            \/ \E K \in SUBSET Keys : updateKeys(c, i, K)
            \/ \E p \in Params, w \in BOOLEAN :
                \/ updateParams(c, i, p, w)
                \/ \E s \in Subs, K \in SUBSET Keys : RegisterOK(s, c, i, K, p, w)
        \/ RegisterRefused(c)

SubSpec == SubInit /\ [][SubNext]_subVars

-----------------------------------------------------------------------------
(* byConn only points at an object allocated for that connection and ID. *)
ConnIndexOwned ==
    \A c \in Conns, i \in Ids :
        has(c, i) => /\ obj[byConn[c][i]] # NoSub
                     /\ obj[byConn[c][i]].conn = c
                     /\ obj[byConn[c][i]].id = i

(* Every trigger reaches every subscription: a subscription its connection *)
(* holds is indexed under each of its keys, whatever mix of registrations, *)
(* key updates and sweeps of other connections came before.                *)
KeyIndexComplete ==
    \A c \in Conns, i \in Ids : has(c, i) =>
        \A k \in obj[byConn[c][i]].keys : byConn[c][i] \in byKey[k]

(* No trigger re-runs a subscription that does not depend on its key: an *)
(* indexed object declares the key it is indexed under.                  *)
KeyIndexSound ==
    \A k \in Keys : \A s \in byKey[k] :
        obj[s] # NoSub /\ k \in obj[s].keys

(* A swept connection holds no subscription: once closeWithCause has swept *)
(* it, a subscribe handler still running cannot put one back (register's   *)
(* closed check under sm.mu).                                              *)
NothingOutlivesConn ==
    \A c \in Conns : swept[c] => closed[c] /\ ActiveIds(c) = {}

(* Concurrent subscribe handlers cannot race past MaxSubscriptions. *)
CapHolds ==
    MaxSubscriptions > 0 =>
        \A c \in Conns : Cardinality(ActiveIds(c)) <= MaxSubscriptions

(* What byConn holds, byKey finds, at every point of every interleaving of *)
(* subscribe handlers, key updates, unsubscribes and closes: a held        *)
(* subscription is indexed under exactly its keys, and a swept connection  *)
(* holds none.  byKey may hold more: an object that a second register of   *)
(* its ID overwrote keeps its entries, even past the sweep, and this says  *)
(* only that the object declares them.                                     *)
IndexesExact ==
    /\ SubTypeOK
    /\ ConnIndexOwned
    /\ KeyIndexComplete
    /\ KeyIndexSound
    /\ NothingOutlivesConn

(* byConn holds s for its connection and ID. *)
Held(s) == obj[s] # NoSub /\ byConn[obj[s].conn][obj[s].id] = s

Indexed(s) == \E k \in Keys : s \in byKey[k]

(* That overwrite is the only way byKey comes to hold what byConn does not.*)
(* An object that any other step takes out of byConn (an unsubscribe, the  *)
(* sweep of its connection) leaves every key with it, and an object whose  *)
(* entries come back or are added is one that byConn holds.                *)
IndexesMoveTogether ==
    [][\A s \in Subs :
        /\ (Held(s) /\ Indexed(s)') => (Held(s)' \/ has(obj[s].conn, obj[s].id)')
        /\ (\E k \in Keys : s \in byKey'[k] \ byKey[k]) => Held(s)'
      ]_subVars
=============================================================================
