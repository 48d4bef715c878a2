------------------------- MODULE ConnDispatchProofs -------------------------
(***************************************************************************)
(* The handlers of the connections, for every number of connections, IDs,  *)
(* keys, runs and frames and every cap.  First the composition: each step  *)
(* is a step of the subscription indexes and a step of the request table,  *)
(* so the invariants proved of those two modules hold here, and the proofs *)
(* below start from them.  Then what the handlers themselves promise: slots *)
(* are given back, a subscribe is answered, a trigger that found a          *)
(* subscription is delivered, and a refresh never ends a client's call.     *)
(*                                                                         *)
(* The last two promises are about quiescent states only, so they are not  *)
(* inductive.  What is: as long as an answer (AnswerDue) or a result       *)
(* (TriggerDue) is missing, some run is on its way with it.                *)
(***************************************************************************)
EXTENDS ConnDispatch, FiniteSetTheorems, TLAPS

CT == INSTANCE ConnTablesProofs WITH Subs <- Runs, NoSub <- None

ClientKinds == {"request", "subscribe"}

(* The steps at which a run is registered in the request table, before, *)
(* and after.                                                           *)
ClientLive == {"starting", "handler", "check", "has", "updateKeys",
               "updateParams", "register", "respond", "flush", "unwind"}
ClientGone == {"deferred", "finish", "done"}
RefreshNew == {"start", "registerRefresh"}
RefreshLive == {"cancelOld", "handler", "check", "updateKeys", "respond", "unwind"}

FrameType == [type : {"none", "error", "response"}, ver : 0..MaxVersion,
              params : Params \cup {None}]

(* The types of what has been sent and of what is wanted. *)
OutTypeOK ==
    /\ wire \in [Conns -> [Ids -> FrameType]]
    /\ best \in [Conns -> [Ids -> 0..MaxVersion]]
    /\ failed \in [Conns -> [Ids -> BOOLEAN]]
    /\ wanted \in [Conns -> [Ids -> BOOLEAN]]

(* The table knows r under the connection and ID it executes for. *)
Home(r, refresh) ==
    /\ run[r].conn = exec[r].conn /\ run[r].id = exec[r].id
    /\ run[r].refresh = refresh

IdleRun(r) == exec[r].pc = "idle" => exec[r] = Idle /\ run[r].status = "new"

ClientRun(r) ==
    exec[r].kind \in ClientKinds /\ exec[r].pc # "idle" =>
        /\ exec[r].conn \in Conns
        /\ exec[r].kind = "subscribe" => exec[r].id \in SubIds
        /\ exec[r].kind = "request" => exec[r].id \in ReqIds
        /\ exec[r].pc \in ClientLive \cup ClientGone
        /\ Home(r, FALSE)
        /\ exec[r].pc \in ClientLive => run[r].status = "live"
        /\ exec[r].pc \in ClientGone => run[r].status = "gone"
        /\ exec[r].kind = "subscribe" =>
              exec[r].params \in Params /\ exec[r].rq = {} /\ exec[r].pc # "flush"
        /\ exec[r].kind = "request" =>
              /\ exec[r].keys = {}
              /\ exec[r].pc \notin {"has", "updateKeys", "updateParams", "register"}
        /\ exec[r].pc = "flush" => exec[r].then \in {"check", "unwind"}

RefreshRun(r) ==
    exec[r].kind = "refresh" =>
        /\ exec[r].conn \in Conns /\ exec[r].id \in SubIds
        /\ exec[r].sub \in Runs /\ obj[exec[r].sub] # None
        /\ exec[r].pc \in RefreshNew \cup RefreshLive \cup {"done"}
        /\ exec[r].pc \in RefreshNew => run[r].status = "new"
        /\ exec[r].pc \in RefreshLive => run[r].status = "live" /\ Home(r, TRUE)
        /\ run[r].status # "new" => run[r].refresh = TRUE
        /\ exec[r].rq = {}

BackgroundRun(r) ==
    exec[r].kind = "background" =>
        /\ exec[r].pc \in {"flush", "done"} /\ exec[r].then = "done"
        /\ run[r].status = "new"

(* Where a run can be, by its kind, and what the request table knows of it. *)
RunOK(r) ==
    /\ IdleRun(r) /\ ClientRun(r) /\ RefreshRun(r) /\ BackgroundRun(r)
    /\ exec[r].toRefresh # {} => exec[r].pc = "flush"
    /\ \A s \in exec[r].toRefresh : obj[s] # None

RunsOK == \A r \in Runs : RunOK(r)

(* What a read loop is in the middle of: the registration of a run it has *)
(* not started, or the cancel of a run of this connection.                *)
ReaderOK(c) ==
    /\ reader[c].step = "idle" => reader[c] = ReaderIdle
    /\ reader[c].step = "cancelOld" =>
         /\ reader[c].run \in Runs
         /\ exec[reader[c].run].pc = "starting" /\ exec[reader[c].run].conn = c
    /\ reader[c].step \in {"cancel", "cancelThenDrop"} <=> found[c] # None
    /\ found[c] # None => run[found[c]].conn = c /\ run[found[c]].id = reader[c].id
    /\ reader[c].step = "cancel" => reader[c].id \in ReqIds
    /\ reader[c].step \in {"cancelThenDrop", "drop"} =>
         reader[c].id \in SubIds /\ ~ wanted[c][reader[c].id]

ReadersOK == \A c \in Conns : ReaderOK(c)

(* Only subscribes register subscriptions. *)
ObjHome == \A s \in Runs : obj[s] # None => obj[s].id \in SubIds

(* Nobody knows a version that has not been committed, and a subscription *)
(* that does not exist is owed nothing.                                   *)
OwedKnown ==
    \A s \in Runs : /\ owed[s] <= db /\ exec[s].ver <= db
                    /\ obj[s] = None => owed[s] = 0

(* r will answer the subscribe of c under i: it is past its last look at *)
(* its context, or its context is live and only a frame can end it.      *)
Answering(r, c, i) ==
    /\ exec[r].kind = "subscribe" /\ exec[r].conn = c /\ exec[r].id = i
    /\ exec[r].pc \in ClientLive \ {"unwind", "flush"}
    /\ exec[r].pc \in {"starting", "handler", "check"} =>
          ctx[r] = "live" /\ CT!holder(c, i) = r

(* A subscribe that is wanted and has no answer has a run that will answer. *)
AnswerDue ==
    \A c \in Conns, i \in SubIds :
        wanted[c][i] /\ ~ closed[c] /\ wire[c][i].type = "none"
            => \E r \in Runs : Answering(r, c, i)

(* r will run a refresh of i, or will send a result of version v or later. *)
Carrying(r, c, i, v) ==
    /\ exec[r].kind \in {"subscribe", "refresh"}
    /\ exec[r].conn = c /\ exec[r].id = i
    /\ \/ exec[r].pc \in {"start", "registerRefresh", "deferred"}
       \/ /\ exec[r].pc \in {"starting", "cancelOld", "handler"}
          /\ ctx[r] = "live" /\ CT!holder(c, i) = r
       \/ /\ exec[r].pc = "check" /\ ctx[r] = "live" /\ CT!holder(c, i) = r
          /\ exec[r].err \/ exec[r].ver >= v
       \/ /\ exec[r].pc \in {"has", "updateKeys", "updateParams", "register", "respond"}
          /\ exec[r].ver >= v

(* A refresh of i was deferred to r. *)
DeferredTo(r, c, i) == CT!holder(c, i) = r /\ requests[c][i].refreshAgain

(* The client of c has unsubscribed i, and the read loop is about to drop it. *)
Leaving(c, i) == reader[c].step \in {"cancelThenDrop", "drop"} /\ reader[c].id = i

Due(c, i) ==
    /\ byConn[c][i] # None /\ ~ closed[c] /\ ~ failed[c][i] /\ ~ Leaving(c, i)
    /\ best[c][i] < owed[byConn[c][i]]

(* Whoever is going to send what is due. *)
Delivers(r, c, i) ==
    \/ byConn[c][i] \in exec[r].toRefresh
    \/ Carrying(r, c, i, owed[byConn[c][i]])
    \/ DeferredTo(r, c, i)

(* A subscription that is owed a result has a run that delivers it. *)
TriggerDue ==
    \A c \in Conns, i \in SubIds : Due(c, i) => \E r \in Runs : Delivers(r, c, i)

(* What the two components guarantee. *)
ComponentsInv == CT!IndexInv /\ CT!TableInv /\ CT!ReplacedInv

ExecInv == TypeOK /\ OutTypeOK /\ RunsOK /\ ReadersOK /\ ObjHome /\ OwedKnown

DispatchInv ==
    /\ ComponentsInv /\ ExecInv
    /\ SlotsMatchRuns /\ AnswerDue /\ TriggerDue

-----------------------------------------------------------------------------
(* The components as their proof modules know them. *)

(* AtCap counts the same set in both instances of the manager. *)
LEMMA SameAtCap ==
    ASSUME NEW c, NEW i PROVE SM!AtCap(c, i) = CT!AtCap(c, i)
BY DEF SM!AtCap, CT!AtCap, SM!ActiveIds, CT!ActiveIds, SM!has, CT!has,
       SM!Cardinality, CT!Cardinality, SM!IsFiniteSet, CT!IsFiniteSet

(* Each operation of the manager is the operation its proofs are about. *)
LEMMA SameIndexStep == [SM!SubNext]_smVars => [CT!SubNext]_(CT!subVars)
<1>1. \A c : SM!SubMarkClosed(c) => CT!SubMarkClosed(c)
  BY DEF SM!SubMarkClosed, CT!SubMarkClosed
<1>2. \A c : SM!unregisterConn(c) => CT!unregisterConn(c)
  BY DEF SM!unregisterConn, CT!unregisterConn, SM!Unindexed, CT!Unindexed,
         SM!ActiveIds, CT!ActiveIds, SM!has, CT!has
<1>3. \A c, i : SM!unregister(c, i) => CT!unregister(c, i)
  BY DEF SM!unregister, CT!unregister, SM!Unindexed, CT!Unindexed, SM!has, CT!has,
         SM!subVars, CT!subVars
<1>4. \A c, i : SM!RegisterLimited(c, i) => CT!RegisterLimited(c, i)
  BY SameAtCap DEF SM!RegisterLimited, CT!RegisterLimited, SM!subVars, CT!subVars
<1>5. \A c, i, K : SM!updateKeys(c, i, K) => CT!updateKeys(c, i, K)
  BY DEF SM!updateKeys, CT!updateKeys, SM!Unindexed, CT!Unindexed, SM!has, CT!has,
         SM!subVars, CT!subVars
<1>6. \A c, i, p, w : SM!updateParams(c, i, p, w) => CT!updateParams(c, i, p, w)
  BY DEF SM!updateParams, CT!updateParams, SM!has, CT!has, SM!subVars, CT!subVars
<1>7. \A s, c, i, K, p, w :
         SM!RegisterOK(s, c, i, K, p, w) => CT!RegisterOK(s, c, i, K, p, w)
  BY SameAtCap DEF SM!RegisterOK, CT!RegisterOK
<1>8. \A c : SM!RegisterRefused(c) => CT!RegisterRefused(c)
  BY DEF SM!RegisterRefused, CT!RegisterRefused, SM!subVars, CT!subVars
<1>9. SM!SubNext => CT!SubNext
  BY <1>1, <1>2, <1>3, <1>4, <1>5, <1>6, <1>7, <1>8 DEF SM!SubNext, CT!SubNext
<1> QED
  BY <1>9 DEF smVars, CT!subVars

(* Each operation of the table is the operation its proofs are about. *)
LEMMA SameTableOps ==
    /\ \A c, i, r : RT!registerRequest(c, i, r) => CT!registerRequest(c, i, r)
    /\ \A c, i, r : RT!registerRefresh(c, i, r) => CT!registerRefresh(c, i, r)
    /\ \A r : RT!unregisterRequest(r) => CT!unregisterRequest(r)
    /\ \A r : RT!refreshAgain(r) = CT!refreshAgain(r)
<1>1. \A c, i, r : RT!registerRequest(c, i, r) => CT!registerRequest(c, i, r)
  BY DEF RT!registerRequest, CT!registerRequest, RT!Store, CT!Store, RT!Cancelled,
         CT!Cancelled, RT!holder, CT!holder
<1>2. \A c, i, r : RT!registerRefresh(c, i, r) => CT!registerRefresh(c, i, r)
  BY DEF RT!registerRefresh, CT!registerRefresh, RT!Store, CT!Store, RT!Cancelled,
         CT!Cancelled, RT!holder, CT!holder, RT!MustDefer, CT!MustDefer
<1>3. \A r : RT!unregisterRequest(r) => CT!unregisterRequest(r)
  BY DEF RT!unregisterRequest, CT!unregisterRequest, RT!Cancelled, CT!Cancelled,
         RT!Owns, CT!Owns
<1>4. \A r : RT!refreshAgain(r) = CT!refreshAgain(r)
  BY DEF RT!refreshAgain, CT!refreshAgain, RT!Owns, CT!Owns
<1> QED
  BY <1>1, <1>2, <1>3, <1>4

(* A step of the table is a step of the table its proofs are about. *)
LEMMA SameTableStep == [RT!Next]_rtVars => [CT!Next]_(CT!vars)
BY DEF rtVars, CT!vars, RT!Next, CT!Next, RT!registerRequest, CT!registerRequest,
       RT!registerRefresh, CT!registerRefresh, RT!CancelOld, CT!CancelOld,
       RT!unregisterRequest, CT!unregisterRequest, RT!FindRequest, CT!FindRequest,
       RT!CancelFound, CT!CancelFound, RT!MarkClosed, CT!MarkClosed,
       RT!Store, CT!Store, RT!Cancelled, CT!Cancelled, RT!Owns, CT!Owns,
       RT!holder, CT!holder, RT!MustDefer, CT!MustDefer

(* The assumptions of the component modules hold of this instance. *)
LEMMA InstanceAssumptions ==
    /\ None \notin Runs /\ None \notin CT!Subscription
    /\ CT!NoneAssumption /\ CT!SubsAssumption /\ CT!CapAssumption
<1>1. SM!Subscription = CT!Subscription
  BY DEF SM!Subscription, CT!Subscription
<1>2. RT!Entry = CT!Entry
  BY DEF RT!Entry, CT!Entry
<1> QED
  BY <1>1, <1>2, NoneAssumption, BoundsAssumption
     DEF CT!NoneAssumption, CT!SubsAssumption, CT!CapAssumption

(* What is proved of the components is preserved by steps that are steps *)
(* of both.                                                              *)
LEMMA ComponentsKept ==
    ASSUME ComponentsInv, [SM!SubNext]_smVars, [RT!Next]_rtVars
    PROVE  ComponentsInv'
<1>1. CT!IndexInv'
  BY SameIndexStep, InstanceAssumptions, CT!NextIndexInv DEF ComponentsInv
<1>2. CT!TableInv'
  BY SameTableStep, InstanceAssumptions, CT!NextTableInv DEF ComponentsInv
<1>3. CT!ReplacedInv'
  BY SameTableStep, InstanceAssumptions, CT!NextReplacedInv DEF ComponentsInv
<1> QED
  BY <1>1, <1>2, <1>3 DEF ComponentsInv

-----------------------------------------------------------------------------
(* What the components' invariants say of the variables. *)

(* The indexes lead to allocated subscriptions, filed where they belong. *)
LEMMA IndexFacts ==
    ASSUME ComponentsInv
    PROVE  /\ closed \in [Conns -> BOOLEAN] /\ swept \in [Conns -> BOOLEAN]
           /\ byConn \in [Conns -> [Ids -> Runs \cup {None}]]
           /\ byKey \in [Keys -> SUBSET Runs]
           /\ obj \in [Runs -> SM!Subscription \cup {None}]
           /\ \A c \in Conns, i \in Ids : byConn[c][i] # None =>
                 /\ byConn[c][i] \in Runs /\ obj[byConn[c][i]] # None
                 /\ obj[byConn[c][i]].conn = c /\ obj[byConn[c][i]].id = i
           /\ \A k \in Keys : \A s \in byKey[k] : s \in Runs /\ obj[s] # None
           /\ \A c \in Conns : swept[c] =>
                 closed[c] /\ \A i \in Ids : byConn[c][i] = None
<1>1. /\ CT!SubTypeOK /\ CT!ConnIndexOwned /\ CT!KeyIndexSound
      /\ CT!NothingOutlivesConn
  BY DEF ComponentsInv, CT!IndexInv
<1>2. SM!Subscription = CT!Subscription
  BY DEF SM!Subscription, CT!Subscription
<1>3. \A c \in Conns : swept[c] => closed[c] /\ \A i \in Ids : byConn[c][i] = None
  BY <1>1 DEF CT!NothingOutlivesConn, CT!ActiveIds, CT!has
<1>4. \A c \in Conns, i \in Ids : byConn[c][i] # None =>
         /\ byConn[c][i] \in Runs /\ obj[byConn[c][i]] # None
         /\ obj[byConn[c][i]].conn = c /\ obj[byConn[c][i]].id = i
  BY <1>1 DEF CT!SubTypeOK, CT!ConnIndexOwned, CT!has
<1>5. \A k \in Keys : \A s \in byKey[k] : s \in Runs /\ obj[s] # None
  BY <1>1 DEF CT!SubTypeOK, CT!KeyIndexSound
<1> QED
  BY <1>1, <1>2, <1>3, <1>4, <1>5 DEF CT!SubTypeOK

(* Entries lead to live runs; runs that were replaced have none. *)
LEMMA TableFacts ==
    ASSUME ComponentsInv
    PROVE  /\ ctx \in [Runs -> {"live"} \cup RT!Causes]
           /\ victim \in [Runs -> Runs \cup {None}]
           /\ found \in [Conns -> Runs \cup {None}]
           /\ requests \in [Conns -> [Ids -> RT!Entry \cup {None}]]
           /\ run \in [Runs -> RT!RunState]
           /\ \A r \in Runs : run[r].status = "new" => ctx[r] = "live"
           /\ \A c \in Conns, i \in Ids : CT!holder(c, i) # None =>
                 /\ CT!holder(c, i) \in Runs
                 /\ run[CT!holder(c, i)].status = "live"
                 /\ run[CT!holder(c, i)].conn = c /\ run[CT!holder(c, i)].id = i
                 /\ run[CT!holder(c, i)].refresh = requests[c][i].refresh
           /\ \A q \in Runs : victim[q] # None =>
                 /\ victim[q] \in Runs
                 /\ run[q].status # "new" /\ run[victim[q]].status # "new"
                 /\ run[victim[q]].conn = run[q].conn
                 /\ run[victim[q]].id = run[q].id
                 /\ \A c \in Conns, i \in Ids : CT!holder(c, i) # victim[q]
                 /\ run[q].refresh => run[victim[q]].refresh
           /\ \A c \in Conns : found[c] # None =>
                 found[c] \in Runs /\ run[found[c]].status # "new"
<1>1. CT!TypeOK
  BY DEF ComponentsInv, CT!TableInv
<1>2. RT!Entry = CT!Entry /\ RT!Causes = CT!Causes /\ RT!RunState = CT!RunState
  BY DEF RT!Entry, CT!Entry, RT!Causes, CT!Causes, RT!RunState, CT!RunState
<1>3. \A c \in Conns, i \in Ids : CT!holder(c, i) # None =>
         /\ CT!holder(c, i) \in Runs
         /\ run[CT!holder(c, i)].status = "live"
         /\ run[CT!holder(c, i)].conn = c /\ run[CT!holder(c, i)].id = i
         /\ run[CT!holder(c, i)].refresh = requests[c][i].refresh
  BY CT!HolderFacts, InstanceAssumptions DEF ComponentsInv
<1>4. \A r \in Runs : run[r].status = "new" => ctx[r] = "live"
  BY DEF ComponentsInv, CT!ReplacedInv, CT!NewLive
<1>5. ASSUME NEW q \in Runs, victim[q] # None
      PROVE  /\ victim[q] \in Runs
             /\ run[q].status # "new" /\ run[victim[q]].status # "new"
             /\ run[victim[q]].conn = run[q].conn
             /\ run[victim[q]].id = run[q].id
             /\ \A c \in Conns, i \in Ids : CT!holder(c, i) # victim[q]
             /\ run[q].refresh => run[victim[q]].refresh
  <2>1. victim[q] \in Runs /\ run[q].status # "new" /\ run[victim[q]].status # "new"
    BY <1>1, <1>5 DEF CT!TypeOK, ComponentsInv, CT!TableInv, CT!VictimsStarted
  <2>2. /\ run[victim[q]].conn = run[q].conn /\ run[victim[q]].id = run[q].id
        /\ \A c \in Conns, i \in Ids : CT!holder(c, i) # victim[q]
    BY <1>5 DEF ComponentsInv, CT!ReplacedInv, CT!VictimsReplaced
  <2>3. run[q].refresh => run[victim[q]].refresh
    BY <1>5 DEF ComponentsInv, CT!TableInv, CT!RefreshSparesRequests
  <2> QED
    BY <2>1, <2>2, <2>3
<1>6. \A c \in Conns : found[c] # None =>
         found[c] \in Runs /\ run[found[c]].status # "new"
  BY <1>1 DEF CT!TypeOK, ComponentsInv, CT!ReplacedInv, CT!FoundStarted
<1> QED
  BY <1>1, <1>2, <1>3, <1>4, <1>5, <1>6 DEF CT!TypeOK

(* Which runs can be at a step, and that they know where they belong. *)
LEMMA KindAt ==
    ASSUME TypeOK, RunsOK, NEW r \in Runs
    PROVE  /\ exec[r].pc \in {"has", "updateParams", "register"} =>
                 exec[r].kind = "subscribe" /\ exec[r].params \in Params
           /\ exec[r].pc = "updateKeys" => exec[r].kind \in {"subscribe", "refresh"}
           /\ exec[r].pc \in RefreshNew \cup {"cancelOld"} => exec[r].kind = "refresh"
           /\ exec[r].pc \in {"starting", "deferred", "finish"} => exec[r].kind \in ClientKinds
           /\ exec[r].pc = "flush" => exec[r].kind \in {"request", "background"}
           /\ exec[r].pc \notin {"idle", "done", "flush"} =>
                 exec[r].conn \in Conns /\ exec[r].id \in Ids
                 /\ exec[r].kind # "background"
<1>1. exec[r].kind \in Kinds /\ exec[r].pc \in Steps
  BY DEF TypeOK, Exec
<1>2. RunOK(r)
  BY DEF RunsOK
<1>3. CASE exec[r].kind \in ClientKinds
  BY <1>1, <1>2, <1>3 DEF RunOK, ClientRun, ClientKinds, ClientLive, ClientGone,
                          RefreshNew, Ids
<1>4. CASE exec[r].kind = "refresh"
  BY <1>1, <1>2, <1>4 DEF RunOK, RefreshRun, RefreshNew, RefreshLive, Ids
<1>5. CASE exec[r].kind = "background"
  BY <1>1, <1>2, <1>5 DEF RunOK, BackgroundRun, RefreshNew
<1> QED
  BY <1>1, <1>3, <1>4, <1>5 DEF Kinds, ClientKinds

-----------------------------------------------------------------------------
(* The composition: every step is a step of each component. *)

(* Every step changes the indexes by an operation of the manager, if at all. *)
LEMMA IndexStep ==
    ASSUME ComponentsInv, ExecInv, [Next]_vars
    PROVE  [SM!SubNext]_smVars
<1>0. TypeOK /\ RunsOK /\ ReadersOK
  BY DEF ExecInv
<1>1. ASSUME NEW c \in Conns, handleUnsubscribe(c) PROVE SM!SubNext
  <2>1. reader[c].id \in Ids
    BY <1>0, <1>1 DEF handleUnsubscribe, ReadersOK, ReaderOK, Ids
  <2> QED
    BY <1>1, <2>1 DEF handleUnsubscribe, SM!SubNext
<1>2. ASSUME NEW r \in Runs, UpdateKeys(r) PROVE SM!SubNext
  <2>1. exec[r].conn \in Conns /\ exec[r].id \in Ids /\ exec[r].keys \in SUBSET Keys
    BY <1>0, <1>2, KindAt DEF UpdateKeys, At, TypeOK, Exec
  <2> QED
    BY <1>2, <2>1 DEF UpdateKeys, SM!SubNext
<1>3. ASSUME NEW r \in Runs, UpdateParams(r) PROVE SM!SubNext
  <2>1. exec[r].conn \in Conns /\ exec[r].id \in Ids /\ exec[r].params \in Params
    BY <1>0, <1>3, KindAt DEF UpdateParams, At
  <2> QED
    BY <1>3, <2>1 DEF UpdateParams, SM!SubNext
<1>4. ASSUME NEW r \in Runs, Register(r) PROVE SM!SubNext
  <2>1. /\ exec[r].conn \in Conns /\ exec[r].id \in Ids /\ exec[r].params \in Params
        /\ exec[r].keys \in SUBSET Keys
    BY <1>0, <1>4, KindAt DEF Register, At, TypeOK, Exec
  <2> QED
    BY <1>4, <2>1 DEF Register, SM!SubNext
<1>5. ASSUME NEW c \in Conns, closeWithCause(c) \/ Sweep(c) PROVE SM!SubNext
  BY <1>5 DEF closeWithCause, Sweep, SM!SubNext
<1>6. ASSUME UNCHANGED smVars PROVE [SM!SubNext]_smVars
  BY <1>6
<1>7. ASSUME NEW c \in Conns,
             \/ DispatchCancelOld(c) \/ CancelFoundRun(c)
             \/ \E i \in SubIds, p \in Params, r \in Runs : Dispatch(c, i, "subscribe", p, r)
             \/ \E i \in ReqIds, r \in Runs : Dispatch(c, i, "request", None, r)
             \/ \E i \in SubIds : CancelFrame(c, i, "unsubscribe") \/ RejectFrame(c, i, "subscribe")
             \/ \E i \in ReqIds : CancelFrame(c, i, "cancel") \/ RejectFrame(c, i, "request")
      PROVE  UNCHANGED smVars
  BY <1>7 DEF DispatchCancelOld, CancelFoundRun, Dispatch, CancelFrame, RejectFrame
<1>8. ASSUME NEW r \in Runs,
             \/ Mutate(r) \/ Lookup(r) \/ Query(r) \/ HandlerFails(r)
             \/ ReturnCancelled(r) \/ ReturnError(r) \/ ReturnOK(r)
             \/ HasSubscription(r) \/ Respond(r) \/ FlushKey(r) \/ FlushNothing(r)
             \/ Unwind(r) \/ Finish(r)
             \/ RefreshStart(r) \/ RegisterRefresh(r) \/ RefreshCancelOld(r)
             \/ BackgroundMutation(r)
             \/ \E q \in Runs : Spawn(r, q) \/ runDeferredRefresh(r, q)
      PROVE  UNCHANGED smVars
  BY <1>8 DEF Mutate, Lookup, Query, HandlerFails, ReturnCancelled, ReturnError,
              ReturnOK, HasSubscription, Respond, FlushKey, FlushNothing, Unwind,
              Finish, RefreshStart, RegisterRefresh, RefreshCancelOld,
              BackgroundMutation, Spawn, runDeferredRefresh
<1>9. Stopped \/ UNCHANGED vars => UNCHANGED smVars
  BY DEF Stopped, vars, smVars
<1> QED
  BY <1>1, <1>2, <1>3, <1>4, <1>5, <1>6, <1>7, <1>8, <1>9 DEF Next

(* Every step changes the table by one of its operations, if at all. *)
LEMMA TableStep ==
    ASSUME ComponentsInv, ExecInv, [Next]_vars
    PROVE  [RT!Next]_rtVars
<1>0. TypeOK /\ RunsOK /\ ReadersOK
  BY DEF ExecInv
<1>1. ASSUME NEW c \in Conns, DispatchCancelOld(c) PROVE RT!Next
  <2>1. reader[c].run \in Runs
    BY <1>0, <1>1 DEF DispatchCancelOld, ReadersOK, ReaderOK
  <2> QED
    BY <1>1, <2>1 DEF DispatchCancelOld, RT!Next
<1>2. ASSUME NEW c \in Conns, NEW i \in Ids, NEW r \in Runs, NEW t, NEW p,
             Dispatch(c, i, t, p, r)
      PROVE  RT!Next
  BY <1>2 DEF Dispatch, RT!Next
<1>3. ASSUME NEW c \in Conns, NEW i \in Ids, NEW t, CancelFrame(c, i, t) PROVE RT!Next
  BY <1>3 DEF CancelFrame, RT!Next
<1>4. ASSUME NEW c \in Conns, CancelFoundRun(c) \/ closeWithCause(c) PROVE RT!Next
  BY <1>4 DEF CancelFoundRun, closeWithCause, RT!Next
<1>5. ASSUME NEW r \in Runs, Unwind(r) \/ RefreshCancelOld(r) PROVE RT!Next
  BY <1>5 DEF Unwind, RefreshCancelOld, RT!Next
<1>6. ASSUME NEW r \in Runs, RegisterRefresh(r) PROVE RT!Next
  <2>1. exec[r].conn \in Conns /\ exec[r].id \in Ids
    BY <1>0, <1>6, KindAt DEF RegisterRefresh, At
  <2> QED
    BY <1>6, <2>1 DEF RegisterRefresh, RT!Next
<1>7. ASSUME NEW c \in Conns,
             \/ handleUnsubscribe(c) \/ Sweep(c)
             \/ \E i \in Ids : \E t : RejectFrame(c, i, t)
      PROVE  UNCHANGED rtVars
  BY <1>7 DEF handleUnsubscribe, Sweep, RejectFrame
<1>8. ASSUME NEW r \in Runs,
             \/ Mutate(r) \/ Lookup(r) \/ Query(r) \/ HandlerFails(r)
             \/ ReturnCancelled(r) \/ ReturnError(r) \/ ReturnOK(r)
             \/ HasSubscription(r) \/ UpdateKeys(r) \/ UpdateParams(r)
             \/ Register(r) \/ Respond(r) \/ FlushKey(r) \/ FlushNothing(r)
             \/ Finish(r) \/ RefreshStart(r) \/ BackgroundMutation(r)
             \/ \E q \in Runs : Spawn(r, q) \/ runDeferredRefresh(r, q)
      PROVE  UNCHANGED rtVars
  BY <1>8 DEF Mutate, Lookup, Query, HandlerFails, ReturnCancelled, ReturnError,
              ReturnOK, HasSubscription, UpdateKeys, UpdateParams, Register, Respond,
              FlushKey, FlushNothing, Finish, RefreshStart, BackgroundMutation,
              Spawn, runDeferredRefresh
<1>9. Stopped \/ UNCHANGED vars => UNCHANGED rtVars
  BY DEF Stopped, vars, rtVars
<1>10. SubIds \subseteq Ids /\ ReqIds \subseteq Ids
  BY DEF Ids
<1> QED
  BY <1>1, <1>2, <1>3, <1>4, <1>5, <1>6, <1>7, <1>8, <1>9, <1>10 DEF Next

-----------------------------------------------------------------------------
(* Frames: what a step leaves alone. *)

(* Allocated subscriptions stay allocated, under the ID they were made for. *)
LEMMA ObjKept ==
    ASSUME ComponentsInv, [SM!SubNext]_smVars, NEW s \in Runs, obj[s] # None
    PROVE  obj'[s] # None /\ obj'[s].id = obj[s].id
<1>1. obj[s] \in SM!Subscription
  BY IndexFacts
<1>2. \/ obj'[s] = obj[s]
      \/ \E K \in SUBSET Keys : obj'[s] = [obj[s] EXCEPT !.keys = K]
      \/ \E p \in Params, w \in BOOLEAN :
            obj'[s] = [obj[s] EXCEPT !.params = p, !.wantsPatch = w]
  <2>1. CASE UNCHANGED smVars
    BY <2>1 DEF smVars
  <2>2. ASSUME NEW c \in Conns, SM!SubMarkClosed(c) \/ SM!unregisterConn(c) \/ SM!RegisterRefused(c)
        PROVE  obj' = obj
    BY <2>2 DEF SM!SubMarkClosed, SM!unregisterConn, SM!RegisterRefused, SM!subVars
  <2>3. ASSUME NEW c \in Conns, NEW i \in Ids, SM!unregister(c, i) \/ SM!RegisterLimited(c, i)
        PROVE  obj' = obj
    BY <2>3 DEF SM!unregister, SM!RegisterLimited, SM!subVars
  <2>4. ASSUME NEW c \in Conns, NEW i \in Ids, NEW K \in SUBSET Keys, SM!updateKeys(c, i, K)
        PROVE  obj'[s] = obj[s] \/ obj'[s] = [obj[s] EXCEPT !.keys = K]
    BY <2>4, IndexFacts DEF SM!updateKeys, SM!subVars
  <2>5. ASSUME NEW c \in Conns, NEW i \in Ids, NEW p \in Params, NEW w \in BOOLEAN,
               NEW t \in Runs, NEW K \in SUBSET Keys, SM!RegisterOK(t, c, i, K, p, w)
        PROVE  obj'[s] = obj[s]
    BY <2>5, IndexFacts DEF SM!RegisterOK
  <2>6. CASE SM!SubNext
    <3>1. PICK c \in Conns :
             \/ SM!SubMarkClosed(c) \/ SM!unregisterConn(c) \/ SM!RegisterRefused(c)
             \/ \E i \in Ids : SM!unregister(c, i) \/ SM!RegisterLimited(c, i)
             \/ \E i \in Ids, K \in SUBSET Keys : SM!updateKeys(c, i, K)
             \/ \E i \in Ids, p \in Params, w \in BOOLEAN : SM!updateParams(c, i, p, w)
             \/ \E i \in Ids, p \in Params, w \in BOOLEAN, t \in Runs, K \in SUBSET Keys :
                   SM!RegisterOK(t, c, i, K, p, w)
      BY <2>6 DEF SM!SubNext
    <3>2. CASE SM!SubMarkClosed(c) \/ SM!unregisterConn(c) \/ SM!RegisterRefused(c)
      BY <2>2, <3>2
    <3>3. CASE \E i \in Ids : SM!unregister(c, i) \/ SM!RegisterLimited(c, i)
      BY <2>3, <3>3
    <3>4. CASE \E i \in Ids, K \in SUBSET Keys : SM!updateKeys(c, i, K)
      BY <2>4, <3>4
    <3>5. CASE \E i \in Ids, p \in Params, w \in BOOLEAN : SM!updateParams(c, i, p, w)
      <4>1. PICK i \in Ids, p \in Params, w \in BOOLEAN : SM!updateParams(c, i, p, w)
        BY <3>5
      <4> DEFINE t == byConn[c][i]
      <4>2. CASE ~ SM!has(c, i)
        BY <4>1, <4>2 DEF SM!updateParams, SM!subVars
      <4>3. CASE SM!has(c, i)
        <5>1. /\ t \in Runs /\ obj \in [Runs -> SM!Subscription \cup {None}]
              /\ obj[t] \in SM!Subscription
          BY <4>3, IndexFacts DEF SM!has
        <5>2. obj' = [obj EXCEPT ![t].params = p, ![t].wantsPatch = w]
          BY <4>1, <4>3 DEF SM!updateParams
        <5>3. obj'[t] = [obj[t] EXCEPT !.params = p, !.wantsPatch = w]
              /\ \A u \in Runs : u # t => obj'[u] = obj[u]
          BY <5>1, <5>2
        <5> QED
          BY <5>3
      <4> QED
        BY <4>2, <4>3
    <3>6. CASE \E i \in Ids, p \in Params, w \in BOOLEAN, t \in Runs, K \in SUBSET Keys :
                 SM!RegisterOK(t, c, i, K, p, w)
      BY ZenonT(60), <2>5, <3>6
    <3> QED
      BY <3>1, <3>2, <3>3, <3>4, <3>5, <3>6
  <2> QED
    BY <2>1, <2>6
<1>3. obj'[s] \in SM!Subscription /\ obj'[s].id = obj[s].id
  BY <1>1, <1>2 DEF SM!Subscription
<1> QED
  BY <1>3, NoneAssumption

(* Only run r executes. *)
Elsewhere(r) ==
    exec' \in [Runs -> Exec] /\ \A q \in Runs : q # r => exec'[q] = exec[q]

(* The fields that say what a run is. *)
SameSelf(r) ==
    /\ exec'[r].kind = exec[r].kind /\ exec'[r].conn = exec[r].conn
    /\ exec'[r].id = exec[r].id

(* Every field but pc stays. *)
OnlyMoves(r, step) ==
    /\ SameSelf(r) /\ exec'[r].pc = step
    /\ exec'[r].then = exec[r].then /\ exec'[r].params = exec[r].params
    /\ exec'[r].sub = exec[r].sub /\ exec'[r].ver = exec[r].ver
    /\ exec'[r].keys = exec[r].keys /\ exec'[r].err = exec[r].err
    /\ exec'[r].rq = exec[r].rq /\ exec'[r].toRefresh = exec[r].toRefresh

(* GoTo moves the program counter of its run and nothing else. *)
LEMMA GoToMoves ==
    ASSUME TypeOK, NEW r \in Runs, NEW step \in Steps, GoTo(r, step)
    PROVE  Elsewhere(r) /\ OnlyMoves(r, step)
<1>1. exec' = [exec EXCEPT ![r] = [exec[r] EXCEPT !.pc = step]]
  BY DEF GoTo
<1>2. exec[r] \in Exec
  BY DEF TypeOK
<1>3. [exec[r] EXCEPT !.pc = step] \in Exec
  BY <1>2 DEF Exec
<1>4. Elsewhere(r) /\ exec'[r] = [exec[r] EXCEPT !.pc = step]
  BY <1>1, <1>3 DEF TypeOK, Elsewhere
<1> QED
  BY <1>2, <1>4 DEF OnlyMoves, SameSelf, Exec

(* A run that does not move and whose registration does not change is *)
(* where it may be.                                                   *)
LEMMA RunKept ==
    ASSUME TypeOK, ComponentsInv, [SM!SubNext]_smVars, NEW q \in Runs, RunOK(q),
           exec'[q] = exec[q], run'[q] = run[q]
    PROVE  RunOK(q)'
<1>1. exec[q].toRefresh \subseteq Runs
  BY DEF TypeOK, Exec
<1>2. /\ exec[q].sub \in Runs /\ obj[exec[q].sub] # None => obj'[exec[q].sub] # None
      /\ \A s \in exec[q].toRefresh : obj[s] # None => obj'[s] # None
  BY <1>1, ObjKept
<1> QED
  BY <1>2 DEF RunOK, IdleRun, ClientRun, RefreshRun, BackgroundRun, Home

(* The requests and subscribes that hold a slot. *)
Holds(r) == exec[r].kind \in ClientKinds /\ exec[r].pc \notin {"idle", "done"}

(* The slots are right as long as the same runs hold one. *)
LEMMA SlotsKept ==
    ASSUME SlotsMatchRuns, UNCHANGED slotVars,
           \A r \in Runs : Holds(r)' <=> Holds(r),
           \A r \in Runs : Holds(r) => exec'[r].conn = exec[r].conn
    PROVE  SlotsMatchRuns'
<1> DEFINE Holding(C) == {r \in Runs : /\ exec[r].kind \in {"request", "subscribe"}
                                       /\ exec[r].conn \in C
                                       /\ exec[r].pc \notin {"idle", "done"}}
<1>1. \A C : Holding(C)' = Holding(C)
  BY DEF Holds, ClientKinds
<1> QED
  BY <1>1 DEF SlotsMatchRuns, slotVars

(* A read loop's business stays as it was while runs execute. *)
LEMMA ReadersKept ==
    ASSUME ComponentsInv, ReadersOK, UNCHANGED <<reader, found, wanted>>,
           \A q \in Runs : exec[q].pc = "starting" => exec'[q] = exec[q],
           \A q \in Runs : run[q].status # "new" =>
               run'[q].conn = run[q].conn /\ run'[q].id = run[q].id
    PROVE  ReadersOK'
<1>1. \A c \in Conns : found[c] # None => found[c] \in Runs /\ run[found[c]].status # "new"
  BY TableFacts
<1> QED
  BY <1>1 DEF ReadersOK, ReaderOK, ReaderIdle

(* An answer is due to nobody new, and who was answering still is. *)
LEMMA AnswerKept ==
    ASSUME AnswerDue,
           \A c \in Conns, i \in SubIds :
              wanted'[c][i] /\ ~ closed'[c] /\ wire'[c][i].type = "none"
              => /\ wanted[c][i] /\ ~ closed[c] /\ wire[c][i].type = "none"
                 /\ \A q \in Runs : Answering(q, c, i) => Answering(q, c, i)'
    PROVE  AnswerDue'
BY DEF AnswerDue

(* A result is due to nobody new, and somebody still delivers it. *)
LEMMA TriggerKept ==
    ASSUME TriggerDue,
           \A c \in Conns, i \in SubIds : Due(c, i)' =>
              /\ Due(c, i)
              /\ \A q \in Runs : Delivers(q, c, i) => \E t \in Runs : Delivers(t, c, i)'
    PROVE  TriggerDue'
BY DEF TriggerDue

-----------------------------------------------------------------------------
(* What is sent. *)

(* Nothing sent is taken back. *)
SentKept ==
    \A d \in Conns, j \in Ids :
        /\ wire'[d][j].type = "none" => wire[d][j].type = "none"
        /\ best[d][j] <= best'[d][j]
        /\ failed[d][j] => failed'[d][j]

OutTypes ==
    /\ wire \in [Conns -> [Ids -> FrameType]]
    /\ best \in [Conns -> [Ids -> 0..MaxVersion]]
    /\ failed \in [Conns -> [Ids -> BOOLEAN]]

(* An error frame is an answer and a failure, unless the connection closed. *)
LEMMA ErrorSent ==
    ASSUME OutTypeOK, NEW c \in Conns, NEW i \in Ids, SendError(c, i)
    PROVE  /\ OutTypes' /\ SentKept
           /\ ~ closed[c] => wire'[c][i].type # "none" /\ failed'[c][i]
<1>1. [NoFrame EXCEPT !.type = "error"] = [type |-> "error", ver |-> 0, params |-> None]
  BY DEF NoFrame
<1>2. [type |-> "error", ver |-> 0, params |-> None] \in FrameType
  BY BoundsAssumption DEF FrameType
<1>3. CASE closed[c]
  BY <1>3, BoundsAssumption DEF SendError, outVars, OutTypeOK, OutTypes, SentKept
<1>4. CASE ~ closed[c]
  <2> DEFINE f == [type |-> "error", ver |-> 0, params |-> None]
  <2>1. /\ wire' = [wire EXCEPT ![c][i] = f]
        /\ failed' = [failed EXCEPT ![c][i] = TRUE] /\ best' = best
    BY <1>1, <1>4 DEF SendError
  <2>2. f \in FrameType /\ f.type = "error"
    BY <1>2
  <2> HIDE DEF f
  <2>3. OutTypes'
    BY <2>1, <2>2 DEF OutTypeOK, OutTypes
  <2>4. \A d \in Conns, j \in Ids :
           /\ wire'[d][j] = (IF d = c /\ j = i THEN f ELSE wire[d][j])
           /\ d # c \/ j # i => failed'[d][j] = failed[d][j]
           /\ best'[d][j] = best[d][j] /\ best[d][j] \in 0..MaxVersion
    BY <2>1 DEF OutTypeOK
  <2>5. failed'[c][i] = TRUE
    BY <2>1 DEF OutTypeOK
  <2>6. SentKept
    BY <2>2, <2>4, <2>5, BoundsAssumption DEF SentKept
  <2> QED
    BY <2>2, <2>3, <2>4, <2>5, <2>6
<1> QED
  BY <1>3, <1>4

(* A response is an answer with its version, unless the connection closed. *)
LEMMA ResponseSent ==
    ASSUME OutTypeOK, NEW c \in Conns, NEW i \in Ids, NEW p \in Params \cup {None},
           NEW v \in 0..MaxVersion, SendResponse(c, i, p, v)
    PROVE  /\ OutTypes' /\ SentKept
           /\ ~ closed[c] => wire'[c][i].type # "none" /\ best'[c][i] >= v
<1>1. CASE closed[c]
  BY <1>1, BoundsAssumption DEF SendResponse, outVars, OutTypeOK, OutTypes, SentKept
<1>2. CASE ~ closed[c]
  <2> DEFINE f == [type |-> "response", ver |-> v, params |-> p]
             b == IF v > best[c][i] THEN v ELSE best[c][i]
  <2>1. /\ wire' = [wire EXCEPT ![c][i] = f]
        /\ best' = [best EXCEPT ![c][i] = b] /\ failed' = failed
    BY <1>2 DEF SendResponse
  <2>2. f \in FrameType /\ f.type = "response"
    BY DEF FrameType
  <2>3. b \in 0..MaxVersion /\ b >= v /\ best[c][i] <= b
    BY BoundsAssumption DEF OutTypeOK
  <2> HIDE DEF f, b
  <2>4. OutTypes'
    BY <2>1, <2>2, <2>3 DEF OutTypeOK, OutTypes
  <2>5. \A d \in Conns, j \in Ids :
           /\ wire'[d][j] = (IF d = c /\ j = i THEN f ELSE wire[d][j])
           /\ best'[d][j] = (IF d = c /\ j = i THEN b ELSE best[d][j])
           /\ failed'[d][j] = failed[d][j] /\ best[d][j] \in 0..MaxVersion
    BY <2>1 DEF OutTypeOK
  <2> QED
    BY <2>2, <2>3, <2>4, <2>5, BoundsAssumption DEF SentKept
<1> QED
  BY <1>1, <1>2

-----------------------------------------------------------------------------
(* Steps of one run. *)

(* Run r, which is executing, takes a step that is not its last one as a *)
(* request or subscribe.                                                 *)
Moves(r) ==
    /\ Elsewhere(r) /\ SameSelf(r)
    /\ exec[r].pc \notin {"idle", "starting", "done"} /\ exec'[r].pc # "idle"
    /\ exec[r].kind \in ClientKinds => exec'[r].pc # "done"
    /\ UNCHANGED <<reader, slotVars, wanted, found, closed>>
    /\ \A q \in Runs : q # r => run'[q] = run[q]
    /\ run[r].status # "new" => run'[r].conn = run[r].conn /\ run'[r].id = run[r].id

(* What is left to show of a step of one run. *)
LEMMA MovesInv ==
    ASSUME DispatchInv, [Next]_vars, NEW r \in Runs, Moves(r), RunOK(r)', OutTypes',
           ObjHome', OwedKnown', AnswerDue', TriggerDue',
           db' \in 0..MaxVersion, owed' \in [Runs -> 0..MaxVersion]
    PROVE  DispatchInv'
<1>0. ComponentsInv /\ ExecInv /\ TypeOK /\ OutTypeOK /\ RunsOK /\ ReadersOK /\ SlotsMatchRuns
  BY DEF DispatchInv, ExecInv
<1>1. [SM!SubNext]_smVars /\ [RT!Next]_rtVars
  BY <1>0, IndexStep, TableStep
<1>2. ComponentsInv'
  BY <1>0, <1>1, ComponentsKept
<1>3. RunsOK'
  BY <1>0, <1>1, RunKept DEF RunsOK, Moves, Elsewhere
<1>4. ReadersOK'
  <2>1. \A q \in Runs : exec[q].pc = "starting" => exec'[q] = exec[q]
    BY DEF Moves, Elsewhere
  <2>2. \A q \in Runs : run[q].status # "new" =>
           run'[q].conn = run[q].conn /\ run'[q].id = run[q].id
    BY DEF Moves
  <2>3. UNCHANGED <<reader, found, wanted>>
    BY DEF Moves
  <2> QED
    BY <1>0, <2>1, <2>2, <2>3, ReadersKept
<1>5. SlotsMatchRuns'
  <2>1. \A q \in Runs : Holds(q)' <=> Holds(q)
    BY DEF Holds, Moves, Elsewhere, SameSelf
  <2>2. \A q \in Runs : exec'[q].conn = exec[q].conn
    BY DEF Moves, Elsewhere, SameSelf
  <2> QED
    BY <1>0, <2>1, <2>2, SlotsKept DEF Moves
<1>6. TypeOK'
  BY <1>0 DEF TypeOK, Moves, Elsewhere, slotVars
<1>7. OutTypeOK'
  BY <1>0 DEF OutTypeOK, OutTypes, Moves
<1> QED
  BY <1>2, <1>3, <1>4, <1>5, <1>6, <1>7 DEF DispatchInv, ExecInv

(* Run r answers, or goes on to answer. *)
KeepsAnswering(r) ==
    \A c \in Conns, i \in SubIds :
        Answering(r, c, i) /\ ~ closed[c] /\ wire'[c][i].type = "none" => Answering(r, c, i)'

(* Run r delivers, or goes on to deliver, or leaves it to another. *)
KeepsDelivering(r) ==
    \A c \in Conns, i \in SubIds :
        Due(c, i) /\ Due(c, i)' /\ Delivers(r, c, i) => \E t \in Runs : Delivers(t, c, i)'

(* A step of one run that leaves the table and the subscriptions alone may *)
(* send, and must not forget what it had to send.                          *)
LEMMA LocalInv ==
    ASSUME DispatchInv, [Next]_vars, NEW r \in Runs, Moves(r), RunOK(r)',
           UNCHANGED <<smVars, rtVars, owed>>, OutTypes', SentKept,
           db' \in 0..MaxVersion, db <= db', exec'[r].ver <= db',
           KeepsAnswering(r), KeepsDelivering(r)
    PROVE  DispatchInv'
<1>0. ComponentsInv /\ ExecInv /\ TypeOK /\ OutTypeOK /\ RunsOK /\ AnswerDue /\ TriggerDue
      /\ ObjHome /\ OwedKnown
  BY DEF DispatchInv, ExecInv
<1>1. /\ closed' = closed /\ byConn' = byConn /\ obj' = obj /\ requests' = requests
      /\ ctx' = ctx /\ run' = run /\ reader' = reader /\ wanted' = wanted /\ owed' = owed
  BY DEF Moves, smVars, rtVars
<1>2. \A c, i : CT!holder(c, i)' = CT!holder(c, i)
  BY <1>1 DEF CT!holder
<1>3. \A q \in Runs : q # r => exec'[q] = exec[q]
  BY DEF Moves, Elsewhere
<1>4. SubIds \subseteq Ids
  BY DEF Ids
<1>5. ASSUME NEW q \in Runs, q # r, NEW c \in Conns, NEW i \in SubIds
      PROVE  /\ Answering(q, c, i) => Answering(q, c, i)'
             /\ Delivers(q, c, i) => Delivers(q, c, i)'
  <2>1. exec'[q] = exec[q]
    BY <1>3, <1>5
  <2>2. Answering(q, c, i) => Answering(q, c, i)'
    BY <1>1, <1>2, <2>1 DEF Answering
  <2>3. Delivers(q, c, i) => Delivers(q, c, i)'
    BY <1>1, <1>2, <2>1 DEF Delivers, Carrying, DeferredTo
  <2> QED
    BY <2>2, <2>3
<1>6. AnswerDue'
  <2>1. \A c \in Conns, i \in SubIds :
           wanted'[c][i] /\ ~ closed'[c] /\ wire'[c][i].type = "none"
           => /\ wanted[c][i] /\ ~ closed[c] /\ wire[c][i].type = "none"
              /\ \A q \in Runs : Answering(q, c, i) => Answering(q, c, i)'
    BY <1>1, <1>4, <1>5 DEF SentKept, KeepsAnswering
  <2> QED
    BY <1>0, <2>1, AnswerKept
<1>7. TriggerDue'
  <2> SUFFICES ASSUME NEW c \in Conns, NEW i \in SubIds, Due(c, i)'
               PROVE  /\ Due(c, i)
                      /\ \A q \in Runs : Delivers(q, c, i) => \E t \in Runs : Delivers(t, c, i)'
    BY <1>0, TriggerKept
  <2>1. /\ best[c][i] \in 0..MaxVersion /\ best'[c][i] \in 0..MaxVersion
        /\ best[c][i] <= best'[c][i] /\ (failed[c][i] => failed'[c][i])
    BY <1>0, <1>4 DEF OutTypeOK, OutTypes, SentKept
  <2>2. /\ byConn[c][i] # None /\ ~ closed[c] /\ ~ failed'[c][i] /\ ~ Leaving(c, i)
        /\ best'[c][i] < owed[byConn[c][i]]
    BY <1>1 DEF Due, Leaving
  <2>3. owed[byConn[c][i]] \in 0..MaxVersion
    BY <1>0, <1>4, <2>2, IndexFacts DEF TypeOK
  <2>4. Due(c, i)
    BY <2>1, <2>2, <2>3, BoundsAssumption DEF Due
  <2> QED
    BY <1>5, <2>4 DEF KeepsDelivering
<1>8. OwedKnown'
  <2>1. \A s \in Runs : /\ owed[s] \in 0..MaxVersion /\ exec[s].ver \in 0..MaxVersion
                        /\ owed[s] <= db /\ exec[s].ver <= db
                        /\ (obj[s] = None => owed[s] = 0)
    BY <1>0 DEF TypeOK, Exec, OwedKnown
  <2>2. db \in 0..MaxVersion
    BY <1>0 DEF TypeOK
  <2>3. \A s \in Runs : s # r => exec'[s].ver <= db'
    BY <1>3, <2>1, <2>2, BoundsAssumption
  <2>4. \A s \in Runs : owed'[s] <= db' /\ (obj'[s] = None => owed'[s] = 0)
    BY <1>1, <2>1, <2>2, BoundsAssumption
  <2> QED
    BY <2>3, <2>4 DEF OwedKnown
<1>9. ObjHome' /\ owed' \in [Runs -> 0..MaxVersion]
  BY <1>0, <1>1 DEF ObjHome, TypeOK
<1> QED
  BY <1>6, <1>7, <1>8, <1>9, MovesInv

-----------------------------------------------------------------------------
(* The steps of handleRequest, runSubscribe and refreshSubscription that    *)
(* touch neither the table nor the indexes.                                 *)

(* A run may be at the step it goes to. *)
LEMMA MovedRunOK ==
    ASSUME TypeOK, NEW r \in Runs, NEW step \in Steps, RunOK(r), OnlyMoves(r, step),
           run' = run, \A s \in Runs : obj[s] # None => obj'[s] # None,
           exec[r].pc \notin {"idle", "starting", "done"}, step # "idle",
           exec[r].toRefresh = {} \/ step = "flush",
           exec[r].kind \in ClientKinds =>
              /\ exec[r].pc \in ClientLive <=> step \in ClientLive
              /\ step \in ClientLive \cup ClientGone
              /\ step = "flush" => exec[r].pc = "flush"
              /\ exec[r].kind = "request" => step \notin {"has", "updateKeys", "updateParams", "register"},
           exec[r].kind = "refresh" =>
              \/ exec[r].pc \in RefreshNew /\ step \in RefreshNew \cup {"done"}
              \/ exec[r].pc \in RefreshLive /\ step \in RefreshLive,
           exec[r].kind = "background" => step \in {"flush", "done"}
    PROVE  RunOK(r)'
<1>1. IdleRun(r)' /\ BackgroundRun(r)'
  BY DEF IdleRun, BackgroundRun, RunOK, OnlyMoves, SameSelf
<1>2. ClientRun(r)'
  BY DEF ClientRun, RunOK, OnlyMoves, SameSelf, Home, ClientLive, ClientGone
<1>3. RefreshRun(r)'
  BY DEF RefreshRun, RunOK, OnlyMoves, SameSelf, Home, RefreshLive, RefreshNew
<1>4. exec[r].toRefresh \subseteq Runs
  BY DEF TypeOK, Exec
<1> QED
  BY <1>1, <1>2, <1>3, <1>4 DEF RunOK, OnlyMoves

(* A step that only moves its run, and may send. *)
LEMMA GoToInv ==
    ASSUME DispatchInv, [Next]_vars, NEW r \in Runs, NEW step \in Steps, GoTo(r, step),
           UNCHANGED <<smVars, rtVars, reader, slotVars, db, owed, wanted>>,
           OutTypes', SentKept, RunOK(r)',
           exec[r].pc \notin {"idle", "starting", "done"}, step # "idle",
           exec[r].kind \in ClientKinds => step # "done",
           KeepsAnswering(r), KeepsDelivering(r)
    PROVE  DispatchInv'
<1>0. TypeOK /\ OwedKnown
  BY DEF DispatchInv, ExecInv
<1>1. Elsewhere(r) /\ OnlyMoves(r, step)
  BY <1>0, GoToMoves
<1>2. Moves(r)
  BY <1>1 DEF Moves, OnlyMoves, SameSelf, rtVars
<1>3. /\ db' \in 0..MaxVersion /\ db <= db' /\ exec'[r].ver <= db'
  BY <1>0, <1>1, BoundsAssumption DEF TypeOK, OwedKnown, OnlyMoves
<1> QED
  BY <1>2, <1>3, LocalInv

(* Nothing is sent. *)
LEMMA NothingSent ==
    ASSUME OutTypeOK, UNCHANGED outVars
    PROVE  OutTypes' /\ SentKept
BY BoundsAssumption DEF OutTypeOK, OutTypes, SentKept, outVars

(* Looking things up: Lookup, ReturnOK, HasSubscription, RefreshStart. *)
LEMMA MovingInv ==
    ASSUME DispatchInv, [Next]_vars, NEW r \in Runs,
           Lookup(r) \/ ReturnOK(r) \/ HasSubscription(r) \/ RefreshStart(r)
    PROVE  DispatchInv'
<1>0. ComponentsInv /\ TypeOK /\ OutTypeOK /\ RunsOK /\ RunOK(r) /\ exec[r] \in Exec
  BY DEF DispatchInv, ExecInv, RunsOK, TypeOK
<1>1. /\ UNCHANGED <<smVars, rtVars, reader, slotVars, db, owed, wanted>>
      /\ OutTypes' /\ SentKept
  <2>1. UNCHANGED <<smVars, rtVars, reader, slotVars, db, outVars, owed, wanted>>
    BY DEF Lookup, ReturnOK, HasSubscription, RefreshStart
  <2> QED
    BY <1>0, <2>1, NothingSent
<1>2. /\ run' = run /\ obj' = obj /\ ctx' = ctx /\ requests' = requests /\ byConn' = byConn
      /\ owed' = owed /\ reader' = reader
      /\ \A c, i : CT!holder(c, i)' = CT!holder(c, i)
  BY <1>1 DEF smVars, rtVars, CT!holder
<1>3. PICK step \in Steps :
        /\ GoTo(r, step)
        /\ \/ exec[r].pc = "handler" /\ exec[r].kind = "request" /\ step = "check"
           \/ exec[r].pc = "check" /\ exec[r].keys = {} /\ step = "respond" /\ ~ exec[r].err
           \/ exec[r].pc = "check" /\ exec[r].keys # {} /\ exec[r].kind = "refresh"
                /\ step = "updateKeys" /\ ~ exec[r].err
           \/ exec[r].pc = "check" /\ exec[r].keys # {} /\ exec[r].kind # "refresh"
                /\ step = "has" /\ ~ exec[r].err
           \/ exec[r].pc = "has" /\ step \in {"updateKeys", "register"}
           \/ exec[r].pc = "start" /\ byConn[exec[r].conn][exec[r].id] # None
                /\ step = "registerRefresh"
           \/ exec[r].pc = "start" /\ byConn[exec[r].conn][exec[r].id] = None
                /\ step = "done"
  <2>1. CASE Lookup(r)
    BY <2>1 DEF Lookup, At, Steps
  <2>2. CASE ReturnOK(r)
    <3>1. CASE exec[r].keys = {}
      BY <2>2, <3>1 DEF ReturnOK, At, Steps
    <3>2. CASE exec[r].keys # {} /\ exec[r].kind = "refresh"
      BY <2>2, <3>2 DEF ReturnOK, At, Steps
    <3>3. CASE exec[r].keys # {} /\ exec[r].kind # "refresh"
      BY <2>2, <3>3 DEF ReturnOK, At, Steps
    <3> QED
      BY <3>1, <3>2, <3>3
  <2>3. CASE HasSubscription(r)
    BY <2>3 DEF HasSubscription, At, Steps
  <2>4. CASE RefreshStart(r)
    BY <2>4 DEF RefreshStart, At, Steps, SM!has
  <2> QED
    BY <2>1, <2>2, <2>3, <2>4
<1>4. OnlyMoves(r, step) /\ Elsewhere(r)
  BY <1>0, <1>3, GoToMoves
<1>5. /\ exec[r].pc = "has" => exec[r].kind = "subscribe"
      /\ exec[r].pc = "start" => exec[r].kind = "refresh"
      /\ exec[r].pc \in {"handler", "check"} => exec[r].kind \in {"request", "subscribe", "refresh"}
      /\ exec[r].kind = "request" => exec[r].pc = "idle" \/ exec[r].keys = {}
      /\ exec[r].toRefresh = {} \/ exec[r].pc = "flush"
  <2>1. exec[r].kind \in Kinds
    BY <1>0 DEF Exec
  <2>2. exec[r].pc \in {"handler", "check"} => exec[r].kind # "background"
    BY <1>0 DEF RunOK, BackgroundRun
  <2>3. exec[r].kind = "request" => exec[r].pc = "idle" \/ exec[r].keys = {}
    BY <1>0 DEF RunOK, ClientRun, ClientKinds
  <2> QED
    BY <1>0, <2>1, <2>2, <2>3, KindAt DEF RefreshNew, Kinds, RunOK
<1>6. RunOK(r)'
  <2>1. /\ exec[r].pc \notin {"idle", "starting", "done"} /\ step # "idle"
        /\ exec[r].toRefresh = {} \/ step = "flush"
        /\ exec[r].kind = "background" => step \in {"flush", "done"}
    BY <1>3, <1>5
  <2>2. exec[r].kind \in ClientKinds =>
              /\ exec[r].pc \in ClientLive <=> step \in ClientLive
              /\ step \in ClientLive \cup ClientGone
              /\ step = "flush" => exec[r].pc = "flush"
              /\ exec[r].kind = "request" => step \notin {"has", "updateKeys", "updateParams", "register"}
    BY <1>3, <1>5 DEF ClientKinds, ClientLive, ClientGone
  <2>3. exec[r].kind = "refresh" =>
              \/ exec[r].pc \in RefreshNew /\ step \in RefreshNew \cup {"done"}
              \/ exec[r].pc \in RefreshLive /\ step \in RefreshLive
    BY <1>3, <1>5 DEF RefreshNew, RefreshLive
  <2> QED
    BY <1>0, <1>2, <1>4, <2>1, <2>2, <2>3, MovedRunOK
<1>7. KeepsAnswering(r)
  BY <1>2, <1>3, <1>4, <1>5 DEF KeepsAnswering, Answering, OnlyMoves, SameSelf, ClientLive
<1>8. KeepsDelivering(r)
  <2> SUFFICES ASSUME NEW c \in Conns, NEW i \in SubIds, Due(c, i), Delivers(r, c, i)
               PROVE  Delivers(r, c, i)'
    BY DEF KeepsDelivering
  <2>1. byConn[c][i] # None
    BY DEF Due
  <2>2. CASE byConn[c][i] \in exec[r].toRefresh
    BY <1>3, <1>5, <2>2
  <2>3. CASE Carrying(r, c, i, owed[byConn[c][i]])
    BY <1>2, <1>3, <1>4, <1>5, <2>1, <2>3 DEF Carrying, Delivers, OnlyMoves, SameSelf
  <2>4. CASE DeferredTo(r, c, i)
    BY <1>2, <2>4 DEF DeferredTo, Delivers
  <2> QED
    BY <2>2, <2>3, <2>4 DEF Delivers
<1> QED
  BY <1>1, <1>3, <1>5, <1>6, <1>7, <1>8, GoToInv DEF ClientKinds

(* A query reads the newest version there is. *)
LEMMA QueryInv ==
    ASSUME DispatchInv, [Next]_vars, NEW r \in Runs, Query(r)
    PROVE  DispatchInv'
<1>0. /\ ComponentsInv /\ TypeOK /\ OutTypeOK /\ RunsOK /\ RunOK(r) /\ exec[r] \in Exec
      /\ OwedKnown
  BY DEF DispatchInv, ExecInv, RunsOK, TypeOK
<1>1. /\ UNCHANGED <<smVars, rtVars, reader, slotVars, db, owed, wanted>>
      /\ OutTypes' /\ SentKept
  BY <1>0, NothingSent DEF Query
<1>2. /\ run' = run /\ obj' = obj /\ ctx' = ctx /\ requests' = requests /\ byConn' = byConn
      /\ owed' = owed /\ reader' = reader
      /\ \A c, i : CT!holder(c, i)' = CT!holder(c, i)
  BY <1>1 DEF smVars, rtVars, CT!holder
<1> DEFINE p == IF exec[r].kind = "refresh" THEN obj[exec[r].sub].params
                ELSE exec[r].params
           e == [exec[r] EXCEPT !.params = p, !.ver = db, !.keys = KeysAt[p][db],
                                !.pc = "check"]
<1>3. /\ exec' = [exec EXCEPT ![r] = e] /\ exec[r].pc = "handler"
      /\ exec[r].kind \in {"subscribe", "refresh"}
  BY DEF Query, At
<1>4. p \in Params
  <2>1. CASE exec[r].kind = "refresh"
    <3>1. obj[exec[r].sub] \in SM!Subscription
      BY <1>0, <2>1, IndexFacts DEF RunOK, RefreshRun
    <3> QED
      BY <2>1, <3>1 DEF SM!Subscription
  <2>2. CASE exec[r].kind = "subscribe"
    BY <1>0, <1>3, <2>2 DEF RunOK, ClientRun, ClientKinds
  <2> QED
    BY <1>3, <2>1, <2>2
<1>5. db \in 0..MaxVersion /\ KeysAt[p][db] \in SUBSET Keys
  BY <1>0, <1>4, BoundsAssumption DEF TypeOK
<1> HIDE DEF p
<1>6. e \in Exec /\ e.params = p /\ e.ver = db /\ e.pc = "check"
      /\ e.kind = exec[r].kind /\ e.conn = exec[r].conn /\ e.id = exec[r].id
      /\ e.sub = exec[r].sub /\ e.rq = exec[r].rq /\ e.toRefresh = exec[r].toRefresh
      /\ e.err = exec[r].err
  BY <1>0, <1>4, <1>5 DEF Exec, Steps
<1> HIDE DEF e
<1>7. Elsewhere(r) /\ exec'[r] = e
  BY <1>0, <1>3, <1>6 DEF Elsewhere, TypeOK
<1>8. Moves(r)
  BY <1>1, <1>3, <1>6, <1>7 DEF Moves, SameSelf, rtVars
<1>9. RunOK(r)'
  <2>1. IdleRun(r)' /\ BackgroundRun(r)'
    BY <1>3, <1>6, <1>7 DEF IdleRun, BackgroundRun
  <2>2. ClientRun(r)'
    BY <1>0, <1>2, <1>3, <1>4, <1>6, <1>7
       DEF RunOK, ClientRun, Home, ClientKinds, ClientLive, ClientGone
  <2>3. RefreshRun(r)'
    BY <1>0, <1>2, <1>3, <1>6, <1>7 DEF RunOK, RefreshRun, Home, RefreshLive, RefreshNew
  <2> QED
    BY <1>0, <1>2, <1>3, <1>6, <1>7, <2>1, <2>2, <2>3 DEF RunOK
<1>10. db' = db /\ exec'[r].ver <= db' /\ db <= db'
  BY <1>1, <1>5, <1>6, <1>7, BoundsAssumption
<1>11. KeepsAnswering(r)
  BY <1>2, <1>3, <1>6, <1>7 DEF KeepsAnswering, Answering, ClientLive
<1>12. KeepsDelivering(r)
  <2> SUFFICES ASSUME NEW c \in Conns, NEW i \in SubIds, Due(c, i), Delivers(r, c, i)
               PROVE  Delivers(r, c, i)'
    BY DEF KeepsDelivering
  <2>1. byConn[c][i] \in Runs
    BY <1>0, IndexFacts DEF Due, Ids
  <2>2. owed[byConn[c][i]] \in 0..MaxVersion /\ owed[byConn[c][i]] <= db
    BY <1>0, <2>1 DEF TypeOK, OwedKnown
  <2>3. db >= owed[byConn[c][i]]
    BY <1>5, <2>2, BoundsAssumption
  <2>4. CASE byConn[c][i] \in exec[r].toRefresh
    BY <1>2, <1>6, <1>7, <2>4 DEF Delivers
  <2>5. CASE Carrying(r, c, i, owed[byConn[c][i]])
    BY <1>2, <1>3, <1>6, <1>7, <2>3, <2>5 DEF Carrying, Delivers
  <2>6. CASE DeferredTo(r, c, i)
    BY <1>2, <2>6 DEF DeferredTo, Delivers
  <2> QED
    BY <2>4, <2>5, <2>6 DEF Delivers
<1> QED
  BY <1>1, <1>5, <1>8, <1>9, <1>10, <1>11, <1>12, LocalInv

(* A mutation is a request: it owes no subscriber anything until it flushes. *)
LEMMA MutateInv ==
    ASSUME DispatchInv, [Next]_vars, NEW r \in Runs, Mutate(r)
    PROVE  DispatchInv'
<1>0. /\ ComponentsInv /\ TypeOK /\ OutTypeOK /\ RunsOK /\ RunOK(r) /\ exec[r] \in Exec
      /\ OwedKnown
  BY DEF DispatchInv, ExecInv, RunsOK, TypeOK
<1>1. /\ UNCHANGED <<smVars, rtVars, reader, slotVars, owed, wanted>>
      /\ OutTypes' /\ SentKept /\ db' = db + 1 /\ db < MaxVersion
      /\ exec[r].pc = "handler" /\ exec[r].kind = "request"
  BY <1>0, NothingSent DEF Mutate, At
<1>2. /\ run' = run /\ obj' = obj /\ ctx' = ctx /\ requests' = requests /\ byConn' = byConn
      /\ owed' = owed /\ reader' = reader
      /\ \A c, i : CT!holder(c, i)' = CT!holder(c, i)
  BY <1>1 DEF smVars, rtVars, CT!holder
<1>3. PICK step \in {"flush", "check"} :
        exec' = [exec EXCEPT ![r] = [exec[r] EXCEPT !.ver = db + 1, !.rq = Triggers(db),
                                        !.pc = step, !.then = "check"]]
  BY DEF Mutate
<1> DEFINE e == [exec[r] EXCEPT !.ver = db + 1, !.rq = Triggers(db),
                                !.pc = step, !.then = "check"]
<1>4. db + 1 \in 0..MaxVersion /\ db \in 0..MaxVersion /\ Triggers(db) \in SUBSET Keys
  <2>1. db \in 0..MaxVersion /\ db + 1 \in 0..MaxVersion
    BY <1>0, <1>1, BoundsAssumption DEF TypeOK
  <2> QED
    BY <2>1, BoundsAssumption DEF Triggers
<1>5. e \in Exec /\ e.ver = db + 1 /\ e.pc = step /\ e.then = "check"
      /\ e.kind = exec[r].kind /\ e.conn = exec[r].conn /\ e.id = exec[r].id
      /\ e.toRefresh = exec[r].toRefresh /\ e.keys = exec[r].keys
  BY <1>0, <1>4 DEF Exec, Steps
<1> HIDE DEF e
<1>6. Elsewhere(r) /\ exec'[r] = e
  BY <1>0, <1>3, <1>5 DEF Elsewhere, TypeOK, e
<1>7. Moves(r)
  BY <1>1, <1>5, <1>6 DEF Moves, SameSelf, rtVars
<1>8. RunOK(r)'
  <2>1. IdleRun(r)' /\ BackgroundRun(r)' /\ RefreshRun(r)'
    BY <1>1, <1>5, <1>6 DEF IdleRun, BackgroundRun, RefreshRun
  <2>2. ClientRun(r)'
    BY <1>0, <1>1, <1>2, <1>5, <1>6
       DEF RunOK, ClientRun, Home, ClientKinds, ClientLive, ClientGone
  <2>3. exec[r].toRefresh = {}
    BY <1>0, <1>1 DEF RunOK
  <2> QED
    BY <1>5, <1>6, <2>1, <2>2, <2>3 DEF RunOK
<1>9. db' \in 0..MaxVersion /\ exec'[r].ver <= db' /\ db <= db'
  BY <1>1, <1>4, <1>5, <1>6, BoundsAssumption
<1>10. KeepsAnswering(r)
  BY <1>1 DEF KeepsAnswering, Answering
<1>11. KeepsDelivering(r)
  <2> SUFFICES ASSUME NEW c \in Conns, NEW i \in SubIds, Delivers(r, c, i)
               PROVE  Delivers(r, c, i)'
    BY DEF KeepsDelivering
  <2>1. CASE byConn[c][i] \in exec[r].toRefresh
    BY <1>2, <1>5, <1>6, <2>1 DEF Delivers
  <2>2. CASE DeferredTo(r, c, i)
    BY <1>2, <2>2 DEF DeferredTo, Delivers
  <2> QED
    BY <1>1, <2>1, <2>2 DEF Delivers, Carrying
<1> QED
  BY <1>1, <1>7, <1>8, <1>9, <1>10, <1>11, LocalInv

(* A handler that fails will be answered with an error. *)
LEMMA HandlerFailsInv ==
    ASSUME DispatchInv, [Next]_vars, NEW r \in Runs, HandlerFails(r)
    PROVE  DispatchInv'
<1>0. /\ ComponentsInv /\ TypeOK /\ OutTypeOK /\ RunsOK /\ RunOK(r) /\ exec[r] \in Exec
      /\ OwedKnown
  BY DEF DispatchInv, ExecInv, RunsOK, TypeOK
<1>1. /\ UNCHANGED <<smVars, rtVars, reader, slotVars, db, owed, wanted>>
      /\ OutTypes' /\ SentKept /\ exec[r].pc = "handler"
  BY <1>0, NothingSent DEF HandlerFails, At
<1>2. /\ run' = run /\ obj' = obj /\ ctx' = ctx /\ requests' = requests /\ byConn' = byConn
      /\ owed' = owed /\ reader' = reader
      /\ \A c, i : CT!holder(c, i)' = CT!holder(c, i)
  BY <1>1 DEF smVars, rtVars, CT!holder
<1> DEFINE e == [exec[r] EXCEPT !.err = TRUE, !.pc = "check"]
<1>3. e \in Exec /\ e.pc = "check" /\ e.err = TRUE
      /\ e.kind = exec[r].kind /\ e.conn = exec[r].conn /\ e.id = exec[r].id
      /\ e.sub = exec[r].sub /\ e.rq = exec[r].rq /\ e.toRefresh = exec[r].toRefresh
      /\ e.keys = exec[r].keys /\ e.params = exec[r].params /\ e.ver = exec[r].ver
  BY <1>0 DEF Exec, Steps
<1>4. exec' = [exec EXCEPT ![r] = e]
  BY <1>0 DEF HandlerFails, TypeOK, Exec
<1> HIDE DEF e
<1>5. Elsewhere(r) /\ exec'[r] = e
  BY <1>0, <1>3, <1>4 DEF Elsewhere, TypeOK
<1>6. Moves(r)
  BY <1>1, <1>3, <1>5 DEF Moves, SameSelf, rtVars
<1>7. RunOK(r)'
  <2>1. IdleRun(r)' /\ BackgroundRun(r)'
    BY <1>0, <1>1, <1>3, <1>5 DEF IdleRun, BackgroundRun, RunOK
  <2>2. ClientRun(r)'
    BY <1>0, <1>1, <1>2, <1>3, <1>5
       DEF RunOK, ClientRun, Home, ClientKinds, ClientLive, ClientGone
  <2>3. RefreshRun(r)'
    BY <1>0, <1>1, <1>2, <1>3, <1>5 DEF RunOK, RefreshRun, Home, RefreshLive, RefreshNew
  <2> QED
    BY <1>0, <1>1, <1>2, <1>3, <1>5, <2>1, <2>2, <2>3 DEF RunOK
<1>8. db' \in 0..MaxVersion /\ exec'[r].ver <= db' /\ db <= db'
  BY <1>0, <1>1, <1>3, <1>5, BoundsAssumption DEF TypeOK, OwedKnown
<1>9. KeepsAnswering(r)
  BY <1>1, <1>2, <1>3, <1>5 DEF KeepsAnswering, Answering, ClientLive
<1>10. KeepsDelivering(r)
  <2> SUFFICES ASSUME NEW c \in Conns, NEW i \in SubIds, Delivers(r, c, i)
               PROVE  Delivers(r, c, i)'
    BY DEF KeepsDelivering
  <2>1. CASE byConn[c][i] \in exec[r].toRefresh
    BY <1>2, <1>3, <1>5, <2>1 DEF Delivers
  <2>2. CASE DeferredTo(r, c, i)
    BY <1>2, <2>2 DEF DeferredTo, Delivers
  <2>3. CASE Carrying(r, c, i, owed[byConn[c][i]])
    BY <1>1, <1>2, <1>3, <1>5, <2>3 DEF Carrying, Delivers
  <2> QED
    BY <2>1, <2>2, <2>3 DEF Delivers
<1> QED
  BY <1>1, <1>6, <1>7, <1>8, <1>9, <1>10, LocalInv

(* A run that ends with an error or a cancel: an error frame is an answer,  *)
(* and a run whose context has ended was not going to answer or deliver.    *)
LEMMA ReturnInv ==
    ASSUME DispatchInv, [Next]_vars, NEW r \in Runs, ReturnCancelled(r) \/ ReturnError(r)
    PROVE  DispatchInv'
<1>0. ComponentsInv /\ TypeOK /\ OutTypeOK /\ RunsOK /\ RunOK(r) /\ exec[r] \in Exec
  BY DEF DispatchInv, ExecInv, RunsOK, TypeOK
<1>1. /\ UNCHANGED <<smVars, rtVars, reader, slotVars, db, owed, wanted>>
      /\ GoTo(r, "unwind") /\ exec[r].pc = "check"
  BY DEF ReturnCancelled, ReturnError, At
<1>2. /\ run' = run /\ obj' = obj /\ ctx' = ctx /\ requests' = requests /\ byConn' = byConn
      /\ owed' = owed /\ reader' = reader /\ closed' = closed
      /\ \A c, i : CT!holder(c, i)' = CT!holder(c, i)
  BY <1>1 DEF smVars, rtVars, CT!holder
<1>3. /\ exec[r].conn \in Conns /\ exec[r].id \in Ids /\ exec[r].kind \in Kinds
      /\ exec[r].kind # "background" /\ exec[r].toRefresh = {}
  BY <1>0, <1>1, KindAt DEF Exec, RunOK
<1>4. /\ OutTypes' /\ SentKept
      /\ ctx[r] = "live" /\ ~ closed[exec[r].conn] =>
           wire'[exec[r].conn][exec[r].id].type # "none" /\ failed'[exec[r].conn][exec[r].id]
  <2>1. CASE SendError(exec[r].conn, exec[r].id)
    BY <1>0, <1>3, <2>1, ErrorSent
  <2>2. CASE UNCHANGED outVars /\ ctx[r] # "live"
    BY <1>0, <2>2, NothingSent
  <2> QED
    BY <2>1, <2>2 DEF ReturnCancelled, ReturnError
<1>5. OnlyMoves(r, "unwind")
  BY <1>0, <1>1, GoToMoves DEF Steps
<1>6. RunOK(r)'
  <2>1. "unwind" \in Steps
    BY DEF Steps
  <2>2. /\ exec[r].kind \in ClientKinds =>
              /\ exec[r].pc \in ClientLive <=> "unwind" \in ClientLive
              /\ "unwind" \in ClientLive \cup ClientGone
        /\ exec[r].kind = "refresh" =>
              exec[r].pc \in RefreshLive /\ "unwind" \in RefreshLive
    BY <1>1 DEF ClientLive, ClientGone, RefreshLive
  <2> QED
    BY <1>0, <1>1, <1>2, <1>3, <1>5, <2>1, <2>2, MovedRunOK
<1>7. KeepsAnswering(r)
  BY <1>1, <1>4 DEF KeepsAnswering, Answering
<1>8. KeepsDelivering(r)
  <2> SUFFICES ASSUME NEW c \in Conns, NEW i \in SubIds, Due(c, i), Due(c, i)', Delivers(r, c, i)
               PROVE  Delivers(r, c, i)'
    BY DEF KeepsDelivering
  <2>1. CASE Carrying(r, c, i, owed[byConn[c][i]])
    BY <1>1, <1>4, <2>1 DEF Carrying, Due
  <2>2. CASE DeferredTo(r, c, i)
    BY <1>2, <2>2 DEF DeferredTo, Delivers
  <2> QED
    BY <1>3, <2>1, <2>2 DEF Delivers
<1> QED
  BY <1>1, <1>4, <1>6, <1>7, <1>8, GoToInv DEF Steps

(* A response carries the version its run read. *)
LEMMA RespondInv ==
    ASSUME DispatchInv, [Next]_vars, NEW r \in Runs, Respond(r)
    PROVE  DispatchInv'
<1>0. /\ ComponentsInv /\ TypeOK /\ OutTypeOK /\ RunsOK /\ RunOK(r) /\ exec[r] \in Exec
      /\ OwedKnown
  BY DEF DispatchInv, ExecInv, RunsOK, TypeOK
<1>1. /\ UNCHANGED <<smVars, rtVars, reader, slotVars, db, owed, wanted>>
      /\ SendResponse(exec[r].conn, exec[r].id, exec[r].params, exec[r].ver)
      /\ exec[r].pc = "respond"
  BY DEF Respond, At
<1>2. /\ run' = run /\ obj' = obj /\ ctx' = ctx /\ requests' = requests /\ byConn' = byConn
      /\ owed' = owed /\ reader' = reader /\ closed' = closed
      /\ \A c, i : CT!holder(c, i)' = CT!holder(c, i)
  BY <1>1 DEF smVars, rtVars, CT!holder
<1>3. /\ exec[r].conn \in Conns /\ exec[r].id \in Ids /\ exec[r].kind \in Kinds
      /\ exec[r].kind # "background" /\ exec[r].toRefresh = {}
      /\ exec[r].params \in Params \cup {None} /\ exec[r].ver \in 0..MaxVersion
  BY <1>0, <1>1, KindAt DEF Exec, RunOK
<1>4. /\ OutTypes' /\ SentKept
      /\ ~ closed[exec[r].conn] =>
           /\ wire'[exec[r].conn][exec[r].id].type # "none"
           /\ best'[exec[r].conn][exec[r].id] >= exec[r].ver
  BY <1>0, <1>1, <1>3, ResponseSent
<1> DEFINE step == IF exec[r].rq # {} THEN "flush" ELSE "unwind"
           e == [exec[r] EXCEPT !.then = "unwind", !.pc = step]
<1>5. e \in Exec /\ e.pc = step /\ e.then = "unwind"
      /\ e.kind = exec[r].kind /\ e.conn = exec[r].conn /\ e.id = exec[r].id
      /\ e.sub = exec[r].sub /\ e.rq = exec[r].rq /\ e.toRefresh = exec[r].toRefresh
      /\ e.keys = exec[r].keys /\ e.params = exec[r].params /\ e.ver = exec[r].ver
  BY ZenonT(60), <1>0 DEF Exec, Steps
<1>6. exec' = [exec EXCEPT ![r] = e]
  <2>1. exec' = [exec EXCEPT ![r].then = "unwind",
                             ![r].pc = IF @ = "respond" /\ exec[r].rq # {}
                                       THEN "flush" ELSE "unwind"]
    BY DEF Respond
  <2>2. [exec[r] EXCEPT !.then = "unwind"].pc = exec[r].pc
    BY <1>0 DEF Exec
  <2> QED
    BY <1>0, <1>1, <2>1, <2>2 DEF TypeOK, Exec
<1> HIDE DEF e
<1>7. Elsewhere(r) /\ exec'[r] = e
  BY <1>0, <1>5, <1>6 DEF Elsewhere, TypeOK
<1>8. Moves(r)
  BY <1>1, <1>5, <1>7 DEF Moves, SameSelf, rtVars
<1>9. RunOK(r)'
  <2>1. IdleRun(r)' /\ BackgroundRun(r)'
    BY <1>3, <1>5, <1>7 DEF IdleRun, BackgroundRun
  <2>2. ClientRun(r)'
    BY <1>0, <1>1, <1>2, <1>5, <1>7
       DEF RunOK, ClientRun, Home, ClientKinds, ClientLive, ClientGone
  <2>3. RefreshRun(r)'
    BY <1>0, <1>1, <1>2, <1>5, <1>7 DEF RunOK, RefreshRun, Home, RefreshLive, RefreshNew
  <2> QED
    BY <1>3, <1>5, <1>7, <2>1, <2>2, <2>3 DEF RunOK
<1>10. db' \in 0..MaxVersion /\ exec'[r].ver <= db' /\ db <= db'
  BY <1>0, <1>1, <1>5, <1>7, BoundsAssumption DEF TypeOK, OwedKnown
<1>11. KeepsAnswering(r)
  BY <1>4 DEF KeepsAnswering, Answering
<1>12. KeepsDelivering(r)
  <2> SUFFICES ASSUME NEW c \in Conns, NEW i \in SubIds, Due(c, i), Due(c, i)', Delivers(r, c, i)
               PROVE  Delivers(r, c, i)'
    BY DEF KeepsDelivering
  <2>1. CASE Carrying(r, c, i, owed[byConn[c][i]])
    <3>1. byConn[c][i] \in Runs
      BY <1>0, IndexFacts DEF Due, Ids
    <3>2. owed[byConn[c][i]] \in 0..MaxVersion /\ i \in Ids
      BY <1>0, <3>1 DEF TypeOK, Ids
    <3>3. exec[r].ver >= owed[byConn[c][i]] /\ exec[r].conn = c /\ exec[r].id = i
      BY <1>1, <2>1 DEF Carrying
    <3>4. best'[c][i] \in 0..MaxVersion /\ best'[c][i] >= exec[r].ver
      BY <1>4, <3>2, <3>3 DEF OutTypes, Due
    <3>5. best'[c][i] < owed[byConn[c][i]]
      BY <1>2 DEF Due
    <3> QED
      BY <1>3, <3>2, <3>3, <3>4, <3>5, BoundsAssumption
  <2>2. CASE DeferredTo(r, c, i)
    BY <1>2, <2>2 DEF DeferredTo, Delivers
  <2> QED
    BY <1>3, <2>1, <2>2 DEF Delivers
<1> QED
  BY <1>1, <1>4, <1>8, <1>9, <1>10, <1>11, <1>12, LocalInv

(* A flush that found nothing, or has started everything it found. *)
LEMMA FlushNothingInv ==
    ASSUME DispatchInv, [Next]_vars, NEW r \in Runs, FlushNothing(r)
    PROVE  DispatchInv'
<1>0. ComponentsInv /\ TypeOK /\ OutTypeOK /\ RunsOK /\ RunOK(r) /\ exec[r] \in Exec
  BY DEF DispatchInv, ExecInv, RunsOK, TypeOK
<1>1. /\ UNCHANGED <<smVars, rtVars, reader, slotVars, db, owed, wanted>>
      /\ OutTypes' /\ SentKept
      /\ GoTo(r, exec[r].then) /\ exec[r].pc = "flush" /\ exec[r].toRefresh = {}
  BY <1>0, NothingSent DEF FlushNothing, At
<1>2. /\ run' = run /\ obj' = obj /\ requests' = requests /\ byConn' = byConn
      /\ \A c, i : CT!holder(c, i)' = CT!holder(c, i)
  BY <1>1 DEF smVars, rtVars, CT!holder
<1>3. /\ exec[r].kind \in {"request", "background"} /\ exec[r].then \in Steps
      /\ exec[r].kind = "request" => exec[r].then \in {"check", "unwind"}
      /\ exec[r].kind = "background" => exec[r].then = "done"
  <2>1. exec[r].kind \in {"request", "background"} /\ exec[r].then \in Steps
    BY <1>0, <1>1, KindAt DEF Exec
  <2> QED
    BY <1>0, <1>1, <2>1 DEF RunOK, ClientRun, BackgroundRun, ClientKinds
<1>4. OnlyMoves(r, exec[r].then)
  BY <1>0, <1>1, <1>3, GoToMoves
<1>5. RunOK(r)'
  <2>1. exec[r].kind \in ClientKinds =>
              /\ exec[r].pc \in ClientLive <=> exec[r].then \in ClientLive
              /\ exec[r].then \in ClientLive \cup ClientGone
              /\ exec[r].then \notin {"flush", "has", "updateKeys", "updateParams", "register"}
    BY <1>1, <1>3 DEF ClientLive, ClientGone, ClientKinds
  <2> QED
    BY <1>0, <1>1, <1>2, <1>3, <1>4, <2>1, MovedRunOK
<1>6. KeepsAnswering(r) /\ KeepsDelivering(r)
  <2>1. KeepsAnswering(r)
    BY <1>3 DEF KeepsAnswering, Answering
  <2>2. KeepsDelivering(r)
    BY <1>1, <1>2, <1>3 DEF KeepsDelivering, Delivers, Carrying, DeferredTo
  <2> QED
    BY <2>1, <2>2
<1> QED
  BY <1>1, <1>3, <1>5, <1>6, GoToInv DEF ClientKinds

(* processRefreshQueue owes the subscriptions it finds under a key the *)
(* version that triggered it, and remembers to refresh each of them.   *)
LEMMA FlushKeyInv ==
    ASSUME DispatchInv, [Next]_vars, NEW r \in Runs, FlushKey(r)
    PROVE  DispatchInv'
<1>0. /\ ComponentsInv /\ TypeOK /\ OutTypeOK /\ RunsOK /\ RunOK(r) /\ exec[r] \in Exec
      /\ OwedKnown /\ ObjHome /\ AnswerDue /\ TriggerDue
  BY DEF DispatchInv, ExecInv, RunsOK, TypeOK
<1>1. PICK k \in exec[r].rq :
        /\ exec' = [exec EXCEPT ![r].rq = @ \ {k},
                                ![r].toRefresh = @ \cup byKey[k]]
        /\ owed' = [s \in Runs |-> IF s \in byKey[k] /\ owed[s] < exec[r].ver
                                   THEN exec[r].ver ELSE owed[s]]
  BY DEF FlushKey, SM!getSubscriptionsForKey
<1>2. /\ UNCHANGED <<smVars, rtVars, reader, slotVars, db, outVars, wanted>>
      /\ exec[r].pc = "flush"
  BY DEF FlushKey, At
<1>3. /\ run' = run /\ obj' = obj /\ requests' = requests /\ byConn' = byConn /\ ctx' = ctx
      /\ closed' = closed /\ reader' = reader /\ wanted' = wanted /\ db' = db
      /\ wire' = wire /\ best' = best /\ failed' = failed
      /\ \A c, i : CT!holder(c, i)' = CT!holder(c, i)
  BY <1>2 DEF smVars, rtVars, outVars, CT!holder
<1>4. /\ k \in Keys /\ byKey[k] \subseteq Runs
      /\ \A s \in byKey[k] : obj[s] # None
  BY <1>0, IndexFacts DEF Exec
<1> DEFINE e == [exec[r] EXCEPT !.rq = exec[r].rq \ {k},
                                !.toRefresh = exec[r].toRefresh \cup byKey[k]]
<1>5. e \in Exec /\ e.toRefresh = exec[r].toRefresh \cup byKey[k] /\ e.rq \subseteq exec[r].rq
      /\ e.kind = exec[r].kind /\ e.conn = exec[r].conn /\ e.id = exec[r].id
      /\ e.pc = exec[r].pc /\ e.then = exec[r].then /\ e.sub = exec[r].sub
      /\ e.keys = exec[r].keys /\ e.params = exec[r].params /\ e.ver = exec[r].ver
      /\ e.err = exec[r].err
  BY <1>0, <1>4 DEF Exec
<1>6. exec' = [exec EXCEPT ![r] = e]
  BY <1>0, <1>1 DEF TypeOK, Exec
<1> HIDE DEF e
<1>7. Elsewhere(r) /\ exec'[r] = e
  BY <1>0, <1>5, <1>6 DEF Elsewhere, TypeOK
<1>8. Moves(r)
  BY <1>2, <1>5, <1>7 DEF Moves, SameSelf, rtVars, ClientKinds
<1>9. RunOK(r)'
  BY <1>0, <1>2, <1>3, <1>4, <1>5, <1>7
     DEF RunOK, IdleRun, ClientRun, RefreshRun, BackgroundRun, Home
<1>10. OutTypes'
  BY <1>0, <1>3 DEF OutTypeOK, OutTypes
<1>11. /\ exec[r].ver \in 0..MaxVersion /\ db \in 0..MaxVersion /\ exec[r].ver <= db
       /\ \A s \in Runs : owed[s] \in 0..MaxVersion /\ owed[s] <= db
  BY <1>0 DEF TypeOK, Exec, OwedKnown
<1>12. /\ owed' \in [Runs -> 0..MaxVersion]
       /\ \A s \in Runs : owed'[s] <= db /\ (s \notin byKey[k] => owed'[s] = owed[s])
  BY <1>1, <1>11
<1>13. OwedKnown'
  <2>1. \A s \in Runs : exec'[s].ver = exec[s].ver
    BY <1>5, <1>7 DEF Elsewhere
  <2> QED
    BY <1>0, <1>3, <1>4, <1>12, <2>1 DEF OwedKnown
<1>14. ObjHome'
  BY <1>0, <1>3 DEF ObjHome
<1>15. AnswerDue'
  <2>1. \A c \in Conns, i \in SubIds, q \in Runs : Answering(q, c, i) => Answering(q, c, i)'
    BY <1>3, <1>5, <1>7 DEF Answering, Elsewhere
  <2> QED
    BY <1>0, <1>3, <2>1, AnswerKept
<1>16. TriggerDue'
  <2> SUFFICES ASSUME NEW c \in Conns, NEW i \in SubIds, Due(c, i)'
               PROVE  \E t \in Runs : Delivers(t, c, i)'
    BY DEF TriggerDue
  <2> DEFINE s == byConn[c][i]
  <2>1. s \in Runs
    BY <1>0, <1>3, IndexFacts DEF Due, Ids
  <2>2. CASE s \in byKey[k]
    BY <1>3, <1>5, <1>7, <2>2 DEF Delivers
  <2>3. CASE s \notin byKey[k]
    <3>1. owed'[s] = owed[s]
      BY <1>12, <2>1, <2>3
    <3>2. Due(c, i)
      BY <1>3, <3>1 DEF Due, Leaving
    <3>3. PICK q \in Runs : Delivers(q, c, i)
      BY <1>0, <3>2 DEF TriggerDue
    <3>4. Delivers(q, c, i)'
      <4>1. CASE s \in exec[q].toRefresh
        BY <1>3, <1>5, <1>7, <4>1 DEF Delivers, Elsewhere
      <4>2. CASE Carrying(q, c, i, owed[s])
        BY <1>3, <1>5, <1>7, <3>1, <4>2 DEF Delivers, Carrying, Elsewhere
      <4>3. CASE DeferredTo(q, c, i)
        BY <1>3, <4>3 DEF Delivers, DeferredTo
      <4> QED
        BY <3>3, <4>1, <4>2, <4>3 DEF Delivers
    <3> QED
      BY <3>4
  <2> QED
    BY <2>2, <2>3
<1> QED
  BY <1>3, <1>8, <1>9, <1>10, <1>11, <1>12, <1>13, <1>14, <1>15, <1>16, MovesInv

-----------------------------------------------------------------------------
(* The steps of runSubscribe and refreshSubscription on the indexes. *)

(* updateKeys and updateParams change what a subscription is, not which *)
(* subscription an ID has.                                              *)
LEMMA UpdateInv ==
    ASSUME DispatchInv, [Next]_vars, NEW r \in Runs, UpdateKeys(r) \/ UpdateParams(r)
    PROVE  DispatchInv'
<1>0. /\ ComponentsInv /\ TypeOK /\ OutTypeOK /\ RunsOK /\ RunOK(r) /\ exec[r] \in Exec
      /\ OwedKnown /\ ObjHome /\ AnswerDue /\ TriggerDue /\ ExecInv
  BY DEF DispatchInv, ExecInv, RunsOK, TypeOK
<1>1. /\ UNCHANGED <<rtVars, reader, slotVars, db, outVars, owed, wanted>>
      /\ exec[r].pc \in {"updateKeys", "updateParams"}
      /\ \E step \in {"respond", "updateParams"} :
            GoTo(r, step) /\ (step = "updateParams" => exec[r].kind # "refresh")
  <2>1. CASE UpdateKeys(r)
    <3>1. CASE exec[r].kind = "refresh"
      BY <2>1, <3>1 DEF UpdateKeys, At
    <3>2. CASE exec[r].kind # "refresh"
      BY <2>1, <3>2 DEF UpdateKeys, At
    <3> QED
      BY <3>1, <3>2
  <2>2. CASE UpdateParams(r)
    BY <2>2 DEF UpdateParams, At
  <2> QED
    BY <2>1, <2>2
<1>2. PICK step \in {"respond", "updateParams"} :
         GoTo(r, step) /\ (step = "updateParams" => exec[r].kind # "refresh")
  BY <1>1
<1>3. byConn' = byConn /\ (obj' = obj \/
        \E s \in Runs : obj[s] # None /\ \A u \in Runs : u # s => obj'[u] = obj[u])
  <2>1. exec[r].conn \in Conns /\ exec[r].id \in Ids
    BY <1>0, <1>1, KindAt
  <2> DEFINE s == byConn[exec[r].conn][exec[r].id]
  <2>2. s # None => s \in Runs /\ obj[s] # None
    BY <1>0, <2>1, IndexFacts
  <2>3. CASE s = None
    BY <2>3 DEF UpdateKeys, UpdateParams, SM!updateKeys, SM!updateParams, SM!has, SM!subVars
  <2>4. CASE s # None
    <3>1. obj \in [Runs -> SM!Subscription \cup {None}]
      BY <1>0, IndexFacts
    <3>2. CASE UpdateKeys(r)
      <4>1. obj' = [obj EXCEPT ![s].keys = exec[r].keys] /\ byConn' = byConn
        BY <2>4, <3>2 DEF UpdateKeys, SM!updateKeys, SM!has
      <4> QED
        BY <2>2, <2>4, <3>1, <4>1
    <3>3. CASE UpdateParams(r)
      <4>1. obj' = [obj EXCEPT ![s].params = exec[r].params, ![s].wantsPatch = FALSE]
            /\ byConn' = byConn
        BY <2>4, <3>3 DEF UpdateParams, SM!updateParams, SM!has
      <4> QED
        BY <2>2, <2>4, <3>1, <4>1
    <3> QED
      BY <3>2, <3>3
  <2> QED
    BY <2>3, <2>4
<1>4. [SM!SubNext]_smVars
  BY <1>0, IndexStep
<1>5. \A s \in Runs : obj[s] # None => obj'[s] # None /\ obj'[s].id = obj[s].id
  BY <1>0, <1>4, ObjKept
<1>6. \A s \in Runs : obj[s] = None => obj'[s] = None
  BY <1>3
<1>7. /\ run' = run /\ ctx' = ctx /\ requests' = requests /\ closed' = closed
      /\ owed' = owed /\ reader' = reader /\ wanted' = wanted /\ db' = db
      /\ wire' = wire /\ best' = best /\ failed' = failed /\ found' = found
      /\ \A c, i : CT!holder(c, i)' = CT!holder(c, i)
  BY <1>1 DEF rtVars, outVars, CT!holder
<1>8. Elsewhere(r) /\ OnlyMoves(r, step) /\ step \in Steps
  BY <1>0, <1>2, GoToMoves DEF Steps
<1>9. /\ exec[r].kind \in {"subscribe", "refresh"} /\ exec[r].toRefresh = {}
      /\ exec[r].pc = "updateParams" => exec[r].kind = "subscribe"
  BY <1>0, <1>1, KindAt DEF RunOK
<1>10. Moves(r)
  BY <1>1, <1>2, <1>7, <1>8 DEF Moves, OnlyMoves, SameSelf
<1>11. RunOK(r)'
  <2>1. exec[r].kind \in ClientKinds =>
              /\ exec[r].pc \in ClientLive <=> step \in ClientLive
              /\ step \in ClientLive \cup ClientGone
              /\ step = "flush" => exec[r].pc = "flush"
              /\ exec[r].kind = "request" => step \notin {"has", "updateKeys", "updateParams", "register"}
    BY <1>1, <1>2, <1>9 DEF ClientLive, ClientGone
  <2>2. exec[r].kind = "refresh" => exec[r].pc \in RefreshLive /\ step \in RefreshLive
    BY <1>1, <1>2, <1>9 DEF RefreshLive
  <2> QED
    BY <1>0, <1>1, <1>2, <1>5, <1>7, <1>8, <1>9, <2>1, <2>2, MovedRunOK
<1>12. ObjHome' /\ OwedKnown'
  <2>1. \A s \in Runs : exec'[s].ver = exec[s].ver
    BY <1>8 DEF Elsewhere, OnlyMoves
  <2> QED
    BY <1>0, <1>5, <1>6, <1>7, <2>1 DEF ObjHome, OwedKnown
<1>13. AnswerDue'
  <2>1. \A c \in Conns, i \in SubIds, q \in Runs : Answering(q, c, i) => Answering(q, c, i)'
    BY <1>1, <1>2, <1>7, <1>8 DEF Answering, Elsewhere, OnlyMoves, SameSelf, ClientLive
  <2> QED
    BY <1>0, <1>7, <2>1, AnswerKept
<1>14. TriggerDue'
  <2>1. \A c \in Conns, i \in SubIds, q \in Runs : Delivers(q, c, i) => Delivers(q, c, i)'
    <3> SUFFICES ASSUME NEW c \in Conns, NEW i \in SubIds, NEW q \in Runs, Delivers(q, c, i)
                 PROVE  Delivers(q, c, i)'
      OBVIOUS
    <3>1. CASE byConn[c][i] \in exec[q].toRefresh
      BY <1>3, <1>8, <3>1 DEF Delivers, Elsewhere, OnlyMoves
    <3>2. CASE DeferredTo(q, c, i)
      BY <1>7, <3>2 DEF DeferredTo, Delivers
    <3>3. CASE Carrying(q, c, i, owed[byConn[c][i]])
      BY <1>1, <1>2, <1>3, <1>7, <1>8, <3>3
         DEF Carrying, Delivers, Elsewhere, OnlyMoves, SameSelf
    <3> QED
      BY <3>1, <3>2, <3>3 DEF Delivers
  <2>2. \A c \in Conns, i \in SubIds : Due(c, i)' => Due(c, i)
    BY <1>3, <1>7 DEF Due, Leaving
  <2> QED
    BY <1>0, <2>1, <2>2, TriggerKept
<1>15. OutTypes' /\ db' \in 0..MaxVersion /\ owed' \in [Runs -> 0..MaxVersion]
  BY <1>0, <1>7 DEF OutTypeOK, OutTypes, TypeOK
<1> QED
  BY <1>10, <1>11, <1>12, <1>13, <1>14, <1>15, MovesInv

(* A subscription that is not registered, for the cap or the close. *)
LEMMA RegisterDeniedInv ==
    ASSUME DispatchInv, [Next]_vars, NEW r \in Runs, Register(r),
           UNCHANGED smVars, GoTo(r, "unwind"),
           SendError(exec[r].conn, exec[r].id)
              \/ (closed[exec[r].conn] /\ UNCHANGED outVars)
    PROVE  DispatchInv'
<1>0. ComponentsInv /\ TypeOK /\ OutTypeOK /\ RunsOK /\ RunOK(r) /\ exec[r] \in Exec
  BY DEF DispatchInv, ExecInv, RunsOK, TypeOK
<1>1. /\ UNCHANGED <<smVars, rtVars, reader, slotVars, db, owed, wanted>>
      /\ exec[r].pc = "register"
  BY DEF Register, At
<1>2. /\ run' = run /\ obj' = obj /\ requests' = requests /\ byConn' = byConn
      /\ closed' = closed /\ \A c, i : CT!holder(c, i)' = CT!holder(c, i)
  BY <1>1 DEF smVars, rtVars, CT!holder
<1>3. /\ exec[r].conn \in Conns /\ exec[r].id \in Ids /\ exec[r].kind = "subscribe"
      /\ exec[r].toRefresh = {} /\ "unwind" \in Steps
  BY <1>0, <1>1, KindAt DEF RunOK, Steps
<1>4. /\ OutTypes' /\ SentKept
      /\ ~ closed[exec[r].conn] =>
           wire'[exec[r].conn][exec[r].id].type # "none" /\ failed'[exec[r].conn][exec[r].id]
  BY <1>0, <1>3, ErrorSent, NothingSent
<1>5. OnlyMoves(r, "unwind")
  BY <1>0, <1>3, GoToMoves
<1>6. RunOK(r)'
  <2>1. exec[r].kind \in ClientKinds =>
              /\ exec[r].pc \in ClientLive <=> "unwind" \in ClientLive
              /\ "unwind" \in ClientLive \cup ClientGone
    BY <1>1 DEF ClientLive, ClientGone
  <2> QED
    BY <1>0, <1>1, <1>2, <1>3, <1>5, <2>1, MovedRunOK
<1>7. KeepsAnswering(r)
  BY <1>4 DEF KeepsAnswering, Answering
<1>8. KeepsDelivering(r)
  <2> SUFFICES ASSUME NEW c \in Conns, NEW i \in SubIds, Due(c, i), Due(c, i)', Delivers(r, c, i)
               PROVE  Delivers(r, c, i)'
    BY DEF KeepsDelivering
  <2>1. CASE Carrying(r, c, i, owed[byConn[c][i]])
    BY <1>4, <2>1 DEF Carrying, Due
  <2>2. CASE DeferredTo(r, c, i)
    BY <1>2, <2>2 DEF DeferredTo, Delivers
  <2> QED
    BY <1>3, <2>1, <2>2 DEF Delivers
<1> QED
  BY <1>1, <1>3, <1>4, <1>6, <1>7, <1>8, GoToInv

(* A new subscription is owed nothing: no trigger can have found it. *)
LEMMA RegisterInv ==
    ASSUME DispatchInv, [Next]_vars, NEW r \in Runs, Register(r)
    PROVE  DispatchInv'
<1>0. /\ ComponentsInv /\ TypeOK /\ OutTypeOK /\ RunsOK /\ RunOK(r) /\ exec[r] \in Exec
      /\ OwedKnown /\ ObjHome /\ AnswerDue /\ TriggerDue /\ ExecInv
  BY DEF DispatchInv, ExecInv, RunsOK, TypeOK
<1> DEFINE c == exec[r].conn
           i == exec[r].id
           o == [conn |-> c, id |-> i, keys |-> exec[r].keys,
                 params |-> exec[r].params, wantsPatch |-> FALSE]
<1>1. CASE SM!RegisterLimited(c, i) /\ GoTo(r, "unwind") /\ SendError(c, i)
  BY <1>1, RegisterDeniedInv DEF SM!RegisterLimited, SM!subVars, smVars
<1>2. CASE SM!RegisterRefused(c) /\ GoTo(r, "unwind") /\ UNCHANGED outVars
  BY <1>2, RegisterDeniedInv DEF SM!RegisterRefused, SM!subVars, smVars
<1>3. CASE SM!RegisterOK(r, c, i, exec[r].keys, exec[r].params, FALSE)
           /\ GoTo(r, "respond") /\ UNCHANGED outVars
  <2>1. /\ UNCHANGED <<rtVars, reader, slotVars, db, outVars, owed, wanted>>
        /\ exec[r].pc = "register"
    BY <1>3 DEF Register, At
  <2>2. /\ obj[r] = None /\ obj' = [obj EXCEPT ![r] = o]
        /\ byConn' = [byConn EXCEPT ![c][i] = r]
    BY <1>3 DEF SM!RegisterOK
  <2>3. /\ c \in Conns /\ i \in Ids /\ exec[r].kind = "subscribe"
        /\ exec[r].toRefresh = {} /\ exec[r].params \in Params /\ "respond" \in Steps
    BY <1>0, <2>1, KindAt DEF RunOK, Steps
  <2>4. i \in SubIds
    BY <1>0, <2>1, <2>3 DEF RunOK, ClientRun, ClientKinds
  <2>5. o \in SM!Subscription /\ o.id = i
    BY <1>0, <2>3 DEF SM!Subscription, Exec
  <2> HIDE DEF o
  <2>6. /\ obj'[r] = o /\ obj'[r] # None
        /\ \A s \in Runs : s # r => obj'[s] = obj[s]
    BY <1>0, <2>2, <2>5, IndexFacts, NoneAssumption
  <2>7. /\ byConn'[c][i] = r
        /\ \A d \in Conns, j \in Ids : <<d, j>> # <<c, i>> => byConn'[d][j] = byConn[d][j]
    BY <1>0, <2>2, <2>3, IndexFacts
  <2>8. /\ run' = run /\ ctx' = ctx /\ requests' = requests /\ closed' = closed
        /\ owed' = owed /\ reader' = reader /\ wanted' = wanted /\ db' = db
        /\ wire' = wire /\ best' = best /\ failed' = failed /\ found' = found
        /\ \A d, j : CT!holder(d, j)' = CT!holder(d, j)
    BY <2>1 DEF rtVars, outVars, CT!holder
  <2>9. Elsewhere(r) /\ OnlyMoves(r, "respond")
    BY <1>0, <1>3, <2>3, GoToMoves
  <2>10. Moves(r)
    BY <2>1, <2>8, <2>9 DEF Moves, OnlyMoves, SameSelf
  <2>11. RunOK(r)'
    <3>1. exec[r].kind \in ClientKinds =>
              /\ exec[r].pc \in ClientLive <=> "respond" \in ClientLive
              /\ "respond" \in ClientLive \cup ClientGone
      BY <2>1 DEF ClientLive, ClientGone
    <3>2. \A s \in Runs : obj[s] # None => obj'[s] # None
      BY <2>6
    <3> HIDE DEF c, i
    <3> QED
      BY <1>0, <2>1, <2>3, <2>8, <2>9, <3>1, <3>2, MovedRunOK
  <2>12. ObjHome' /\ OwedKnown'
    <3>1. \A s \in Runs : exec'[s].ver = exec[s].ver
      BY <2>9 DEF Elsewhere, OnlyMoves
    <3> QED
      BY <1>0, <2>4, <2>5, <2>6, <2>8, <3>1 DEF ObjHome, OwedKnown
  <2>13. AnswerDue'
    <3>1. \A d \in Conns, j \in SubIds, q \in Runs : Answering(q, d, j) => Answering(q, d, j)'
      BY <2>1, <2>8, <2>9 DEF Answering, Elsewhere, OnlyMoves, SameSelf, ClientLive
    <3> QED
      BY <1>0, <2>8, <3>1, AnswerKept
  <2>14. TriggerDue'
    <3> SUFFICES ASSUME NEW d \in Conns, NEW j \in SubIds, Due(d, j)'
                 PROVE  /\ Due(d, j)
                        /\ \A q \in Runs : Delivers(q, d, j) => \E t \in Runs : Delivers(t, d, j)'
      BY <1>0, TriggerKept
    <3>1. owed[r] = 0 /\ best[d][j] \in 0..MaxVersion
      BY <1>0, <2>2 DEF OwedKnown, OutTypeOK, Ids
    <3>2. <<d, j>> # <<c, i>>
      BY <2>7, <2>8, <3>1, BoundsAssumption DEF Due
    <3>3. byConn'[d][j] = byConn[d][j]
      BY <2>7, <3>2 DEF Ids
    <3>4. Due(d, j)
      BY <2>8, <3>3 DEF Due, Leaving
    <3>5. ASSUME NEW q \in Runs, Delivers(q, d, j) PROVE Delivers(q, d, j)'
      <4>1. CASE byConn[d][j] \in exec[q].toRefresh
        BY <2>9, <3>3, <4>1 DEF Delivers, Elsewhere, OnlyMoves
      <4>2. CASE DeferredTo(q, d, j)
        BY <2>8, <4>2 DEF DeferredTo, Delivers
      <4>3. CASE Carrying(q, d, j, owed[byConn[d][j]])
        BY <2>1, <2>8, <2>9, <3>3, <4>3
           DEF Carrying, Delivers, Elsewhere, OnlyMoves, SameSelf
      <4> QED
        BY <3>5, <4>1, <4>2, <4>3 DEF Delivers
    <3> QED
      BY <3>4, <3>5
  <2>15. OutTypes' /\ db' \in 0..MaxVersion /\ owed' \in [Runs -> 0..MaxVersion]
    BY <1>0, <2>8 DEF OutTypeOK, OutTypes, TypeOK
  <2> QED
    BY <2>10, <2>11, <2>12, <2>13, <2>14, <2>15, MovesInv
<1> QED
  BY <1>1, <1>2, <1>3 DEF Register

-----------------------------------------------------------------------------
(* The steps of a run on the request table. *)

(* What is left to show of a step that moves run r, changes the table and *)
(* sends nothing.                                                         *)
LEMMA TableMoveInv ==
    ASSUME DispatchInv, [Next]_vars, NEW r \in Runs, NEW step \in Steps, GoTo(r, step),
           UNCHANGED <<smVars, reader, slotVars, db, outVars, owed, wanted, found>>,
           exec[r].pc \notin {"idle", "starting", "done"}, step # "idle",
           exec[r].kind \in ClientKinds => step # "done",
           RunOK(r)',
           \A q \in Runs : q # r => run'[q] = run[q],
           run[r].status # "new" => run'[r].conn = run[r].conn /\ run'[r].id = run[r].id,
           \A c \in Conns, i \in SubIds, q \in Runs :
              Answering(q, c, i) => Answering(q, c, i)',
           \A c \in Conns, i \in SubIds, q \in Runs :
              Due(c, i) /\ Delivers(q, c, i) => \E t \in Runs : Delivers(t, c, i)'
    PROVE  DispatchInv'
<1>0. /\ TypeOK /\ OutTypeOK /\ OwedKnown /\ ObjHome /\ AnswerDue /\ TriggerDue
  BY DEF DispatchInv, ExecInv
<1>1. Elsewhere(r) /\ OnlyMoves(r, step)
  BY <1>0, GoToMoves
<1>2. /\ closed' = closed /\ byConn' = byConn /\ obj' = obj /\ owed' = owed /\ db' = db
      /\ reader' = reader /\ wanted' = wanted
      /\ wire' = wire /\ best' = best /\ failed' = failed
  BY DEF smVars, outVars
<1>3. Moves(r)
  BY <1>1, <1>2 DEF Moves, OnlyMoves, SameSelf
<1>4. ObjHome' /\ OwedKnown'
  <2>1. \A s \in Runs : exec'[s].ver = exec[s].ver
    BY <1>1 DEF Elsewhere, OnlyMoves
  <2> QED
    BY <1>0, <1>2, <2>1 DEF ObjHome, OwedKnown
<1>5. AnswerDue'
  BY <1>0, <1>2, AnswerKept
<1>6. TriggerDue'
  <2>1. \A c \in Conns, i \in SubIds : Due(c, i)' => Due(c, i)
    BY <1>2 DEF Due, Leaving
  <2> QED
    BY <1>0, <2>1, TriggerKept
<1>7. OutTypes' /\ db' \in 0..MaxVersion /\ owed' \in [Runs -> 0..MaxVersion]
  BY <1>0, <1>2 DEF OutTypeOK, OutTypes, TypeOK
<1> QED
  BY <1>3, <1>4, <1>5, <1>6, <1>7, MovesInv

(* unregisterRequest hands a refresh that was deferred to the run on to *)
(* runDeferredRefresh.                                                  *)
LEMMA UnwindInv ==
    ASSUME DispatchInv, [Next]_vars, NEW r \in Runs, Unwind(r)
    PROVE  DispatchInv'
<1>0. ComponentsInv /\ TypeOK /\ OutTypeOK /\ RunsOK /\ RunOK(r) /\ exec[r] \in Exec
  BY DEF DispatchInv, ExecInv, RunsOK, TypeOK
<1>1. /\ UNCHANGED <<smVars, reader, slotVars, db, outVars, owed, wanted>>
      /\ exec[r].pc = "unwind" /\ CT!unregisterRequest(r)
  BY SameTableOps DEF Unwind, At
<1>2. /\ run[r].status = "live" /\ run'[r].status = "gone"
      /\ run'[r].conn = run[r].conn /\ run'[r].id = run[r].id
      /\ run'[r].refresh = run[r].refresh
      /\ CT!Alone(r)
      /\ \A d \in Conns, j \in Ids : CT!holder(d, j) # r => requests'[d][j] = requests[d][j]
      /\ \A d \in Conns, j \in Ids :
            CT!holder(d, j) = r /\ requests[d][j].refreshAgain => CT!refreshAgain(r)
  BY <1>0, <1>1, CT!UnregisterEffect, InstanceAssumptions DEF ComponentsInv
<1>3. /\ exec[r].kind \in {"request", "subscribe", "refresh"} /\ exec[r].toRefresh = {}
      /\ exec[r].conn \in Conns /\ exec[r].id \in Ids
  BY <1>0, <1>1, KindAt DEF RunOK, Exec, Kinds
<1>4. PICK step \in Steps :
        /\ GoTo(r, step)
        /\ \/ exec[r].kind = "refresh" /\ step = "done"
           \/ exec[r].kind # "refresh" /\ step = "deferred"
           \/ exec[r].kind # "refresh" /\ step = "finish" /\ ~ CT!refreshAgain(r)
  <2>1. CASE exec[r].kind = "refresh"
    <3>1. ~ CT!refreshAgain(r)
      <4>1. run[r].refresh = TRUE
        BY <1>0, <1>1, <2>1 DEF RunOK, RefreshRun, RefreshLive, Home
      <4>2. CT!Owns(r) => CT!holder(run[r].conn, run[r].id) = r
        BY <1>0, <1>2, CT!OwnsIsHolder, InstanceAssumptions DEF ComponentsInv
      <4>3. run[r].conn \in Conns /\ run[r].id \in Ids
        BY <1>0, <1>2 DEF ComponentsInv, CT!TableInv, CT!LiveHome
      <4>4. r # None
        BY NoneAssumption
      <4> QED
        BY <1>0, <4>1, <4>2, <4>3, <4>4, TableFacts
           DEF CT!refreshAgain, CT!Owns, ComponentsInv, CT!ReplacedInv, CT!AgainIsClient
    <3>2. ~ RT!refreshAgain(r)
      BY <3>1, SameTableOps
    <3> QED
      BY <2>1, <3>2 DEF Unwind, Steps
  <2>2. CASE exec[r].kind # "refresh" /\ CT!refreshAgain(r)
    BY <2>2, SameTableOps DEF Unwind, Steps
  <2>3. CASE exec[r].kind # "refresh" /\ ~ CT!refreshAgain(r)
    BY <2>3, SameTableOps DEF Unwind, Steps
  <2> QED
    BY <2>1, <2>2, <2>3
<1>5. Elsewhere(r) /\ OnlyMoves(r, step)
  BY <1>0, <1>4, GoToMoves
<1>6. /\ byConn' = byConn /\ obj' = obj /\ owed' = owed /\ found' = found
      /\ \A q \in Runs : q # r => exec'[q] = exec[q] /\ run'[q] = run[q] /\ ctx'[q] = ctx[q]
      /\ \A d \in Conns, j \in Ids : CT!holder(d, j) # r => CT!holder(d, j)' = CT!holder(d, j)
  BY <1>1, <1>2, <1>5 DEF smVars, CT!Alone, Elsewhere, CT!holder
<1>7. RunOK(r)'
  <2>1. IdleRun(r)' /\ BackgroundRun(r)'
    BY <1>3, <1>4, <1>5 DEF IdleRun, BackgroundRun, OnlyMoves, SameSelf
  <2>2. ClientRun(r)'
    BY <1>0, <1>1, <1>2, <1>3, <1>4, <1>5
       DEF RunOK, ClientRun, OnlyMoves, SameSelf, Home, ClientKinds, ClientLive, ClientGone
  <2>3. RefreshRun(r)'
    BY <1>0, <1>1, <1>2, <1>3, <1>4, <1>5, <1>6
       DEF RunOK, RefreshRun, OnlyMoves, SameSelf, Home, RefreshNew, RefreshLive
  <2> QED
    BY <1>3, <1>5, <2>1, <2>2, <2>3 DEF RunOK, OnlyMoves
<1>8. \A c \in Conns, i \in SubIds, q \in Runs : Answering(q, c, i) => Answering(q, c, i)'
  <2> SUFFICES ASSUME NEW c \in Conns, NEW i \in SubIds, NEW q \in Runs, Answering(q, c, i)
               PROVE  Answering(q, c, i)'
    OBVIOUS
  <2>1. q # r /\ i \in Ids
    BY <1>1 DEF Answering, Ids
  <2> QED
    BY <1>6, <2>1 DEF Answering
<1>9. ASSUME NEW c \in Conns, NEW i \in SubIds, NEW q \in Runs, Delivers(q, c, i)
      PROVE  Delivers(q, c, i)'
  <2>0. i \in Ids /\ i \notin ReqIds
    BY IdsAssumption DEF Ids
  <2>1. CASE byConn[c][i] \in exec[q].toRefresh
    BY <1>3, <1>6, <2>1 DEF Delivers
  <2>2. CASE Carrying(q, c, i, owed[byConn[c][i]])
    <3>1. q # r
      BY <1>1, <2>2 DEF Carrying
    <3> QED
      BY <1>6, <2>0, <2>2, <3>1 DEF Carrying, Delivers
  <2>3. CASE DeferredTo(q, c, i) /\ q # r
    BY <1>2, <1>6, <2>0, <2>3 DEF DeferredTo, Delivers
  <2>4. CASE DeferredTo(r, c, i) /\ q = r
    <3>1. CT!refreshAgain(r) /\ run[r].conn = c /\ run[r].id = i
      <4>1. CT!holder(c, i) = r /\ r # None
        BY <2>4, NoneAssumption DEF DeferredTo
      <4> QED
        BY <1>0, <1>2, <2>0, <2>4, <4>1, TableFacts DEF DeferredTo
    <3>2. exec[r].kind = "refresh" => CT!AgainIsClient /\ run[r].refresh = requests[c][i].refresh
      BY <1>0, <2>0, <2>4, TableFacts, NoneAssumption
         DEF DeferredTo, ComponentsInv, CT!ReplacedInv
    <3>3. exec[r].kind # "refresh"
      <4>1. requests[c][i] # None
        BY <2>4, NoneAssumption DEF DeferredTo, CT!holder
      <4>2. exec[r].kind = "refresh" => run[r].refresh = TRUE
        BY <1>0, <1>1 DEF RunOK, RefreshRun, RefreshLive, Home
      <4> QED
        BY <2>0, <2>4, <3>2, <4>1, <4>2 DEF DeferredTo, CT!AgainIsClient
    <3>4. exec[r].kind = "subscribe" /\ exec[r].conn = c /\ exec[r].id = i
      BY <1>0, <1>1, <1>3, <2>0, <3>1, <3>3 DEF RunOK, ClientRun, ClientKinds, Home
    <3>5. step = "deferred"
      BY <1>4, <3>1, <3>3
    <3> QED
      BY <1>5, <2>4, <3>4, <3>5 DEF Delivers, Carrying, OnlyMoves, SameSelf
  <2> QED
    BY <1>9, <2>1, <2>2, <2>3, <2>4 DEF Delivers
<1>10. /\ UNCHANGED <<smVars, reader, slotVars, db, outVars, owed, wanted, found>>
       /\ exec[r].pc \notin {"idle", "starting", "done"} /\ step # "idle"
       /\ (exec[r].kind \in ClientKinds => step # "done")
  BY <1>1, <1>4, <1>6 DEF ClientKinds
<1> QED
  BY <1>2, <1>4, <1>6, <1>7, <1>8, <1>9, <1>10, TableMoveInv

(* The pending cancel is for a run that has lost its entry: nobody relies *)
(* on it any more.                                                        *)
LEMMA RefreshCancelOldInv ==
    ASSUME DispatchInv, [Next]_vars, NEW r \in Runs, RefreshCancelOld(r)
    PROVE  DispatchInv'
<1>0. ComponentsInv /\ TypeOK /\ OutTypeOK /\ RunsOK /\ RunOK(r) /\ exec[r] \in Exec
  BY DEF DispatchInv, ExecInv, RunsOK, TypeOK
<1>1. /\ UNCHANGED <<smVars, reader, slotVars, db, outVars, owed, wanted>>
      /\ exec[r].pc = "cancelOld" /\ GoTo(r, "handler") /\ "handler" \in Steps
  BY DEF RefreshCancelOld, At, Steps
<1>2. /\ run' = run /\ requests' = requests /\ found' = found /\ victim[r] # None
      /\ \A q \in Runs : q # victim[r] => ctx'[q] = ctx[q]
  BY DEF RefreshCancelOld, RT!CancelOld, RT!Cancelled
<1>3. /\ \A c \in Conns, i \in Ids : CT!holder(c, i) # victim[r]
      /\ \A c, i : CT!holder(c, i)' = CT!holder(c, i)
  BY <1>0, <1>2, TableFacts DEF CT!holder
<1>4. exec[r].kind = "refresh" /\ exec[r].toRefresh = {}
  BY <1>0, <1>1, KindAt DEF RunOK
<1>5. Elsewhere(r) /\ OnlyMoves(r, "handler")
  BY <1>0, <1>1, GoToMoves
<1>6. byConn' = byConn /\ obj' = obj /\ owed' = owed
  BY <1>1 DEF smVars
<1>7. RunOK(r)'
  <2>1. /\ exec[r].kind \notin ClientKinds
        /\ exec[r].pc \in RefreshLive /\ "handler" \in RefreshLive
    BY <1>1, <1>4 DEF ClientKinds, RefreshLive
  <2> QED
    BY <1>0, <1>1, <1>2, <1>4, <1>5, <1>6, <2>1, MovedRunOK
<1>8. \A c \in Conns, i \in SubIds, q \in Runs : Answering(q, c, i) => Answering(q, c, i)'
  <2> SUFFICES ASSUME NEW c \in Conns, NEW i \in SubIds, NEW q \in Runs, Answering(q, c, i)
               PROVE  Answering(q, c, i)'
    OBVIOUS
  <2>1. q # r /\ i \in Ids
    BY <1>4 DEF Answering, Ids
  <2>2. exec'[q] = exec[q]
    BY <1>5, <2>1 DEF Elsewhere
  <2> QED
    BY <1>2, <1>3, <2>1, <2>2 DEF Answering
<1>9. ASSUME NEW c \in Conns, NEW i \in SubIds, NEW q \in Runs, Delivers(q, c, i)
      PROVE  Delivers(q, c, i)'
  <2>0. i \in Ids
    BY DEF Ids
  <2>1. CASE byConn[c][i] \in exec[q].toRefresh
    BY <1>5, <1>6, <2>1 DEF Delivers, Elsewhere, OnlyMoves
  <2>2. CASE DeferredTo(q, c, i)
    BY <1>2, <1>3, <2>2 DEF Delivers, DeferredTo
  <2>3. CASE Carrying(q, c, i, owed[byConn[c][i]])
    <3>1. ctx[q] = "live" /\ CT!holder(c, i) = q => ctx'[q] = "live"
      BY <1>2, <1>3, <2>0
    <3>2. CASE q # r
      <4>1. exec'[q] = exec[q]
        BY <1>5, <3>2 DEF Elsewhere
      <4> QED
        BY <1>3, <1>6, <2>3, <3>1, <4>1 DEF Delivers, Carrying
    <3>3. CASE q = r
      BY <1>1, <1>3, <1>5, <1>6, <2>3, <3>1, <3>3 DEF Delivers, Carrying, OnlyMoves, SameSelf
    <3> QED
      BY <3>2, <3>3
  <2> QED
    BY <1>9, <2>1, <2>2, <2>3 DEF Delivers
<1>10. exec[r].kind \notin ClientKinds
  BY <1>4 DEF ClientKinds
<1> QED
  BY <1>1, <1>2, <1>7, <1>8, <1>9, <1>10, TableMoveInv

(* A refresh that registers is going to deliver; one that finds a client's  *)
(* run leaves it to that run.                                               *)
LEMMA RegisterRefreshInv ==
    ASSUME DispatchInv, [Next]_vars, NEW r \in Runs, RegisterRefresh(r)
    PROVE  DispatchInv'
<1>0. ComponentsInv /\ TypeOK /\ OutTypeOK /\ RunsOK /\ RunOK(r) /\ exec[r] \in Exec
  BY DEF DispatchInv, ExecInv, RunsOK, TypeOK
<1>a. PICK c, i : c = exec[r].conn /\ i = exec[r].id
  OBVIOUS
<1>1. /\ UNCHANGED <<smVars, reader, slotVars, db, outVars, owed, wanted>>
      /\ exec[r].pc = "registerRefresh" /\ CT!registerRefresh(c, i, r)
  BY <1>a, SameTableOps DEF RegisterRefresh, At
<1>2. /\ exec[r].kind = "refresh" /\ exec[r].toRefresh = {} /\ c \in Conns /\ i \in Ids
  BY <1>0, <1>a, <1>1, KindAt DEF RunOK, RefreshNew
<1>3. /\ run[r].status = "new"
      /\ \/ /\ CT!Stored(c, i, r, TRUE) /\ ~ closed[c]
            /\ requests[c][i] # None => requests[c][i].refresh
         \/ /\ run'[r].status = "gone" /\ run'[r].refresh = TRUE /\ CT!Alone(r)
            /\ \A d \in Conns, j \in Ids : CT!EntryKept(d, j)
            /\ ~ closed[c] => /\ requests'[c][i].refreshAgain
                              /\ CT!holder(c, i) # None
  BY <1>0, <1>1, <1>2, CT!RefreshEffect, InstanceAssumptions DEF ComponentsInv
<1>4. byConn' = byConn /\ obj' = obj /\ owed' = owed
  BY <1>1 DEF smVars
<1>5. /\ \A d \in Conns, j \in Ids : CT!holder(d, j) # r
      /\ victim[r] = None /\ ctx[r] = "live"
  BY <1>0, <1>3, TableFacts, NoneAssumption
<1>6. exec[r].kind \notin ClientKinds
  BY <1>2 DEF ClientKinds
<1>7. CASE CT!Stored(c, i, r, TRUE) /\ ~ closed[c]
           /\ (requests[c][i] # None => requests[c][i].refresh)
  <2>1. /\ run'[r].status = "live" /\ run'[r].conn = c /\ run'[r].id = i
        /\ run'[r].refresh = TRUE /\ ctx' = ctx /\ found' = found
        /\ \A q \in Runs : q # r => run'[q] = run[q]
        /\ CT!holder(c, i)' = r
        /\ \A d \in Conns, j \in Ids : <<d, j>> # <<c, i>> =>
              requests'[d][j] = requests[d][j] /\ CT!holder(d, j)' = CT!holder(d, j)
    BY <1>7 DEF CT!Stored, CT!holder
  <2>2. PICK step \in {"cancelOld", "handler"} : GoTo(r, step)
    BY <2>1 DEF RegisterRefresh
  <2>3. Elsewhere(r) /\ OnlyMoves(r, step) /\ step \in Steps
    BY <1>0, <2>2, GoToMoves DEF Steps
  <2>4. RunOK(r)'
    <3>1. RefreshRun(r)'
      BY <1>0, <1>a, <1>2, <1>4, <2>1, <2>2, <2>3
         DEF RunOK, RefreshRun, OnlyMoves, SameSelf, Home, RefreshNew, RefreshLive
    <3> QED
      BY <1>2, <2>2, <2>3, <3>1
         DEF RunOK, IdleRun, ClientRun, BackgroundRun, OnlyMoves, SameSelf, ClientKinds
  <2>5. \A d \in Conns, j \in SubIds, q \in Runs : Answering(q, d, j) => Answering(q, d, j)'
    <3> SUFFICES ASSUME NEW d \in Conns, NEW j \in SubIds, NEW q \in Runs, Answering(q, d, j)
                 PROVE  Answering(q, d, j)'
      OBVIOUS
    <3>1. /\ q # r /\ j \in Ids /\ exec'[q] = exec[q]
      BY <1>2, <2>3 DEF Answering, Ids, Elsewhere
    <3>2. CASE <<d, j>> # <<c, i>>
      BY <2>1, <3>1, <3>2 DEF Answering
    <3>3. CASE d = c /\ j = i
      <4>1. CT!holder(c, i) # q
        <5> SUFFICES ASSUME CT!holder(c, i) = q PROVE FALSE
          OBVIOUS
        <5>1. run[q].refresh = FALSE
          BY <1>0, <3>1 DEF RunsOK, RunOK, ClientRun, ClientKinds, Home, Answering, ClientLive
        <5>2. q # None /\ requests[c][i] # None
          BY NoneAssumption DEF CT!holder
        <5>3. run[q].refresh = requests[c][i].refresh
          BY <1>0, <1>2, <5>2, TableFacts
        <5> QED
          BY <1>7, <5>1, <5>2, <5>3
      <4> QED
        BY <3>1, <3>3, <4>1 DEF Answering
    <3> QED
      BY <3>2, <3>3
  <2>6. ASSUME NEW d \in Conns, NEW j \in SubIds, NEW q \in Runs, Delivers(q, d, j)
        PROVE  \E t \in Runs : Delivers(t, d, j)'
    <3>0. j \in Ids
      BY DEF Ids
    <3>1. CASE d = c /\ j = i
      <4>1. Carrying(r, c, i, owed[byConn[c][i]])'
        BY <1>a, <1>2, <1>5, <2>1, <2>2, <2>3 DEF Carrying, OnlyMoves, SameSelf
      <4> QED
        BY <3>1, <4>1 DEF Delivers
    <3>2. CASE <<d, j>> # <<c, i>>
      <4>1. CASE byConn[d][j] \in exec[q].toRefresh
        BY <1>4, <2>3, <4>1 DEF Delivers, Elsewhere, OnlyMoves
      <4>2. CASE DeferredTo(q, d, j)
        BY <2>1, <3>0, <3>2, <4>2 DEF Delivers, DeferredTo
      <4>3. CASE Carrying(q, d, j, owed[byConn[d][j]])
        <5>1. q # r
          BY <1>a, <3>2, <4>3 DEF Carrying
        <5>2. exec'[q] = exec[q]
          BY <2>3, <5>1 DEF Elsewhere
        <5> QED
          BY <1>4, <2>1, <3>0, <3>2, <4>3, <5>2 DEF Delivers, Carrying
      <4> QED
        BY <2>6, <4>1, <4>2, <4>3 DEF Delivers
    <3> QED
      BY <3>1, <3>2
  <2> QED
    BY <1>1, <1>3, <1>6, <2>1, <2>2, <2>3, <2>4, <2>5, <2>6, TableMoveInv
<1>8. CASE /\ run'[r].status = "gone" /\ run'[r].refresh = TRUE /\ CT!Alone(r)
           /\ \A d \in Conns, j \in Ids : CT!EntryKept(d, j)
           /\ ~ closed[c] => /\ requests'[c][i].refreshAgain
                             /\ CT!holder(c, i) # None
  <2>1. /\ \A q \in Runs : q # r => run'[q] = run[q] /\ ctx'[q] = ctx[q]
        /\ found' = found /\ victim' = victim
        /\ \A d \in Conns, j \in Ids :
              /\ CT!holder(d, j)' = CT!holder(d, j)
              /\ CT!holder(d, j) # None /\ requests[d][j].refreshAgain
                    => requests'[d][j].refreshAgain
    BY <1>8 DEF CT!Alone, CT!EntryKept, CT!holder
  <2>2. GoTo(r, "done") /\ "done" \in Steps
    BY <1>5, <1>8, <2>1 DEF RegisterRefresh, Steps
  <2>3. Elsewhere(r) /\ OnlyMoves(r, "done")
    BY <1>0, <2>2, GoToMoves
  <2>4. RunOK(r)'
    <3>1. RefreshRun(r)'
      BY <1>0, <1>2, <1>4, <1>8, <2>3
         DEF RunOK, RefreshRun, OnlyMoves, SameSelf, RefreshNew, RefreshLive
    <3> QED
      BY <1>2, <2>3, <3>1
         DEF RunOK, IdleRun, ClientRun, BackgroundRun, OnlyMoves, SameSelf, ClientKinds
  <2>5. \A d \in Conns, j \in SubIds, q \in Runs : Answering(q, d, j) => Answering(q, d, j)'
    <3> SUFFICES ASSUME NEW d \in Conns, NEW j \in SubIds, NEW q \in Runs, Answering(q, d, j)
                 PROVE  Answering(q, d, j)'
      OBVIOUS
    <3>1. /\ q # r /\ j \in Ids /\ exec'[q] = exec[q]
      BY <1>2, <2>3 DEF Answering, Ids, Elsewhere
    <3> QED
      BY <2>1, <3>1 DEF Answering
  <2>6. ASSUME NEW d \in Conns, NEW j \in SubIds, NEW q \in Runs, Due(d, j), Delivers(q, d, j)
        PROVE  \E t \in Runs : Delivers(t, d, j)'
    <3>0. j \in Ids
      BY DEF Ids
    <3>1. CASE byConn[d][j] \in exec[q].toRefresh
      BY <1>4, <2>3, <3>1 DEF Delivers, Elsewhere, OnlyMoves
    <3>2. CASE DeferredTo(q, d, j)
      BY <2>1, <3>0, <3>2, NoneAssumption DEF Delivers, DeferredTo
    <3>3. CASE Carrying(q, d, j, owed[byConn[d][j]]) /\ q # r
      <4>1. exec'[q] = exec[q]
        BY <2>3, <3>3 DEF Elsewhere
      <4> QED
        BY <1>4, <2>1, <3>0, <3>3, <4>1 DEF Delivers, Carrying
    <3>4. CASE Carrying(r, d, j, owed[byConn[d][j]]) /\ q = r
      <4>1. d = c /\ j = i /\ ~ closed[c]
        BY <1>a, <3>4, <2>6 DEF Carrying, Due
      <4>2. requests'[c][i].refreshAgain /\ CT!holder(c, i) \in Runs
        BY <1>0, <1>2, <1>8, <4>1, TableFacts
      <4>3. DeferredTo(CT!holder(c, i), c, i)'
        BY <1>2, <2>1, <4>2 DEF DeferredTo
      <4> QED
        BY <2>1, <1>2, <4>1, <4>2, <4>3 DEF Delivers
    <3> QED
      BY <2>6, <3>1, <3>2, <3>3, <3>4 DEF Delivers
  <2>7. UNCHANGED <<smVars, reader, slotVars, db, outVars, owed, wanted, found>>
    BY <1>1, <2>1
  <2> QED
    BY <1>1, <1>3, <1>6, <2>1, <2>2, <2>4, <2>5, <2>6, <2>7, TableMoveInv
<1> QED
  BY <1>3, <1>7, <1>8

-----------------------------------------------------------------------------
(* Starting refreshes, and giving slots back. *)

SlotTypes == reqSem \in [Conns -> Nat] /\ serverSem \in Nat

(* The execution that has not begun. *)
LEMMA IdleExec ==
    /\ Idle \in Exec /\ Idle.kind = "request" /\ Idle.pc = "idle" /\ Idle.conn = None
    /\ Idle.keys = {} /\ Idle.rq = {} /\ Idle.toRefresh = {} /\ Idle.ver = 0
<1>1. 0 \in 0..MaxVersion
  BY BoundsAssumption
<1> QED
  BY <1>1 DEF Idle, Exec, Kinds, Steps

(* An idle run is in nobody's way. *)
LEMMA IdleFacts ==
    ASSUME ComponentsInv, RunsOK, NEW q \in Runs, exec[q].pc = "idle"
    PROVE  /\ exec[q] = Idle /\ exec[q].toRefresh = {} /\ ~ Holds(q)
           /\ run[q].status = "new" /\ ctx[q] = "live"
           /\ \A c \in Conns, i \in SubIds : ~ Answering(q, c, i) /\ ~ Delivers(q, c, i)
<1>1. exec[q] = Idle /\ run[q].status = "new" /\ exec[q].toRefresh = {}
  BY DEF RunsOK, RunOK, IdleRun, Idle
<1>2. ctx[q] = "live" /\ \A c \in Conns, i \in Ids : CT!holder(c, i) # q
  BY <1>1, TableFacts, NoneAssumption
<1>3. \A c \in Conns, i \in SubIds : ~ Answering(q, c, i) /\ ~ Delivers(q, c, i)
  BY <1>1, <1>2 DEF Answering, Delivers, Carrying, DeferredTo, Ids, ClientLive
<1> QED
  BY <1>1, <1>2, <1>3 DEF Holds

(* What is left to show of a step of r that may also start q, and touches *)
(* nothing but executions, the data and the slots.                        *)
LEMMA StartsInv ==
    ASSUME DispatchInv, [Next]_vars, NEW q \in Runs, NEW r \in Runs,
           UNCHANGED <<smVars, rtVars, reader, outVars, owed, wanted>>,
           exec' \in [Runs -> Exec],
           \A t \in Runs : t # q /\ t # r => exec'[t] = exec[t],
           exec[q].pc # "starting", exec[r].pc # "starting",
           RunOK(q)', RunOK(r)',
           db' \in 0..MaxVersion, db <= db', exec'[q].ver <= db', exec'[r].ver <= db',
           SlotTypes', SlotsMatchRuns',
           \A c \in Conns, i \in SubIds, t \in {q, r} :
              Answering(t, c, i) => Answering(t, c, i)',
           \A c \in Conns, i \in SubIds, t \in {q, r} :
              Due(c, i) /\ Delivers(t, c, i) => \E u \in Runs : Delivers(u, c, i)'
    PROVE  DispatchInv'
<1>0. /\ ComponentsInv /\ TypeOK /\ OutTypeOK /\ RunsOK /\ ReadersOK /\ OwedKnown /\ ObjHome
      /\ AnswerDue /\ TriggerDue /\ ExecInv
  BY DEF DispatchInv, ExecInv
<1>1. [SM!SubNext]_smVars /\ [RT!Next]_rtVars
  BY <1>0, IndexStep, TableStep
<1>2. ComponentsInv'
  BY <1>0, <1>1, ComponentsKept
<1>3. /\ run' = run /\ obj' = obj /\ requests' = requests /\ byConn' = byConn /\ ctx' = ctx
      /\ closed' = closed /\ reader' = reader /\ wanted' = wanted /\ owed' = owed
      /\ wire' = wire /\ best' = best /\ failed' = failed /\ found' = found
      /\ \A c, i : CT!holder(c, i)' = CT!holder(c, i)
  BY DEF smVars, rtVars, outVars, CT!holder
<1>4. RunsOK'
  BY <1>0, <1>1, <1>3, RunKept DEF RunsOK
<1>5. ReadersOK'
  <2>1. \A t \in Runs : exec[t].pc = "starting" => exec'[t] = exec[t]
    OBVIOUS
  <2> QED
    BY <1>0, <1>3, <2>1, ReadersKept
<1>6. ObjHome' /\ OwedKnown'
  <2>1. \A s \in Runs : /\ owed[s] \in 0..MaxVersion /\ exec[s].ver \in 0..MaxVersion
                        /\ owed[s] <= db /\ exec[s].ver <= db
                        /\ (obj[s] = None => owed[s] = 0)
    BY <1>0 DEF TypeOK, Exec, OwedKnown
  <2>2. db \in 0..MaxVersion
    BY <1>0 DEF TypeOK
  <2>3. \A s \in Runs : exec'[s].ver <= db' /\ owed[s] <= db'
    BY <2>1, <2>2, BoundsAssumption
  <2> QED
    BY <1>0, <1>3, <2>1, <2>3 DEF ObjHome, OwedKnown
<1>7. TypeOK' /\ OutTypeOK'
  BY <1>0, <1>3 DEF TypeOK, OutTypeOK, SlotTypes
<1>8. AnswerDue'
  <2>1. \A c \in Conns, i \in SubIds, t \in Runs : Answering(t, c, i) => Answering(t, c, i)'
    <3> SUFFICES ASSUME NEW c \in Conns, NEW i \in SubIds, NEW t \in Runs, t # q, t # r,
                        Answering(t, c, i)
                 PROVE  Answering(t, c, i)'
      OBVIOUS
    <3>1. exec'[t] = exec[t]
      OBVIOUS
    <3> QED
      BY <1>3, <3>1 DEF Answering
  <2> QED
    BY <1>0, <1>3, <2>1, AnswerKept
<1>9. TriggerDue'
  <2>1. \A c \in Conns, i \in SubIds : Due(c, i)' => Due(c, i)
    BY <1>3 DEF Due, Leaving
  <2>2. ASSUME NEW c \in Conns, NEW i \in SubIds, NEW t \in Runs, t # q, t # r,
               Delivers(t, c, i)
        PROVE  Delivers(t, c, i)'
    <3>1. exec'[t] = exec[t]
      BY <2>2
    <3> QED
      BY <1>3, <2>2, <3>1 DEF Delivers, Carrying, DeferredTo
  <2> QED
    BY <1>0, <2>1, <2>2, TriggerKept
<1> QED
  BY <1>2, <1>4, <1>5, <1>6, <1>7, <1>8, <1>9 DEF DispatchInv, ExecInv

(* A refresh of s starts from nothing but s. *)
LEMMA RefreshStarts ==
    ASSUME ComponentsInv, ObjHome, NEW s \in Runs, obj[s] # None
    PROVE  /\ RefreshOf(s) \in Exec /\ RefreshOf(s).kind = "refresh"
           /\ RefreshOf(s).pc = "start" /\ RefreshOf(s).sub = s
           /\ RefreshOf(s).conn = obj[s].conn /\ RefreshOf(s).id = obj[s].id
           /\ RefreshOf(s).ver = 0 /\ RefreshOf(s).rq = {} /\ RefreshOf(s).toRefresh = {}
           /\ obj[s].conn \in Conns /\ obj[s].id \in SubIds
<1>1. obj[s] \in SM!Subscription
  BY IndexFacts
<1>2. obj[s].conn \in Conns /\ obj[s].id \in SubIds
  BY <1>1 DEF SM!Subscription, ObjHome
<1> QED
  BY ZenonT(60), <1>2, IdleExec DEF RefreshOf, Exec, Kinds, Steps, Ids

(* ... and is where it may be. *)
LEMMA RefreshStartsOK ==
    ASSUME ComponentsInv, ObjHome, RunsOK, NEW s \in Runs, obj[s] # None,
           NEW q \in Runs, exec[q].pc = "idle", exec'[q] = RefreshOf(s),
           run' = run, obj' = obj
    PROVE  RunOK(q)'
<1>1. run[q].status = "new"
  BY IdleFacts
<1> DEFINE e == RefreshOf(s)
<1>2. /\ exec'[q] = e /\ e.kind = "refresh" /\ e.pc = "start" /\ e.sub = s
      /\ e.conn \in Conns /\ e.id \in SubIds /\ e.rq = {} /\ e.toRefresh = {}
  BY RefreshStarts
<1> HIDE DEF e
<1> QED
  BY <1>1, <1>2
     DEF RunOK, IdleRun, ClientRun, RefreshRun, BackgroundRun, ClientKinds, RefreshNew,
         RefreshLive

(* A goroutine of processRefreshQueue takes over what its subscription is owed. *)
LEMMA SpawnInv ==
    ASSUME DispatchInv, [Next]_vars, NEW r \in Runs, NEW q \in Runs, Spawn(r, q)
    PROVE  DispatchInv'
<1>0. /\ ComponentsInv /\ TypeOK /\ RunsOK /\ RunOK(r) /\ exec[r] \in Exec
      /\ OwedKnown /\ ObjHome /\ SlotsMatchRuns
  BY DEF DispatchInv, ExecInv, RunsOK, TypeOK
<1>1. PICK s \in exec[r].toRefresh :
        exec' = [exec EXCEPT ![q] = RefreshOf(s), ![r].toRefresh = @ \ {s},
                   ![r].pc = IF exec[r].toRefresh = {s} THEN exec[r].then ELSE @]
  BY DEF Spawn
<1>2. /\ UNCHANGED <<smVars, rtVars, reader, slotVars, db, outVars, owed, wanted>>
      /\ exec[r].pc = "flush" /\ exec[r].rq = {} /\ exec[q].pc = "idle" /\ q # r
  BY DEF Spawn, At, IsNext, Free
<1>3. /\ run' = run /\ obj' = obj /\ byConn' = byConn /\ owed' = owed /\ db' = db
      /\ requests' = requests /\ \A c, i : CT!holder(c, i)' = CT!holder(c, i)
  BY <1>2 DEF smVars, rtVars, CT!holder
<1>4. s \in Runs /\ obj[s] # None
  BY <1>0 DEF RunOK, Exec
<1> DEFINE step == IF exec[r].toRefresh = {s} THEN exec[r].then ELSE "flush"
           e == [exec[r] EXCEPT !.toRefresh = exec[r].toRefresh \ {s}, !.pc = step]
<1>5. /\ exec[r].kind \in {"request", "background"} /\ exec[r].then \in Steps
      /\ exec[r].kind = "request" => exec[r].then \in {"check", "unwind"}
      /\ exec[r].kind = "background" => exec[r].then = "done"
  <2>1. exec[r].kind \in {"request", "background"} /\ exec[r].then \in Steps
    BY <1>0, <1>2, KindAt DEF Exec
  <2> QED
    BY <1>0, <1>2, <2>1 DEF RunOK, ClientRun, BackgroundRun, ClientKinds
<1>6. e \in Exec /\ e.toRefresh = exec[r].toRefresh \ {s} /\ e.pc = step
      /\ e.kind = exec[r].kind /\ e.conn = exec[r].conn /\ e.id = exec[r].id
      /\ e.then = exec[r].then /\ e.rq = exec[r].rq /\ e.keys = exec[r].keys
      /\ e.ver = exec[r].ver
  BY ZenonT(60), <1>0, <1>5 DEF Exec, Steps
<1>7. exec' = [exec EXCEPT ![q] = RefreshOf(s), ![r] = e]
  <2>1. [exec[r] EXCEPT !.toRefresh = exec[r].toRefresh \ {s}].pc = exec[r].pc
    BY <1>0 DEF Exec
  <2> QED
    BY <1>0, <1>1, <1>2, <2>1 DEF TypeOK
<1> HIDE DEF e
<1>8. /\ exec' \in [Runs -> Exec] /\ exec'[q] = RefreshOf(s) /\ exec'[r] = e
      /\ \A t \in Runs : t # q /\ t # r => exec'[t] = exec[t]
  BY <1>0, <1>2, <1>4, <1>6, <1>7, RefreshStarts DEF TypeOK
<1>9. RunOK(q)'
  BY <1>0, <1>2, <1>3, <1>4, <1>8, RefreshStartsOK
<1>10. RunOK(r)'
  <2>1. IdleRun(r)' /\ BackgroundRun(r)' /\ RefreshRun(r)'
    BY <1>0, <1>2, <1>3, <1>5, <1>6, <1>8 DEF RunOK, IdleRun, BackgroundRun, RefreshRun
  <2>2. ClientRun(r)'
    BY <1>0, <1>2, <1>3, <1>5, <1>6, <1>8
       DEF RunOK, ClientRun, Home, ClientKinds, ClientLive, ClientGone
  <2> QED
    BY <1>0, <1>3, <1>6, <1>8, <2>1, <2>2 DEF RunOK
<1>11. SlotsMatchRuns' /\ SlotTypes'
  <2>1. \A t \in Runs : Holds(t)' <=> Holds(t)
    <3>1. ~ Holds(q) /\ ~ Holds(q)'
      BY <1>0, <1>2, <1>4, <1>8, IdleFacts, RefreshStarts DEF Holds, ClientKinds
    <3>2. Holds(r)' <=> Holds(r)
      BY <1>2, <1>5, <1>6, <1>8 DEF Holds, ClientKinds
    <3> QED
      BY <1>8, <3>1, <3>2 DEF Holds
  <2>2. \A t \in Runs : Holds(t) => exec'[t].conn = exec[t].conn
    BY <1>2, <1>6, <1>8 DEF Holds
  <2> QED
    BY <1>0, <1>2, <2>1, <2>2, SlotsKept DEF SlotTypes, TypeOK, slotVars
<1>12. /\ db' \in 0..MaxVersion /\ db <= db' /\ exec'[q].ver <= db' /\ exec'[r].ver <= db'
  BY <1>0, <1>3, <1>4, <1>6, <1>8, RefreshStarts, BoundsAssumption DEF TypeOK, OwedKnown
<1>13. \A c \in Conns, i \in SubIds, t \in {q, r} : ~ Answering(t, c, i)
  BY <1>2 DEF Answering, ClientLive
<1>14. ASSUME NEW c \in Conns, NEW i \in SubIds, NEW t \in {q, r}, Due(c, i), Delivers(t, c, i)
       PROVE  \E u \in Runs : Delivers(u, c, i)'
  <2>1. t = r
    BY <1>0, <1>2, <1>14, IdleFacts
  <2>2. CASE byConn[c][i] = s
    <3>1. obj[s].conn = c /\ obj[s].id = i
      BY <1>0, <1>14, <2>2, IndexFacts DEF Due, Ids
    <3>2. Delivers(q, c, i)'
      BY <1>0, <1>4, <1>8, <3>1, RefreshStarts DEF Delivers, Carrying
    <3> QED
      BY <3>2
  <2>3. CASE byConn[c][i] \in exec[r].toRefresh /\ byConn[c][i] # s
    <3>1. Delivers(r, c, i)'
      BY <1>3, <1>6, <1>8, <2>3 DEF Delivers
    <3> QED
      BY <3>1
  <2>4. CASE DeferredTo(r, c, i)
    <3>1. Delivers(r, c, i)'
      BY <1>3, <2>4 DEF Delivers, DeferredTo
    <3> QED
      BY <3>1
  <2>5. ~ Carrying(r, c, i, owed[byConn[c][i]])
    BY <1>5 DEF Carrying
  <2> QED
    BY <1>14, <2>1, <2>2, <2>3, <2>4, <2>5 DEF Delivers
<1> QED
  BY <1>2, <1>8, <1>9, <1>10, <1>11, <1>12, <1>13, <1>14, StartsInv

(* runDeferredRefresh starts the refresh that was deferred, if the *)
(* subscription is still there.                                    *)
LEMMA DeferredInv ==
    ASSUME DispatchInv, [Next]_vars, NEW r \in Runs, NEW q \in Runs, runDeferredRefresh(r, q)
    PROVE  DispatchInv'
<1>0. /\ ComponentsInv /\ TypeOK /\ OutTypeOK /\ RunsOK /\ RunOK(r) /\ exec[r] \in Exec
      /\ OwedKnown /\ ObjHome /\ SlotsMatchRuns
  BY DEF DispatchInv, ExecInv, RunsOK, TypeOK
<1>a. PICK s : s = byConn[exec[r].conn][exec[r].id]
  OBVIOUS
<1>1. /\ UNCHANGED <<smVars, rtVars, reader, slotVars, db, outVars, owed, wanted>>
      /\ exec[r].pc = "deferred"
      /\ IF s = None THEN GoTo(r, "finish")
         ELSE IsNext(q) /\ exec' = [exec EXCEPT ![q] = RefreshOf(s), ![r].pc = "finish"]
  BY <1>a DEF runDeferredRefresh, At, SM!get
<1>2. /\ run' = run /\ obj' = obj /\ byConn' = byConn /\ owed' = owed /\ db' = db
      /\ requests' = requests /\ \A c, i : CT!holder(c, i)' = CT!holder(c, i)
  BY <1>1 DEF smVars, rtVars, CT!holder
<1>3. /\ exec[r].kind \in ClientKinds /\ exec[r].toRefresh = {}
      /\ exec[r].conn \in Conns /\ exec[r].id \in Ids
  BY <1>0, <1>1, KindAt DEF RunOK
<1>4. CASE s = None
  <2>1. OnlyMoves(r, "finish") /\ "finish" \in Steps
    BY <1>0, <1>1, <1>4, GoToMoves DEF Steps
  <2>2. RunOK(r)'
    <3>1. /\ exec[r].pc \in ClientLive <=> "finish" \in ClientLive
          /\ "finish" \in ClientLive \cup ClientGone
          /\ exec[r].kind # "refresh" /\ exec[r].kind # "background"
      BY <1>1, <1>3 DEF ClientLive, ClientGone, ClientKinds
    <3> QED
      BY <1>0, <1>1, <1>2, <1>3, <2>1, <3>1, MovedRunOK
  <2>3. KeepsAnswering(r)
    BY <1>1 DEF KeepsAnswering, Answering, ClientLive
  <2>4. KeepsDelivering(r)
    <3> SUFFICES ASSUME NEW c \in Conns, NEW i \in SubIds, Due(c, i), Delivers(r, c, i)
                 PROVE  Delivers(r, c, i)'
      BY DEF KeepsDelivering
    <3>1. ~ Carrying(r, c, i, owed[byConn[c][i]])
      BY <1>a, <1>4 DEF Carrying, Due
    <3> QED
      BY <1>2, <1>3, <3>1 DEF Delivers, DeferredTo
  <2>5. OutTypes' /\ SentKept
    BY <1>0, <1>1, NothingSent
  <2> QED
    BY <1>1, <1>3, <1>4, <2>1, <2>2, <2>3, <2>4, <2>5, GoToInv
<1>5. CASE s # None
  <2>1. s \in Runs /\ obj[s] # None /\ obj[s].conn = exec[r].conn /\ obj[s].id = exec[r].id
    BY <1>0, <1>a, <1>3, <1>5, IndexFacts
  <2>2. exec[q].pc = "idle" /\ q # r
    BY <1>1, <1>5 DEF IsNext, Free, At
  <2> DEFINE e == [exec[r] EXCEPT !.pc = "finish"]
  <2>3. e \in Exec /\ e.pc = "finish" /\ e.toRefresh = exec[r].toRefresh
        /\ e.kind = exec[r].kind /\ e.conn = exec[r].conn /\ e.id = exec[r].id
        /\ e.rq = exec[r].rq /\ e.keys = exec[r].keys /\ e.params = exec[r].params
        /\ e.ver = exec[r].ver
    BY <1>0 DEF Exec, Steps
  <2>4. exec' = [exec EXCEPT ![q] = RefreshOf(s), ![r] = e]
    BY <1>0, <1>1, <1>5, <2>2 DEF TypeOK
  <2> HIDE DEF e
  <2>5. /\ exec' \in [Runs -> Exec] /\ exec'[q] = RefreshOf(s) /\ exec'[r] = e
        /\ \A t \in Runs : t # q /\ t # r => exec'[t] = exec[t]
    BY <1>0, <2>1, <2>2, <2>3, <2>4, RefreshStarts DEF TypeOK
  <2>6. RunOK(q)'
    BY <1>0, <1>2, <2>1, <2>2, <2>5, RefreshStartsOK
  <2>7. RunOK(r)'
    <3>1. ClientRun(r)'
      BY <1>0, <1>1, <1>2, <1>3, <2>3, <2>5
         DEF RunOK, ClientRun, Home, ClientKinds, ClientLive, ClientGone
    <3> QED
      BY <1>3, <2>3, <2>5, <3>1 DEF RunOK, IdleRun, RefreshRun, BackgroundRun, ClientKinds
  <2>8. SlotsMatchRuns' /\ SlotTypes'
    <3>1. \A t \in Runs : Holds(t)' <=> Holds(t)
      <4>1. ~ Holds(q) /\ ~ Holds(q)'
        BY <1>0, <2>1, <2>2, <2>5, IdleFacts, RefreshStarts DEF Holds, ClientKinds
      <4>2. Holds(r)' <=> Holds(r)
        BY <1>1, <2>3, <2>5 DEF Holds
      <4> QED
        BY <2>5, <4>1, <4>2 DEF Holds
    <3>2. \A t \in Runs : Holds(t) => exec'[t].conn = exec[t].conn
      BY <2>2, <2>3, <2>5 DEF Holds
    <3> QED
      BY <1>0, <1>1, <3>1, <3>2, SlotsKept DEF SlotTypes, TypeOK, slotVars
  <2>9. /\ db' \in 0..MaxVersion /\ db <= db' /\ exec'[q].ver <= db' /\ exec'[r].ver <= db'
    BY <1>0, <1>2, <2>1, <2>3, <2>5, RefreshStarts, BoundsAssumption DEF TypeOK, OwedKnown
  <2>10. \A c \in Conns, i \in SubIds, t \in {q, r} : ~ Answering(t, c, i)
    BY <1>1, <2>2 DEF Answering, ClientLive
  <2>11. ASSUME NEW c \in Conns, NEW i \in SubIds, NEW t \in {q, r}, Due(c, i), Delivers(t, c, i)
         PROVE  \E u \in Runs : Delivers(u, c, i)'
    <3>1. t = r
      BY <1>0, <2>2, <2>11, IdleFacts
    <3>2. CASE Carrying(r, c, i, owed[byConn[c][i]])
      <4>1. Delivers(q, c, i)'
        BY <1>0, <2>1, <2>5, <3>2, RefreshStarts DEF Delivers, Carrying
      <4> QED
        BY <4>1
    <3>3. CASE DeferredTo(r, c, i)
      <4>1. Delivers(r, c, i)'
        BY <1>2, <3>3 DEF Delivers, DeferredTo
      <4> QED
        BY <4>1
    <3> QED
      BY <1>3, <2>11, <3>1, <3>2, <3>3 DEF Delivers
  <2> QED
    BY <1>1, <2>2, <2>5, <2>6, <2>7, <2>8, <2>9, <2>10, <2>11, StartsInv
<1> QED
  BY <1>4, <1>5

(* A background mutation owes nobody anything until it flushes. *)
LEMMA BackgroundInv ==
    ASSUME DispatchInv, [Next]_vars, NEW r \in Runs, BackgroundMutation(r)
    PROVE  DispatchInv'
<1>0. /\ ComponentsInv /\ TypeOK /\ RunsOK /\ SlotsMatchRuns
  BY DEF DispatchInv, ExecInv
<1>1. /\ UNCHANGED <<smVars, rtVars, reader, slotVars, outVars, owed, wanted>>
      /\ exec[r].pc = "idle" /\ db' = db + 1 /\ db < MaxVersion
      /\ exec' = [exec EXCEPT ![r] = [Idle EXCEPT !.kind = "background",
                    !.ver = db + 1, !.rq = Triggers(db), !.pc = "flush", !.then = "done"]]
  BY DEF BackgroundMutation, IsNext, Free, At
<1>2. db + 1 \in 0..MaxVersion /\ db \in 0..MaxVersion /\ Triggers(db) \in SUBSET Keys
  <2>1. db \in 0..MaxVersion /\ db + 1 \in 0..MaxVersion
    BY <1>0, <1>1, BoundsAssumption DEF TypeOK
  <2> QED
    BY <2>1, BoundsAssumption DEF Triggers
<1> DEFINE e == [Idle EXCEPT !.kind = "background", !.ver = db + 1,
                             !.rq = Triggers(db), !.pc = "flush", !.then = "done"]
<1>3. exec' = [exec EXCEPT ![r] = e]
  BY <1>1
<1>4. e \in Exec /\ e.kind = "background" /\ e.pc = "flush" /\ e.then = "done"
      /\ e.ver = db + 1 /\ e.toRefresh = {}
  <2> DEFINE v == db + 1
             T == Triggers(db)
  <2>1. v \in 0..MaxVersion /\ T \in SUBSET Keys
    BY <1>2
  <2> HIDE DEF v, T
  <2>2. /\ "background" \in Kinds /\ "flush" \in Steps /\ "done" \in Steps
    BY DEF Kinds, Steps
  <2>3. Idle \in Exec /\ Idle.toRefresh = {}
    BY IdleExec
  <2> QED
    BY <2>1, <2>2, <2>3 DEF Exec, v, T
<1> HIDE DEF e
<1>5. /\ exec' \in [Runs -> Exec] /\ exec'[r] = e
      /\ \A t \in Runs : t # r => exec'[t] = exec[t]
  BY <1>0, <1>3, <1>4 DEF TypeOK
<1>6. /\ exec[r] = Idle /\ ~ Holds(r) /\ run[r].status = "new"
      /\ \A c \in Conns, i \in SubIds : ~ Answering(r, c, i) /\ ~ Delivers(r, c, i)
  BY <1>0, <1>1, IdleFacts
<1>7. RunOK(r)'
  <2>1. run' = run
    BY <1>1 DEF rtVars
  <2> QED
    BY <1>4, <1>5, <1>6, <2>1
       DEF RunOK, IdleRun, ClientRun, RefreshRun, BackgroundRun, ClientKinds
<1>8. SlotsMatchRuns' /\ SlotTypes'
  <2>1. ~ Holds(r)'
    BY <1>4, <1>5 DEF Holds, ClientKinds
  <2>2. \A t \in Runs : Holds(t)' <=> Holds(t)
    BY <1>5, <1>6, <2>1 DEF Holds
  <2>3. \A t \in Runs : Holds(t) => exec'[t].conn = exec[t].conn
    BY <1>5, <1>6
  <2> QED
    BY <1>0, <1>1, <2>2, <2>3, SlotsKept DEF SlotTypes, TypeOK, slotVars
<1>9. db' \in 0..MaxVersion /\ db <= db' /\ exec'[r].ver <= db'
  BY <1>1, <1>2, <1>4, <1>5, BoundsAssumption
<1>10. exec[r].pc # "starting"
  BY <1>1
<1>11. \A c \in Conns, i \in SubIds, t \in {r, r} : ~ Answering(t, c, i) /\ ~ Delivers(t, c, i)
  BY <1>6
<1> QED
  BY <1>1, <1>5, <1>7, <1>8, <1>9, <1>10, <1>11, StartsInv

-----------------------------------------------------------------------------
(* Slots: one run more, one run less. *)

(* The runs that hold a slot of the connections C. *)
Holding(C) == {r \in Runs : /\ exec[r].kind \in {"request", "subscribe"}
                            /\ exec[r].conn \in C
                            /\ exec[r].pc \notin {"idle", "done"}}

(* SlotsMatchRuns, with its sets named. *)
LEMMA SlotsAre ==
    SlotsMatchRuns <=>
        /\ \A c \in Conns : reqSem[c] = Cardinality(Holding({c}))
        /\ serverSem = Cardinality(Holding(Conns))
        /\ MaxConcurrentRequests > 0 =>
              \A c \in Conns : reqSem[c] <= MaxConcurrentRequests
        /\ MaxServerConcurrentRequests > 0 => serverSem <= MaxServerConcurrentRequests
BY DEF SlotsMatchRuns, Holding

(* The runs that hold a slot can be counted. *)
LEMMA HoldingFinite ==
    ASSUME NEW C PROVE IsFiniteSet(Holding(C)) /\ Cardinality(Holding(C)) \in Nat
<1>1. IsFiniteSet(Runs)
  BY FS_Interval, BoundsAssumption DEF Runs
<1>2. Holding(C) \subseteq Runs
  BY DEF Holding
<1> QED
  BY <1>1, <1>2, FS_Subset, FS_CardinalityType

(* A run that finishes gives back one slot of its connection and one of the *)
(* server.                                                                  *)
LEMMA FinishInv ==
    ASSUME DispatchInv, [Next]_vars, NEW r \in Runs, Finish(r)
    PROVE  DispatchInv'
<1>0. /\ ComponentsInv /\ TypeOK /\ RunsOK /\ RunOK(r) /\ exec[r] \in Exec
      /\ OwedKnown /\ SlotsMatchRuns
  BY DEF DispatchInv, ExecInv, RunsOK, TypeOK
<1>a. PICK c : c = exec[r].conn
  OBVIOUS
<1>1. /\ UNCHANGED <<smVars, rtVars, reader, db, outVars, owed, wanted>>
      /\ exec[r].pc = "finish" /\ GoTo(r, "done") /\ "done" \in Steps
      /\ reqSem' = [reqSem EXCEPT ![c] = @ - 1] /\ serverSem' = serverSem - 1
  BY <1>a DEF Finish, At, Steps
<1>2. /\ exec[r].kind \in ClientKinds /\ exec[r].toRefresh = {} /\ c \in Conns
  BY <1>0, <1>a, <1>1, KindAt DEF RunOK
<1>3. Elsewhere(r) /\ OnlyMoves(r, "done")
  BY <1>0, <1>1, GoToMoves
<1>4. /\ run' = run /\ obj' = obj /\ byConn' = byConn /\ db' = db /\ requests' = requests
      /\ \A d, i : CT!holder(d, i)' = CT!holder(d, i)
  BY <1>1 DEF smVars, rtVars, CT!holder
<1>5. RunOK(r)'
  <2>1. /\ exec[r].pc \in ClientLive <=> "done" \in ClientLive
        /\ "done" \in ClientLive \cup ClientGone
        /\ exec[r].kind # "refresh" /\ exec[r].kind # "background"
    BY <1>1, <1>2 DEF ClientLive, ClientGone, ClientKinds
  <2> QED
    BY <1>0, <1>1, <1>2, <1>3, <1>4, <2>1, MovedRunOK
<1>6. /\ r \in Holding({c}) /\ r \in Holding(Conns)
      /\ Holding({c})' = Holding({c}) \ {r} /\ Holding(Conns)' = Holding(Conns) \ {r}
      /\ \A d \in Conns : d # c => Holding({d})' = Holding({d})
  BY <1>a, <1>1, <1>2, <1>3 DEF Holding, Elsewhere, OnlyMoves, SameSelf, ClientKinds
<1>7. /\ Cardinality(Holding({c}) \ {r}) = Cardinality(Holding({c})) - 1
      /\ Cardinality(Holding(Conns) \ {r}) = Cardinality(Holding(Conns)) - 1
      /\ IsFiniteSet(Holding({c}) \ {r}) /\ IsFiniteSet(Holding(Conns) \ {r})
  BY <1>6, HoldingFinite, FS_RemoveElement
<1>8. /\ Cardinality(Holding({c}) \ {r}) \in Nat /\ Cardinality(Holding(Conns) \ {r}) \in Nat
  BY <1>7, FS_CardinalityType
<1>9. /\ reqSem[c] = Cardinality(Holding({c})) /\ serverSem = Cardinality(Holding(Conns))
      /\ reqSem \in [Conns -> Nat] /\ serverSem \in Nat
      /\ \A d \in Conns : reqSem[d] = Cardinality(Holding({d}))
      /\ MaxConcurrentRequests > 0 => \A d \in Conns : reqSem[d] <= MaxConcurrentRequests
      /\ MaxServerConcurrentRequests > 0 => serverSem <= MaxServerConcurrentRequests
  BY <1>0, <1>2, SlotsAre DEF TypeOK
<1>10. /\ reqSem'[c] = reqSem[c] - 1 /\ reqSem'[c] \in Nat
       /\ \A d \in Conns : d # c => reqSem'[d] = reqSem[d]
       /\ serverSem' = serverSem - 1 /\ serverSem' \in Nat
  BY <1>1, <1>2, <1>7, <1>8, <1>9
<1>11. SlotTypes'
  BY <1>1, <1>2, <1>9, <1>10 DEF SlotTypes
<1>12. SlotsMatchRuns'
  <2>1. \A d \in Conns : reqSem'[d] = Cardinality(Holding({d})')
    BY <1>6, <1>7, <1>9, <1>10
  <2>2. serverSem' = Cardinality(Holding(Conns)')
    BY <1>6, <1>7, <1>9, <1>10
  <2>3. MaxConcurrentRequests > 0 => \A d \in Conns : reqSem'[d] <= MaxConcurrentRequests
    <3> SUFFICES ASSUME MaxConcurrentRequests > 0, NEW d \in Conns
                 PROVE  reqSem'[d] <= MaxConcurrentRequests
      OBVIOUS
    <3>1. reqSem[d] \in Nat /\ reqSem[d] <= MaxConcurrentRequests
      BY <1>9
    <3> QED
      BY <1>10, <3>1, BoundsAssumption
  <2>4. MaxServerConcurrentRequests > 0 => serverSem' <= MaxServerConcurrentRequests
    BY <1>9, <1>10, BoundsAssumption
  <2> QED
    BY <2>1, <2>2, <2>3, <2>4 DEF SlotsMatchRuns, Holding
<1>13. db' \in 0..MaxVersion /\ db <= db' /\ exec'[r].ver <= db'
  BY <1>0, <1>3, <1>4, BoundsAssumption DEF TypeOK, OwedKnown, OnlyMoves
<1>14. \A d \in Conns, i \in SubIds, t \in {r, r} : ~ Answering(t, d, i)
  BY <1>1 DEF Answering, ClientLive
<1>15. \A d \in Conns, i \in SubIds, t \in {r, r} : Delivers(t, d, i) => Delivers(r, d, i)'
  BY <1>1, <1>2, <1>4 DEF Delivers, Carrying, DeferredTo
<1>16. exec' \in [Runs -> Exec] /\ (\A t \in Runs : t # r => exec'[t] = exec[t])
       /\ exec[r].pc # "starting"
  BY <1>1, <1>3 DEF Elsewhere
<1> QED
  BY <1>1, <1>5, <1>11, <1>12, <1>13, <1>14, <1>15, <1>16, StartsInv

(* The execution a frame starts. *)
Started(c, i, type, p, step) ==
    [Idle EXCEPT !.kind = type, !.conn = c, !.id = i, !.params = p, !.pc = step]

(* A frame that starts a run starts it for the ID it names. *)
LEMMA DispatchStarts ==
    ASSUME NEW c \in Conns, NEW i, NEW type, NEW p, NEW step \in {"handler", "starting"},
           \/ type = "subscribe" /\ i \in SubIds /\ p \in Params
           \/ type = "request" /\ i \in ReqIds /\ p = None
    PROVE  /\ Started(c, i, type, p, step) \in Exec
           /\ Started(c, i, type, p, step).kind = type
           /\ Started(c, i, type, p, step).conn = c
           /\ Started(c, i, type, p, step).id = i
           /\ Started(c, i, type, p, step).params = p
           /\ Started(c, i, type, p, step).pc = step
           /\ Started(c, i, type, p, step).ver = 0
           /\ Started(c, i, type, p, step).rq = {}
           /\ Started(c, i, type, p, step).toRefresh = {}
           /\ Started(c, i, type, p, step).keys = {}
<1>1. i \in Ids /\ type \in Kinds /\ step \in Steps /\ p \in Params \cup {None}
  BY DEF Ids, Kinds, Steps
<1>2. Idle \in Exec /\ Idle.ver = 0 /\ Idle.rq = {} /\ Idle.toRefresh = {} /\ Idle.keys = {}
  BY IdleExec
<1> QED
  BY <1>1, <1>2 DEF Exec, Started

(* The slots after a run of connection c has started. *)
LEMMA SlotTaken ==
    ASSUME TypeOK, SlotsMatchRuns, NEW c \in Conns, NEW r \in Runs, SlotFree(c), ~ Holds(r),
           Holds(r)', exec'[r].conn = c, \A t \in Runs : t # r => exec'[t] = exec[t],
           reqSem' = [reqSem EXCEPT ![c] = @ + 1], serverSem' = serverSem + 1
    PROVE  SlotTypes' /\ SlotsMatchRuns'
<1>1. /\ r \notin Holding({c}) /\ r \notin Holding(Conns)
      /\ Holding({c})' = Holding({c}) \cup {r} /\ Holding(Conns)' = Holding(Conns) \cup {r}
      /\ \A d \in Conns : d # c => Holding({d})' = Holding({d})
  BY DEF Holding, Holds, ClientKinds
<1>2. /\ Cardinality(Holding({c}) \cup {r}) = Cardinality(Holding({c})) + 1
      /\ Cardinality(Holding(Conns) \cup {r}) = Cardinality(Holding(Conns)) + 1
  BY <1>1, HoldingFinite, FS_AddElement
<1>3. /\ serverSem = Cardinality(Holding(Conns))
      /\ reqSem \in [Conns -> Nat] /\ serverSem \in Nat
      /\ \A d \in Conns : reqSem[d] = Cardinality(Holding({d}))
      /\ MaxConcurrentRequests > 0 => \A d \in Conns : reqSem[d] <= MaxConcurrentRequests
  BY SlotsAre DEF TypeOK
<1>4. /\ reqSem'[c] = reqSem[c] + 1 /\ reqSem'[c] \in Nat
      /\ \A d \in Conns : d # c => reqSem'[d] = reqSem[d]
      /\ serverSem' = serverSem + 1 /\ serverSem' \in Nat
  BY <1>3
<1>5. \A d \in Conns : reqSem'[d] = Cardinality(Holding({d})')
  BY <1>1, <1>2, <1>3, <1>4
<1>6. serverSem' = Cardinality(Holding(Conns)')
  BY <1>1, <1>2, <1>3, <1>4
<1>7. ASSUME MaxConcurrentRequests > 0, NEW d \in Conns
      PROVE  reqSem'[d] <= MaxConcurrentRequests
  <2>1. reqSem[d] \in Nat /\ reqSem[d] <= MaxConcurrentRequests
        /\ reqSem[c] \in Nat /\ reqSem[c] < MaxConcurrentRequests
    BY <1>3, <1>7 DEF SlotFree
  <2> QED
    BY <1>4, <2>1, BoundsAssumption
<1>8. MaxServerConcurrentRequests > 0 => serverSem' <= MaxServerConcurrentRequests
  BY <1>3, <1>4, BoundsAssumption DEF SlotFree
<1>9. SlotTypes'
  BY <1>3, <1>4 DEF SlotTypes
<1> QED
  BY <1>5, <1>6, <1>7, <1>8, <1>9 DEF SlotsMatchRuns, Holding

(* A run that a frame starts holds its ID, with a live context: it is going *)
(* to answer, and to deliver what its ID is owed.                           *)
LEMMA DispatchInvKept ==
    ASSUME DispatchInv, [Next]_vars, NEW c \in Conns, NEW i, NEW type, NEW p, NEW r \in Runs,
           \/ type = "subscribe" /\ i \in SubIds /\ p \in Params
           \/ type = "request" /\ i \in ReqIds /\ p = None,
           Dispatch(c, i, type, p, r)
    PROVE  DispatchInv'
<1>0. /\ ComponentsInv /\ ExecInv /\ TypeOK /\ OutTypeOK /\ RunsOK /\ ReadersOK /\ SlotsMatchRuns
      /\ OwedKnown /\ ObjHome /\ AnswerDue /\ TriggerDue /\ i \in Ids
  BY DEF DispatchInv, ExecInv, Ids
<1>1. /\ UNCHANGED <<smVars, db, outVars, owed>>
      /\ reader[c] = ReaderIdle /\ SlotFree(c) /\ exec[r].pc = "idle"
      /\ CT!registerRequest(c, i, r)
      /\ reqSem' = [reqSem EXCEPT ![c] = @ + 1] /\ serverSem' = serverSem + 1
      /\ wanted' = [wanted EXCEPT ![c][i] = type = "subscribe"]
  BY SameTableOps DEF Dispatch, Receive, IsNext, Free, At
<1>2. /\ exec[r] = Idle /\ ~ Holds(r) /\ run[r].status = "new" /\ ctx[r] = "live"
      /\ \A d \in Conns, j \in SubIds : ~ Answering(r, d, j) /\ ~ Delivers(r, d, j)
  BY <1>0, <1>1, IdleFacts
<1>3. /\ ~ closed[c] => CT!Stored(c, i, r, FALSE)
      /\ closed[c] => /\ run'[r].status = "live" /\ run'[r].conn = c
                      /\ run'[r].id = i /\ run'[r].refresh = FALSE
                      /\ requests' = requests /\ CT!Alone(r)
  BY <1>0, <1>1, CT!RequestEffect, InstanceAssumptions DEF ComponentsInv
<1>4. /\ run'[r].status = "live" /\ run'[r].conn = c /\ run'[r].id = i
      /\ run'[r].refresh = FALSE /\ found' = found
      /\ \A q \in Runs : q # r => run'[q] = run[q] /\ ctx'[q] = ctx[q]
      /\ ~ closed[c] => CT!holder(c, i)' = r /\ ctx'[r] = "live"
      /\ \A d \in Conns, j \in Ids : closed[c] \/ <<d, j>> # <<c, i>> =>
            requests'[d][j] = requests[d][j] /\ CT!holder(d, j)' = CT!holder(d, j)
  BY <1>2, <1>3 DEF CT!Stored, CT!Alone, CT!holder
<1>5. /\ byConn' = byConn /\ obj' = obj /\ owed' = owed /\ db' = db /\ closed' = closed
      /\ wire' = wire /\ best' = best /\ failed' = failed
  BY <1>1 DEF smVars, outVars
<1>6. PICK step \in {"handler", "starting"} :
        /\ exec' = [exec EXCEPT ![r] = Started(c, i, type, p, step)]
        /\ reader' = [reader EXCEPT ![c] = IF step = "handler" THEN ReaderIdle
                                ELSE [step |-> "cancelOld", id |-> i, run |-> r]]
  <2>1. CASE victim'[r] = None
    BY <2>1 DEF Dispatch, Started
  <2>2. CASE victim'[r] # None
    BY <2>2 DEF Dispatch, Started
  <2> QED
    BY <2>1, <2>2
<1> DEFINE e == Started(c, i, type, p, step)
<1>7. /\ e \in Exec /\ e.kind = type /\ e.conn = c /\ e.id = i /\ e.params = p
      /\ e.pc = step /\ e.ver = 0 /\ e.rq = {} /\ e.toRefresh = {} /\ e.keys = {}
  <2>1. step \in {"handler", "starting"}
    BY <1>6
  <2> QED
    BY <2>1, DispatchStarts
<1> HIDE DEF e
<1>8. /\ exec' \in [Runs -> Exec] /\ exec'[r] = e
      /\ \A t \in Runs : t # r => exec'[t] = exec[t]
  BY <1>0, <1>6, <1>7 DEF TypeOK, e
<1>9. [SM!SubNext]_smVars /\ [RT!Next]_rtVars /\ ComponentsInv'
  BY <1>0, IndexStep, TableStep, ComponentsKept
<1>10. RunsOK'
  <2>1. RunOK(r)'
    BY <1>4, <1>7, <1>8
       DEF RunOK, IdleRun, ClientRun, RefreshRun, BackgroundRun, Home, ClientKinds,
           ClientLive, ClientGone
  <2>2. ASSUME NEW t \in Runs, t # r PROVE RunOK(t)'
    BY <1>0, <1>4, <1>8, <1>9, <2>2, RunKept DEF RunsOK
  <2> QED
    BY <2>1, <2>2 DEF RunsOK
<1>11. SlotTypes' /\ SlotsMatchRuns'
  <2>1. Holds(r)' /\ exec'[r].conn = c
    BY <1>7, <1>8 DEF Holds, ClientKinds
  <2> QED
    BY <1>0, <1>1, <1>2, <1>8, <2>1, SlotTaken
<1>12. /\ reader'[c] = (IF step = "handler" THEN ReaderIdle
                        ELSE [step |-> "cancelOld", id |-> i, run |-> r])
       /\ \A d \in Conns : d # c => reader'[d] = reader[d]
  BY <1>0, <1>6 DEF TypeOK
<1>13. /\ wanted'[c][i] = (type = "subscribe") /\ wanted' \in [Conns -> [Ids -> BOOLEAN]]
       /\ \A d \in Conns, j \in Ids : <<d, j>> # <<c, i>> => wanted'[d][j] = wanted[d][j]
  BY <1>0, <1>1 DEF OutTypeOK
<1>14. TypeOK' /\ OutTypeOK'
  <2>1. ReaderIdle \in [step : {"idle", "cancelOld", "cancel", "cancelThenDrop", "drop"},
                        id : Ids \cup {None}, run : Runs \cup {None}]
    BY DEF ReaderIdle
  <2>2. [step |-> "cancelOld", id |-> i, run |-> r] \in
           [step : {"idle", "cancelOld", "cancel", "cancelThenDrop", "drop"},
            id : Ids \cup {None}, run : Runs \cup {None}]
    BY <1>0
  <2>3. reader' \in [Conns -> [step : {"idle", "cancelOld", "cancel", "cancelThenDrop", "drop"},
                               id : Ids \cup {None}, run : Runs \cup {None}]]
    BY <1>0, <1>6, <2>1, <2>2 DEF TypeOK
  <2> QED
    BY <1>0, <1>5, <1>8, <1>11, <1>13, <2>3 DEF TypeOK, OutTypeOK, SlotTypes
<1>15. ReadersOK'
  <2> SUFFICES ASSUME NEW d \in Conns PROVE ReaderOK(d)'
    BY DEF ReadersOK
  <2>1. found[d] # None => found[d] \in Runs /\ run[found[d]].status # "new"
    BY <1>0, TableFacts
  <2>2. ReaderOK(d)
    BY <1>0 DEF ReadersOK
  <2>3. CASE d # c
    <3>1. \A j \in SubIds : wanted'[d][j] = wanted[d][j]
      BY <1>13, <2>3 DEF Ids
    <3> QED
      BY <1>1, <1>2, <1>4, <1>8, <1>12, <2>1, <2>2, <2>3, <3>1 DEF ReaderOK, ReaderIdle
  <2>4. CASE d = c
    <3>1. found[c] = None
      BY <1>1, <2>2, <2>4 DEF ReaderOK, ReaderIdle
    <3>2. CASE step = "handler"
      BY <1>4, <1>12, <2>4, <3>1, <3>2 DEF ReaderOK, ReaderIdle
    <3>3. CASE step = "starting"
      <4>1. reader'[c].step = "cancelOld" /\ reader'[c].run = r
        BY <1>12, <3>3
      <4> QED
        BY <1>4, <1>7, <1>8, <2>4, <3>1, <3>3, <4>1 DEF ReaderOK
    <3> QED
      BY <3>2, <3>3
  <2> QED
    BY <2>3, <2>4
<1>16. ObjHome' /\ OwedKnown'
  <2>1. \A s \in Runs : exec'[s].ver <= db
    BY <1>0, <1>7, <1>8, BoundsAssumption DEF OwedKnown, TypeOK
  <2> QED
    BY <1>0, <1>5, <2>1 DEF ObjHome, OwedKnown
<1>17. AnswerDue'
  <2> SUFFICES ASSUME NEW d \in Conns, NEW j \in SubIds, wanted'[d][j], ~ closed'[d],
                      wire'[d][j].type = "none"
               PROVE  \E q \in Runs : Answering(q, d, j)'
    BY DEF AnswerDue
  <2>0. j \in Ids /\ j \notin ReqIds
    BY IdsAssumption DEF Ids
  <2>1. CASE <<d, j>> # <<c, i>>
    <3>1. PICK q \in Runs : Answering(q, d, j)
      BY <1>0, <1>5, <1>13, <2>0, <2>1 DEF AnswerDue
    <3>2. q # r /\ exec'[q] = exec[q] /\ ctx'[q] = ctx[q]
      BY <1>2, <1>4, <1>8, <3>1
    <3>3. Answering(q, d, j)'
      BY <1>4, <2>0, <2>1, <3>1, <3>2 DEF Answering
    <3> QED
      BY <3>3
  <2>2. CASE d = c /\ j = i
    <3>1. Answering(r, c, i)'
      BY <1>4, <1>5, <1>7, <1>8, <2>0, <2>2 DEF Answering, ClientLive
    <3> QED
      BY <2>2, <3>1
  <2> QED
    BY <2>1, <2>2
<1>18. TriggerDue'
  <2> SUFFICES ASSUME NEW d \in Conns, NEW j \in SubIds, Due(d, j)'
               PROVE  \E q \in Runs : Delivers(q, d, j)'
    BY DEF TriggerDue
  <2>0. j \in Ids /\ j \notin ReqIds
    BY IdsAssumption DEF Ids
  <2>1. CASE <<d, j>> # <<c, i>>
    <3>0. ~ Leaving(d, j)
      <4>1. CASE d = c
        BY <1>1, <4>1 DEF Leaving, ReaderIdle
      <4>2. CASE d # c
        BY <1>12, <4>2 DEF Leaving, Due
      <4> QED
        BY <4>1, <4>2
    <3>1. PICK q \in Runs : Delivers(q, d, j)
      BY <1>0, <1>5, <3>0 DEF TriggerDue, Due
    <3>2. q # r /\ exec'[q] = exec[q] /\ ctx'[q] = ctx[q]
      BY <1>2, <1>4, <1>8, <3>1
    <3>3. Delivers(q, d, j)'
      <4>1. CASE byConn[d][j] \in exec[q].toRefresh
        BY <1>5, <3>2, <4>1 DEF Delivers
      <4>2. CASE DeferredTo(q, d, j)
        BY <1>4, <2>0, <2>1, <4>2 DEF Delivers, DeferredTo
      <4>3. CASE Carrying(q, d, j, owed[byConn[d][j]])
        BY <1>4, <1>5, <2>0, <2>1, <3>2, <4>3 DEF Delivers, Carrying
      <4> QED
        BY <3>1, <4>1, <4>2, <4>3 DEF Delivers
    <3> QED
      BY <3>3
  <2>2. CASE d = c /\ j = i
    <3>1. ~ closed[c]
      BY <1>5, <2>2 DEF Due
    <3>2. Carrying(r, c, i, owed[byConn[c][i]])'
      BY <1>4, <1>7, <1>8, <2>0, <2>2, <3>1 DEF Carrying
    <3> QED
      BY <2>2, <3>2 DEF Delivers
  <2> QED
    BY <2>1, <2>2
<1> QED
  BY <1>9, <1>10, <1>11, <1>14, <1>15, <1>16, <1>17, <1>18 DEF DispatchInv, ExecInv

-----------------------------------------------------------------------------
(* The read loops and the close. *)

ReaderType == [step : {"idle", "cancelOld", "cancel", "cancelThenDrop", "drop"},
               id : Ids \cup {None}, run : Runs \cup {None}]

(* The run that holds i keeps its context. *)
CtxKept(c, i) ==
    CT!holder(c, i) \in Runs /\ ctx[CT!holder(c, i)] = "live" =>
        ctx'[CT!holder(c, i)] = "live"

(* What is left to show of a step in which no run moves. *)
LEMMA LoopInv ==
    ASSUME DispatchInv, [Next]_vars,
           UNCHANGED <<exec, run, requests, obj, slotVars, db, owed>>, OutTypes',
           reader' \in [Conns -> ReaderType], wanted' \in [Conns -> [Ids -> BOOLEAN]],
           ReadersOK',
           \A c \in Conns, i \in SubIds :
              wanted'[c][i] /\ ~ closed'[c] /\ wire'[c][i].type = "none"
              => /\ wanted[c][i] /\ ~ closed[c] /\ wire[c][i].type = "none"
                 /\ CtxKept(c, i),
           \A c \in Conns, i \in SubIds :
              Due(c, i)' => Due(c, i) /\ byConn'[c][i] = byConn[c][i] /\ CtxKept(c, i)
    PROVE  DispatchInv'
<1>0. /\ ComponentsInv /\ ExecInv /\ TypeOK /\ OutTypeOK /\ RunsOK /\ OwedKnown /\ ObjHome
      /\ SlotsMatchRuns /\ AnswerDue /\ TriggerDue
  BY DEF DispatchInv, ExecInv
<1>1. [SM!SubNext]_smVars /\ [RT!Next]_rtVars /\ ComponentsInv'
  BY <1>0, IndexStep, TableStep, ComponentsKept
<1>2. \A c, i : CT!holder(c, i)' = CT!holder(c, i)
  BY DEF CT!holder
<1>3. RunsOK'
  BY <1>0, <1>1, RunKept DEF RunsOK
<1>4. TypeOK' /\ OutTypeOK' /\ ObjHome' /\ OwedKnown'
  BY <1>0 DEF TypeOK, OutTypeOK, OutTypes, ObjHome, OwedKnown, slotVars, ReaderType
<1>5. SlotsMatchRuns'
  BY <1>0, SlotsKept DEF Holds
<1>6. AnswerDue'
  <2>1. \A c \in Conns, i \in SubIds, q \in Runs :
           CtxKept(c, i) /\ Answering(q, c, i) => Answering(q, c, i)'
    BY <1>2 DEF CtxKept, Answering
  <2> QED
    BY <1>0, <2>1, AnswerKept
<1>7. TriggerDue'
  <2>1. ASSUME NEW c \in Conns, NEW i \in SubIds, NEW q \in Runs, Delivers(q, c, i),
               byConn'[c][i] = byConn[c][i], CtxKept(c, i)
        PROVE  Delivers(q, c, i)'
    BY <1>2, <2>1 DEF CtxKept, Delivers, Carrying, DeferredTo
  <2> QED
    BY <1>0, <2>1, TriggerKept
<1> QED
  BY <1>1, <1>3, <1>4, <1>5, <1>6, <1>7 DEF DispatchInv, ExecInv

(* A frame beyond a cap is answered, by its error. *)
LEMMA RejectFrameInv ==
    ASSUME DispatchInv, [Next]_vars, NEW c \in Conns, NEW i \in Ids, NEW type,
           RejectFrame(c, i, type)
    PROVE  DispatchInv'
<1>0. ComponentsInv /\ TypeOK /\ OutTypeOK /\ ReadersOK
  BY DEF DispatchInv, ExecInv
<1>1. /\ UNCHANGED <<smVars, rtVars, exec, reader, slotVars, db, owed>>
      /\ SendError(c, i) /\ reader[c] = ReaderIdle
      /\ wanted' = [wanted EXCEPT ![c][i] = type = "subscribe"]
  BY DEF RejectFrame, Receive
<1>2. /\ closed' = closed /\ byConn' = byConn /\ obj' = obj /\ run' = run /\ ctx' = ctx
      /\ requests' = requests /\ found' = found /\ reader' = reader /\ exec' = exec
      /\ owed' = owed
  BY <1>1 DEF smVars, rtVars
<1>3. /\ OutTypes' /\ SentKept
      /\ ~ closed[c] => wire'[c][i].type # "none" /\ failed'[c][i]
  BY <1>0, <1>1, ErrorSent
<1>4. /\ wanted' \in [Conns -> [Ids -> BOOLEAN]]
      /\ \A d \in Conns, j \in Ids : <<d, j>> # <<c, i>> => wanted'[d][j] = wanted[d][j]
  BY <1>0, <1>1 DEF OutTypeOK
<1>5. ReadersOK'
  <2> SUFFICES ASSUME NEW d \in Conns PROVE ReaderOK(d)'
    BY DEF ReadersOK
  <2>1. ReaderOK(d)
    BY <1>0 DEF ReadersOK
  <2>2. CASE d = c
    BY <1>1, <1>2, <2>1, <2>2 DEF ReaderOK, ReaderIdle
  <2>3. CASE d # c
    <3>1. \A j \in SubIds : wanted'[d][j] = wanted[d][j]
      BY <1>4, <2>3 DEF Ids
    <3> QED
      BY <1>2, <2>1, <3>1 DEF ReaderOK, ReaderIdle
  <2> QED
    BY <2>2, <2>3
<1>6. \A d \in Conns, j \in SubIds :
         wanted'[d][j] /\ ~ closed'[d] /\ wire'[d][j].type = "none"
         => wanted[d][j] /\ ~ closed[d] /\ wire[d][j].type = "none" /\ CtxKept(d, j)
  BY <1>2, <1>3, <1>4 DEF SentKept, CtxKept, Ids
<1>7. ASSUME NEW d \in Conns, NEW j \in SubIds, Due(d, j)'
      PROVE  Due(d, j) /\ byConn'[d][j] = byConn[d][j] /\ CtxKept(d, j)
  <2>1. /\ best[d][j] \in 0..MaxVersion /\ best'[d][j] \in 0..MaxVersion
        /\ best[d][j] <= best'[d][j] /\ (failed[d][j] => failed'[d][j])
    BY <1>0, <1>3 DEF OutTypeOK, OutTypes, SentKept, Ids
  <2>2. /\ byConn[d][j] # None /\ ~ closed[d] /\ ~ failed'[d][j] /\ ~ Leaving(d, j)
        /\ best'[d][j] < owed[byConn[d][j]]
    BY <1>2, <1>7 DEF Due, Leaving
  <2>3. owed[byConn[d][j]] \in 0..MaxVersion
    BY <1>0, <2>2, IndexFacts DEF TypeOK, Ids
  <2>4. Due(d, j)
    BY <2>1, <2>2, <2>3, BoundsAssumption DEF Due
  <2> QED
    BY <1>2, <2>4 DEF CtxKept
<1>8. reader' \in [Conns -> ReaderType]
  BY <1>0, <1>2 DEF TypeOK, ReaderType
<1> QED
  BY <1>1, <1>2, <1>3, <1>4, <1>5, <1>6, <1>7, <1>8, LoopInv

(* A cancel or an unsubscribe remembers the run it found; an unsubscribe is *)
(* the end of what its ID is owed.                                          *)
LEMMA CancelFrameInv ==
    ASSUME DispatchInv, [Next]_vars, NEW c \in Conns, NEW i, NEW type,
           \/ type = "unsubscribe" /\ i \in SubIds
           \/ type = "cancel" /\ i \in ReqIds,
           CancelFrame(c, i, type)
    PROVE  DispatchInv'
<1>0. ComponentsInv /\ TypeOK /\ OutTypeOK /\ ReadersOK /\ i \in Ids
  BY DEF DispatchInv, ExecInv, Ids
<1>1. /\ UNCHANGED <<smVars, exec, slotVars, db, outVars, owed>>
      /\ reader[c] = ReaderIdle
      /\ wanted' = [wanted EXCEPT ![c][i] = @ /\ type = "cancel"]
      /\ found' = [found EXCEPT ![c] = CT!holder(c, i)]
      /\ UNCHANGED <<requests, run, ctx>>
  BY DEF CancelFrame, Receive, RT!FindRequest, RT!holder, CT!holder
<1>2. /\ closed' = closed /\ byConn' = byConn /\ obj' = obj /\ exec' = exec
      /\ owed' = owed /\ wire' = wire /\ best' = best /\ failed' = failed
      /\ run' = run /\ ctx' = ctx /\ requests' = requests
  BY <1>1 DEF smVars, outVars
<1>3. /\ OutTypes'
      /\ wanted' \in [Conns -> [Ids -> BOOLEAN]]
      /\ \A d \in Conns, j \in Ids : wanted'[d][j] => wanted[d][j]
      /\ type = "unsubscribe" => ~ wanted'[c][i]
  BY <1>0, <1>1, <1>2 DEF OutTypeOK, OutTypes
<1>4. found'[c] = CT!holder(c, i) /\ \A d \in Conns : d # c => found'[d] = found[d]
  BY <1>0, <1>1, TableFacts
<1>5. PICK f \in ReaderType :
        /\ reader' = [reader EXCEPT ![c] = f]
        /\ \/ f = ReaderIdle /\ found'[c] = None
           \/ f.step = "drop" /\ type = "unsubscribe" /\ found'[c] = None /\ f.id = i
           \/ f.step = "cancel" /\ type = "cancel" /\ found'[c] # None /\ f.id = i
           \/ f.step = "cancelThenDrop" /\ type = "unsubscribe" /\ found'[c] # None /\ f.id = i
  <2>1. CASE found'[c] = None /\ type = "cancel"
    <3>1. reader' = [reader EXCEPT ![c] = ReaderIdle]
      BY <2>1 DEF CancelFrame, ReaderIdle
    <3>2. ReaderIdle \in ReaderType
      BY DEF ReaderIdle, ReaderType
    <3> QED
      BY <2>1, <3>1, <3>2
  <2>2. CASE found'[c] = None /\ type = "unsubscribe"
    <3> DEFINE f == [step |-> "drop", id |-> i, run |-> None]
    <3>1. reader' = [reader EXCEPT ![c] = f]
      BY <2>2 DEF CancelFrame
    <3>2. f \in ReaderType /\ f.step = "drop" /\ f.id = i
      BY <1>0 DEF ReaderType
    <3> HIDE DEF f
    <3> QED
      BY <2>2, <3>1, <3>2
  <2>3. CASE found'[c] # None /\ type = "cancel"
    <3> DEFINE f == [step |-> "cancel", id |-> i, run |-> None]
    <3>1. reader' = [reader EXCEPT ![c] = f]
      BY <2>3 DEF CancelFrame
    <3>2. f \in ReaderType /\ f.step = "cancel" /\ f.id = i
      BY <1>0 DEF ReaderType
    <3> HIDE DEF f
    <3> QED
      BY <2>3, <3>1, <3>2
  <2>4. CASE found'[c] # None /\ type = "unsubscribe"
    <3> DEFINE f == [step |-> "cancelThenDrop", id |-> i, run |-> None]
    <3>1. reader' = [reader EXCEPT ![c] = f]
      BY <2>4 DEF CancelFrame
    <3>2. f \in ReaderType /\ f.step = "cancelThenDrop" /\ f.id = i
      BY <1>0 DEF ReaderType
    <3> HIDE DEF f
    <3> QED
      BY <2>4, <3>1, <3>2
  <2> QED
    BY <2>1, <2>2, <2>3, <2>4
<1>6. /\ reader' \in [Conns -> ReaderType] /\ reader'[c] = f
      /\ \A d \in Conns : d # c => reader'[d] = reader[d]
  BY <1>0, <1>5 DEF TypeOK, ReaderType
<1>7. ReadersOK'
  <2> SUFFICES ASSUME NEW d \in Conns PROVE ReaderOK(d)'
    BY DEF ReadersOK
  <2>1. ReaderOK(d)
    BY <1>0 DEF ReadersOK
  <2>2. CASE d = c
    <3>1. found'[c] # None => run[found'[c]].conn = c /\ run[found'[c]].id = i
      BY <1>0, <1>4, TableFacts
    <3>2. CASE f = ReaderIdle
      BY <1>2, <1>5, <1>6, <2>2, <3>1, <3>2 DEF ReaderOK, ReaderIdle
    <3>3. CASE f.step \in {"drop", "cancel", "cancelThenDrop"}
      BY <1>2, <1>3, <1>5, <1>6, <2>2, <3>1, <3>3 DEF ReaderOK, ReaderIdle
    <3> QED
      BY <1>5, <3>2, <3>3
  <2>3. CASE d # c
    <3>1. \A j \in SubIds : wanted'[d][j] => wanted[d][j]
      BY <1>3 DEF Ids
    <3> QED
      BY <1>2, <1>4, <1>6, <2>1, <2>3, <3>1 DEF ReaderOK, ReaderIdle
  <2> QED
    BY <2>2, <2>3
<1>8. \A d \in Conns, j \in SubIds :
         wanted'[d][j] /\ ~ closed'[d] /\ wire'[d][j].type = "none"
         => wanted[d][j] /\ ~ closed[d] /\ wire[d][j].type = "none" /\ CtxKept(d, j)
  BY <1>2, <1>3 DEF CtxKept, Ids
<1>9. ASSUME NEW d \in Conns, NEW j \in SubIds, Due(d, j)'
      PROVE  Due(d, j) /\ byConn'[d][j] = byConn[d][j] /\ CtxKept(d, j)
  <2>1. ~ Leaving(d, j)
    <3>1. CASE d = c
      BY <1>1, <3>1 DEF Leaving, ReaderIdle
    <3>2. CASE d # c
      BY <1>6, <1>9, <3>2 DEF Leaving, Due
    <3> QED
      BY <3>1, <3>2
  <2> QED
    BY <1>2, <1>9, <2>1 DEF Due, CtxKept
<1> QED
  BY <1>1, <1>2, <1>3, <1>6, <1>7, <1>8, <1>9, LoopInv

(* The run a frame cancels answers nobody who still wants an answer. *)
LEMMA CancelFoundInv ==
    ASSUME DispatchInv, [Next]_vars, NEW c \in Conns, CancelFoundRun(c)
    PROVE  DispatchInv'
<1>0. ComponentsInv /\ TypeOK /\ OutTypeOK /\ ReadersOK /\ ReaderOK(c)
  BY DEF DispatchInv, ExecInv, ReadersOK
<1>1. /\ UNCHANGED <<smVars, exec, slotVars, db, outVars, owed, wanted>>
      /\ reader[c].step \in {"cancel", "cancelThenDrop"} /\ found[c] # None
      /\ found' = [found EXCEPT ![c] = None]
      /\ \A q \in Runs : q # found[c] => ctx'[q] = ctx[q]
      /\ UNCHANGED <<requests, run>>
  BY DEF CancelFoundRun, RT!CancelFound, RT!Cancelled
<1>2. /\ closed' = closed /\ byConn' = byConn /\ obj' = obj /\ exec' = exec
      /\ owed' = owed /\ wire' = wire /\ best' = best /\ failed' = failed
      /\ run' = run /\ requests' = requests /\ wanted' = wanted
  BY <1>1 DEF smVars, outVars
<1>3. OutTypes' /\ wanted' \in [Conns -> [Ids -> BOOLEAN]]
  BY <1>0, <1>2 DEF OutTypeOK, OutTypes
<1>4. found'[c] = None /\ \A d \in Conns : d # c => found'[d] = found[d]
  BY <1>0, <1>1, TableFacts
<1>5. PICK f \in ReaderType :
        /\ reader' = [reader EXCEPT ![c] = f]
        /\ \/ reader[c].step = "cancel" /\ f = ReaderIdle
           \/ reader[c].step = "cancelThenDrop" /\ f.step = "drop" /\ f.id = reader[c].id
  <2>1. CASE reader[c].step = "cancel"
    <3>1. reader' = [reader EXCEPT ![c] = ReaderIdle]
      BY <2>1 DEF CancelFoundRun
    <3>2. ReaderIdle \in ReaderType
      BY DEF ReaderIdle, ReaderType
    <3> QED
      BY <2>1, <3>1, <3>2
  <2>2. CASE reader[c].step = "cancelThenDrop"
    <3> DEFINE f == [reader[c] EXCEPT !.step = "drop"]
    <3>1. reader' = [reader EXCEPT ![c] = f]
      BY <2>2 DEF CancelFoundRun
    <3>2. reader[c] \in ReaderType
      BY <1>0 DEF TypeOK, ReaderType
    <3>3. f \in ReaderType /\ f.step = "drop" /\ f.id = reader[c].id
      BY <3>2 DEF ReaderType
    <3> HIDE DEF f
    <3> QED
      BY <2>2, <3>1, <3>3
  <2> QED
    BY <1>1, <2>1, <2>2
<1>6. /\ reader' \in [Conns -> ReaderType] /\ reader'[c] = f
      /\ \A d \in Conns : d # c => reader'[d] = reader[d]
  BY <1>0, <1>5 DEF TypeOK, ReaderType
<1>7. ReadersOK'
  <2> SUFFICES ASSUME NEW d \in Conns PROVE ReaderOK(d)'
    BY DEF ReadersOK
  <2>1. ReaderOK(d)
    BY <1>0 DEF ReadersOK
  <2>2. CASE d = c
    <3>1. CASE f = ReaderIdle
      BY <1>2, <1>4, <1>6, <2>2, <3>1 DEF ReaderOK, ReaderIdle
    <3>2. CASE reader[c].step = "cancelThenDrop" /\ f.step = "drop" /\ f.id = reader[c].id
      BY <1>0, <1>2, <1>4, <1>6, <2>2, <3>2 DEF ReaderOK, ReaderIdle
    <3> QED
      BY <1>5, <3>1, <3>2
  <2>3. CASE d # c
    BY <1>2, <1>4, <1>6, <2>1, <2>3 DEF ReaderOK, ReaderIdle
  <2> QED
    BY <2>2, <2>3
<1>8. ASSUME NEW d \in Conns, NEW j \in SubIds, ~ CtxKept(d, j)
      PROVE  d = c /\ j = reader[c].id /\ reader[c].step = "cancelThenDrop"
  <2>1. j \in Ids /\ j \notin ReqIds
    BY IdsAssumption DEF Ids
  <2>2. CT!holder(d, j) = found[c]
    BY <1>1, <1>8 DEF CtxKept
  <2>3. run[found[c]].conn = d /\ run[found[c]].id = j
    BY <1>0, <1>1, <2>1, <2>2, TableFacts
  <2> QED
    BY <1>0, <1>1, <2>1, <2>3 DEF ReaderOK
<1>9. \A d \in Conns, j \in SubIds :
         wanted'[d][j] /\ ~ closed'[d] /\ wire'[d][j].type = "none"
         => wanted[d][j] /\ ~ closed[d] /\ wire[d][j].type = "none" /\ CtxKept(d, j)
  BY <1>0, <1>2, <1>8 DEF ReaderOK
<1>10. ASSUME NEW d \in Conns, NEW j \in SubIds, Due(d, j)'
       PROVE  Due(d, j) /\ byConn'[d][j] = byConn[d][j] /\ CtxKept(d, j)
  <2>1. ~ Leaving(d, j)
    <3>1. CASE d = c
      BY <1>1, <1>5, <1>6, <1>10, <3>1 DEF Leaving, Due
    <3>2. CASE d # c
      BY <1>6, <1>10, <3>2 DEF Leaving, Due
    <3> QED
      BY <3>1, <3>2
  <2>2. CtxKept(d, j)
    BY <1>8, <2>1 DEF Leaving
  <2> QED
    BY <1>2, <1>10, <2>1, <2>2 DEF Due
<1> QED
  BY <1>1, <1>2, <1>3, <1>6, <1>7, <1>9, <1>10, LoopInv

(* The subscription an unsubscribe drops is owed nothing any more. *)
LEMMA UnsubscribeInv ==
    ASSUME DispatchInv, [Next]_vars, NEW c \in Conns, handleUnsubscribe(c)
    PROVE  DispatchInv'
<1>0. ComponentsInv /\ TypeOK /\ OutTypeOK /\ ReadersOK /\ ReaderOK(c)
  BY DEF DispatchInv, ExecInv, ReadersOK
<1>a. PICK i : i = reader[c].id
  OBVIOUS
<1>1. /\ UNCHANGED <<rtVars, exec, slotVars, db, outVars, owed, wanted>>
      /\ reader[c].step = "drop" /\ reader' = [reader EXCEPT ![c] = ReaderIdle]
      /\ SM!unregister(c, i)
  BY <1>a DEF handleUnsubscribe
<1>2. i \in SubIds /\ i \in Ids
  BY <1>0, <1>a, <1>1 DEF ReaderOK, Ids
<1>3. /\ obj' = obj /\ byConn'[c][i] = None
      /\ \A d \in Conns, j \in Ids : <<d, j>> # <<c, i>> => byConn'[d][j] = byConn[d][j]
  <2>1. CASE byConn[c][i] = None
    BY <1>1, <2>1 DEF SM!unregister, SM!has, SM!subVars
  <2>2. CASE byConn[c][i] # None
    <3>1. obj' = obj /\ byConn' = [byConn EXCEPT ![c][i] = None]
      BY <1>1, <2>2 DEF SM!unregister, SM!has
    <3> QED
      BY <1>0, <1>2, <3>1, IndexFacts
  <2> QED
    BY <2>1, <2>2
<1>4. /\ closed' = closed /\ run' = run /\ ctx' = ctx /\ requests' = requests /\ found' = found
      /\ exec' = exec /\ owed' = owed /\ wire' = wire /\ best' = best /\ failed' = failed
      /\ wanted' = wanted
  BY <1>1 DEF rtVars, outVars
<1>5. OutTypes' /\ wanted' \in [Conns -> [Ids -> BOOLEAN]]
  BY <1>0, <1>4 DEF OutTypeOK, OutTypes
<1>6. /\ reader' \in [Conns -> ReaderType] /\ reader'[c] = ReaderIdle
      /\ \A d \in Conns : d # c => reader'[d] = reader[d]
  <2>1. ReaderIdle \in ReaderType
    BY DEF ReaderIdle, ReaderType
  <2> QED
    BY <1>0, <1>1, <2>1 DEF TypeOK, ReaderType
<1>7. ReadersOK'
  <2> SUFFICES ASSUME NEW d \in Conns PROVE ReaderOK(d)'
    BY DEF ReadersOK
  <2>1. ReaderOK(d)
    BY <1>0 DEF ReadersOK
  <2>2. CASE d = c
    <3>1. found[c] = None
      BY <1>0, <1>1 DEF ReaderOK
    <3> QED
      BY <1>4, <1>6, <2>2, <3>1 DEF ReaderOK, ReaderIdle
  <2>3. CASE d # c
    BY <1>4, <1>6, <2>1, <2>3 DEF ReaderOK, ReaderIdle
  <2> QED
    BY <2>2, <2>3
<1>8. \A d \in Conns, j \in SubIds : CtxKept(d, j)
  BY <1>4 DEF CtxKept
<1>9. ASSUME NEW d \in Conns, NEW j \in SubIds, Due(d, j)'
      PROVE  Due(d, j) /\ byConn'[d][j] = byConn[d][j]
  <2>1. <<d, j>> # <<c, i>>
    BY <1>3, <1>9 DEF Due
  <2>2. byConn'[d][j] = byConn[d][j]
    BY <1>3, <2>1 DEF Ids
  <2>3. ~ Leaving(d, j)
    <3>1. CASE d = c
      BY <1>a, <2>1, <3>1 DEF Leaving
    <3>2. CASE d # c
      BY <1>6, <1>9, <3>2 DEF Leaving, Due
    <3> QED
      BY <3>1, <3>2
  <2> QED
    BY <1>4, <1>9, <2>2, <2>3 DEF Due
<1> QED
  BY <1>1, <1>3, <1>4, <1>5, <1>6, <1>7, <1>8, <1>9, LoopInv

(* A close ends runs of its own connection only. *)
LEMMA CloseInv ==
    ASSUME DispatchInv, [Next]_vars, NEW c \in Conns, closeWithCause(c)
    PROVE  DispatchInv'
<1>0. ComponentsInv /\ TypeOK /\ OutTypeOK /\ ReadersOK
  BY DEF DispatchInv, ExecInv
<1>1. /\ UNCHANGED <<exec, reader, slotVars, db, outVars, owed, wanted>>
      /\ UNCHANGED <<requests, run, found, byConn, obj>>
      /\ closed' = [closed EXCEPT ![c] = TRUE]
      /\ ctx' = RT!Cancelled({RT!holder(c, i) : i \in Ids}, "ErrConnectionClosed")
  BY DEF closeWithCause, RT!MarkClosed, SM!SubMarkClosed
<1>2. /\ exec' = exec /\ owed' = owed /\ wire' = wire /\ best' = best /\ failed' = failed
      /\ wanted' = wanted /\ reader' = reader
  BY <1>1 DEF outVars
<1>3. closed'[c] /\ \A d \in Conns : d # c => closed'[d] = closed[d]
  BY <1>0, <1>1, IndexFacts
<1>4. ASSUME NEW d \in Conns, NEW j \in SubIds, d # c PROVE CtxKept(d, j)
  <2> DEFINE h == CT!holder(d, j)
  <2> SUFFICES ASSUME h \in Runs PROVE ctx'[h] = ctx[h]
    BY DEF CtxKept
  <2>1. run[h].conn = d
    BY <1>0, TableFacts, NoneAssumption DEF Ids
  <2>2. \A i \in Ids : CT!holder(c, i) # h
    BY <1>0, <1>4, <2>1, TableFacts, NoneAssumption
  <2>3. h \notin {RT!holder(c, i) : i \in Ids}
    BY <2>2 DEF RT!holder, CT!holder
  <2> HIDE DEF h
  <2> QED
    BY <1>1, <2>3 DEF RT!Cancelled
<1>5. OutTypes' /\ wanted' \in [Conns -> [Ids -> BOOLEAN]] /\ reader' \in [Conns -> ReaderType]
  BY <1>0, <1>2 DEF OutTypeOK, OutTypes, TypeOK, ReaderType
<1>6. ReadersOK'
  BY <1>0, <1>1, <1>2 DEF ReadersOK, ReaderOK, ReaderIdle
<1>7. \A d \in Conns, j \in SubIds :
         wanted'[d][j] /\ ~ closed'[d] /\ wire'[d][j].type = "none"
         => wanted[d][j] /\ ~ closed[d] /\ wire[d][j].type = "none" /\ CtxKept(d, j)
  BY <1>2, <1>3, <1>4
<1>8. \A d \in Conns, j \in SubIds :
         Due(d, j)' => Due(d, j) /\ byConn'[d][j] = byConn[d][j] /\ CtxKept(d, j)
  BY <1>1, <1>2, <1>3, <1>4 DEF Due, Leaving
<1> QED
  BY <1>1, <1>2, <1>5, <1>6, <1>7, <1>8, LoopInv

(* The sweep of a closed connection takes its subscriptions away. *)
LEMMA SweepInv ==
    ASSUME DispatchInv, [Next]_vars, NEW c \in Conns, Sweep(c)
    PROVE  DispatchInv'
<1>0. ComponentsInv /\ TypeOK /\ OutTypeOK /\ ReadersOK
  BY DEF DispatchInv, ExecInv
<1>1. /\ UNCHANGED <<rtVars, exec, reader, slotVars, db, outVars, owed, wanted>>
      /\ closed[c] /\ obj' = obj
      /\ byConn' = [byConn EXCEPT ![c] = [i \in Ids |-> None]]
  BY DEF Sweep, SM!unregisterConn
<1>2. /\ exec' = exec /\ owed' = owed /\ wire' = wire /\ best' = best /\ failed' = failed
      /\ wanted' = wanted /\ reader' = reader /\ closed' = closed /\ run' = run /\ ctx' = ctx
      /\ requests' = requests /\ found' = found
  BY <1>1 DEF outVars, rtVars
<1>3. \A d \in Conns : d # c => byConn'[d] = byConn[d]
  BY <1>0, <1>1, IndexFacts
<1>4. OutTypes' /\ wanted' \in [Conns -> [Ids -> BOOLEAN]] /\ reader' \in [Conns -> ReaderType]
  BY <1>0, <1>2 DEF OutTypeOK, OutTypes, TypeOK, ReaderType
<1>5. ReadersOK'
  BY <1>0, <1>2 DEF ReadersOK, ReaderOK, ReaderIdle
<1>6. \A d \in Conns, j \in SubIds : CtxKept(d, j)
  BY <1>2 DEF CtxKept
<1>7. ASSUME NEW d \in Conns, NEW j \in SubIds, Due(d, j)'
      PROVE  Due(d, j) /\ byConn'[d][j] = byConn[d][j]
  <2>1. d # c
    BY <1>1, <1>2, <1>7 DEF Due
  <2>2. byConn'[d][j] = byConn[d][j]
    BY <1>3, <2>1
  <2> QED
    BY <1>2, <1>7, <2>2 DEF Due, Leaving
<1> QED
  BY <1>1, <1>2, <1>4, <1>5, <1>6, <1>7, LoopInv

(* The end of registerRequest: as for a refresh, the cancel is for a run that *)
(* has lost its entry.                                                        *)
LEMMA DispatchCancelOldInv ==
    ASSUME DispatchInv, [Next]_vars, NEW c \in Conns, DispatchCancelOld(c)
    PROVE  DispatchInv'
<1>0. /\ ComponentsInv /\ ExecInv /\ TypeOK /\ OutTypeOK /\ RunsOK /\ ReadersOK /\ SlotsMatchRuns
      /\ OwedKnown /\ ObjHome /\ AnswerDue /\ TriggerDue /\ ReaderOK(c)
  BY DEF DispatchInv, ExecInv, ReadersOK
<1>a. PICK r : r = reader[c].run
  OBVIOUS
<1>1. /\ UNCHANGED <<smVars, slotVars, db, outVars, owed, wanted>>
      /\ reader[c].step = "cancelOld" /\ GoTo(r, "handler") /\ "handler" \in Steps
      /\ reader' = [reader EXCEPT ![c] = ReaderIdle]
      /\ run' = run /\ requests' = requests /\ found' = found /\ victim[r] # None
      /\ \A q \in Runs : q # victim[r] => ctx'[q] = ctx[q]
  BY <1>a DEF DispatchCancelOld, RT!CancelOld, RT!Cancelled, GoTo, Steps
<1>2. r \in Runs /\ exec[r].pc = "starting" /\ exec[r].conn = c
  BY <1>0, <1>a, <1>1 DEF ReaderOK
<1>3. /\ \A d \in Conns, i \in Ids : CT!holder(d, i) # victim[r]
      /\ \A d, i : CT!holder(d, i)' = CT!holder(d, i)
  BY <1>0, <1>1, <1>2, TableFacts DEF CT!holder
<1>4. exec[r].kind \in ClientKinds /\ exec[r].toRefresh = {} /\ RunOK(r)
  BY <1>0, <1>2, KindAt DEF RunsOK, RunOK
<1>5. Elsewhere(r) /\ OnlyMoves(r, "handler")
  BY <1>0, <1>1, <1>2, GoToMoves
<1>6. /\ byConn' = byConn /\ obj' = obj /\ owed' = owed /\ db' = db /\ closed' = closed
      /\ wire' = wire /\ best' = best /\ failed' = failed /\ wanted' = wanted
  BY <1>1 DEF smVars, outVars
<1>7. [SM!SubNext]_smVars /\ [RT!Next]_rtVars /\ ComponentsInv'
  BY <1>0, IndexStep, TableStep, ComponentsKept
<1>8. RunsOK'
  <2>1. RunOK(r)'
    BY <1>1, <1>2, <1>4, <1>5, <1>6
       DEF RunOK, IdleRun, ClientRun, RefreshRun, BackgroundRun, Home, OnlyMoves, SameSelf,
           ClientKinds, ClientLive, ClientGone
  <2>2. ASSUME NEW t \in Runs, t # r PROVE RunOK(t)'
    BY <1>0, <1>1, <1>5, <1>7, <2>2, RunKept DEF RunsOK, Elsewhere
  <2> QED
    BY <2>1, <2>2 DEF RunsOK
<1>9. SlotsMatchRuns'
  <2>1. \A t \in Runs : (Holds(t)' <=> Holds(t)) /\ exec'[t].conn = exec[t].conn
    BY <1>2, <1>5 DEF Holds, Elsewhere, OnlyMoves, SameSelf
  <2> QED
    BY <1>0, <1>1, <2>1, SlotsKept
<1>10. /\ reader' \in [Conns -> ReaderType] /\ reader'[c] = ReaderIdle
       /\ \A d \in Conns : d # c => reader'[d] = reader[d]
  <2>1. ReaderIdle \in ReaderType
    BY DEF ReaderIdle, ReaderType
  <2> QED
    BY <1>0, <1>1, <2>1 DEF TypeOK, ReaderType
<1>11. TypeOK' /\ OutTypeOK'
  BY <1>0, <1>1, <1>5, <1>6, <1>10 DEF TypeOK, OutTypeOK, Elsewhere, slotVars, ReaderType
<1>12. ReadersOK'
  <2> SUFFICES ASSUME NEW d \in Conns PROVE ReaderOK(d)'
    BY DEF ReadersOK
  <2>1. ReaderOK(d)
    BY <1>0 DEF ReadersOK
  <2>2. CASE d = c
    <3>1. found[c] = None
      BY <1>0, <1>1 DEF ReaderOK
    <3> QED
      BY <1>1, <1>10, <2>2, <3>1 DEF ReaderOK, ReaderIdle
  <2>3. CASE d # c
    <3>1. reader[d].step = "cancelOld" => reader[d].run # r
      BY <1>2, <2>1, <2>3 DEF ReaderOK
    <3> QED
      BY <1>1, <1>5, <1>6, <1>10, <2>1, <2>3, <3>1 DEF ReaderOK, ReaderIdle, Elsewhere
  <2> QED
    BY <2>2, <2>3
<1>13. ObjHome' /\ OwedKnown'
  <2>1. \A s \in Runs : exec'[s].ver = exec[s].ver
    BY <1>5 DEF Elsewhere, OnlyMoves
  <2> QED
    BY <1>0, <1>6, <2>1 DEF ObjHome, OwedKnown
<1>14. ASSUME NEW d \in Conns, NEW i \in SubIds, NEW q \in Runs
       PROVE  ctx[q] = "live" /\ CT!holder(d, i) = q => ctx'[q] = "live"
  BY <1>1, <1>3 DEF Ids
<1>15. AnswerDue'
  <2>1. ASSUME NEW d \in Conns, NEW i \in SubIds, NEW q \in Runs, Answering(q, d, i)
        PROVE  Answering(q, d, i)'
    <3>1. CASE q # r
      <4>1. exec'[q] = exec[q]
        BY <1>5, <3>1 DEF Elsewhere
      <4> QED
        BY <1>3, <1>14, <2>1, <4>1 DEF Answering
    <3>2. CASE q = r
      BY <1>2, <1>3, <1>5, <1>14, <2>1, <3>2 DEF Answering, OnlyMoves, SameSelf, ClientLive
    <3> QED
      BY <3>1, <3>2
  <2> QED
    BY <1>0, <1>6, <2>1, AnswerKept
<1>16. TriggerDue'
  <2>1. ASSUME NEW d \in Conns, NEW i \in SubIds, NEW q \in Runs, Delivers(q, d, i)
        PROVE  Delivers(q, d, i)'
    <3>1. CASE byConn[d][i] \in exec[q].toRefresh
      BY <1>5, <1>6, <3>1 DEF Delivers, Elsewhere, OnlyMoves
    <3>2. CASE DeferredTo(q, d, i)
      BY <1>1, <1>3, <3>2 DEF Delivers, DeferredTo
    <3>3. CASE Carrying(q, d, i, owed[byConn[d][i]]) /\ q # r
      <4>1. exec'[q] = exec[q]
        BY <1>5, <3>3 DEF Elsewhere
      <4> QED
        BY <1>3, <1>6, <1>14, <3>3, <4>1 DEF Delivers, Carrying
    <3>4. CASE Carrying(r, d, i, owed[byConn[d][i]]) /\ q = r
      BY <1>2, <1>3, <1>5, <1>6, <1>14, <3>4 DEF Delivers, Carrying, OnlyMoves, SameSelf
    <3> QED
      BY <2>1, <3>1, <3>2, <3>3, <3>4 DEF Delivers
  <2>2. \A d \in Conns, i \in SubIds : Due(d, i)' => Due(d, i)
    <3> SUFFICES ASSUME NEW d \in Conns, NEW i \in SubIds, Due(d, i)' PROVE Due(d, i)
      OBVIOUS
    <3>1. ~ Leaving(d, i)
      BY <1>1, <1>10 DEF Leaving, Due
    <3> QED
      BY <1>6, <3>1 DEF Due
  <2> QED
    BY <1>0, <2>1, <2>2, TriggerKept
<1> QED
  BY <1>7, <1>8, <1>9, <1>11, <1>12, <1>13, <1>15, <1>16 DEF DispatchInv, ExecInv

-----------------------------------------------------------------------------
(* The invariant. *)

(* Initially there are no runs, no entries and no subscriptions. *)
LEMMA InitDispatchInv == Init => DispatchInv
<1> SUFFICES ASSUME Init PROVE DispatchInv
  OBVIOUS
<1>1. CT!SubInit /\ CT!Init
  BY DEF Init, SM!SubInit, CT!SubInit, RT!Init, CT!Init
<1>2. ComponentsInv
  BY <1>1, CT!InitIndexInv, CT!InitTableInv, CT!InitReplacedInv, InstanceAssumptions
     DEF ComponentsInv
<1>3. /\ \A r \in Runs : exec[r] = Idle /\ owed[r] = 0 /\ obj[r] = None
                         /\ run[r].status = "new"
      /\ \A c \in Conns : reader[c] = ReaderIdle /\ found[c] = None /\ reqSem[c] = 0
      /\ \A c \in Conns, i \in Ids : byConn[c][i] = None /\ wanted[c][i] = FALSE
      /\ serverSem = 0 /\ db = 0
  BY DEF Init, SM!SubInit, RT!Init
<1>4. TypeOK
  <2>1. ReaderIdle \in [step : {"idle", "cancelOld", "cancel", "cancelThenDrop", "drop"},
                        id : Ids \cup {None}, run : Runs \cup {None}]
    BY DEF ReaderIdle
  <2> QED
    BY <1>3, <2>1, IdleExec, BoundsAssumption DEF Init, TypeOK
<1>5. OutTypeOK
  <2>1. NoFrame \in FrameType
    BY BoundsAssumption DEF NoFrame, FrameType
  <2> QED
    BY <2>1, BoundsAssumption DEF Init, OutTypeOK
<1>6. RunsOK
  <2> SUFFICES ASSUME NEW r \in Runs PROVE RunOK(r)
    BY DEF RunsOK
  <2>1. exec[r] = Idle /\ run[r].status = "new" /\ exec[r].kind = "request"
        /\ exec[r].pc = "idle" /\ exec[r].toRefresh = {}
    BY <1>3, IdleExec
  <2> QED
    BY <2>1 DEF RunOK, IdleRun, ClientRun, RefreshRun, BackgroundRun
<1>7. ReadersOK
  BY <1>3 DEF ReadersOK, ReaderOK, ReaderIdle
<1>8. ObjHome /\ OwedKnown
  BY <1>3, IdleExec DEF ObjHome, OwedKnown
<1>9. SlotsMatchRuns
  <2>1. \A C : Holding(C) = {}
    BY <1>3, IdleExec DEF Holding
  <2>2. Cardinality({}) = 0
    BY FS_EmptySet
  <2>3. \A c \in Conns : reqSem[c] = Cardinality(Holding({c}))
    BY <1>3, <2>1, <2>2
  <2>4. serverSem = Cardinality(Holding(Conns))
    BY <1>3, <2>1, <2>2
  <2>5. /\ MaxConcurrentRequests > 0 =>
              \A c \in Conns : reqSem[c] <= MaxConcurrentRequests
        /\ MaxServerConcurrentRequests > 0 => serverSem <= MaxServerConcurrentRequests
    BY <1>3, BoundsAssumption
  <2> QED
    BY <2>3, <2>4, <2>5, SlotsAre
<1>10. AnswerDue
  BY <1>3 DEF AnswerDue, Ids
<1>11. TriggerDue
  BY <1>3 DEF TriggerDue, Due, Ids
<1> QED
  BY <1>2, <1>4, <1>5, <1>6, <1>7, <1>8, <1>9, <1>10, <1>11 DEF DispatchInv, ExecInv

(* A step that changes nothing. *)
LEMMA StutterInv ==
    ASSUME DispatchInv, UNCHANGED vars
    PROVE  DispatchInv'
<1>0. TypeOK /\ OutTypeOK /\ ReadersOK
  BY DEF DispatchInv, ExecInv
<1>1. /\ UNCHANGED <<exec, run, requests, obj, slotVars, db, owed>>
      /\ exec' = exec /\ run' = run /\ requests' = requests /\ obj' = obj /\ owed' = owed
      /\ reader' = reader /\ wanted' = wanted /\ found' = found /\ ctx' = ctx
      /\ closed' = closed /\ byConn' = byConn
      /\ wire' = wire /\ best' = best /\ failed' = failed
  BY DEF vars, smVars, rtVars, outVars, slotVars
<1>2. OutTypes' /\ wanted' \in [Conns -> [Ids -> BOOLEAN]] /\ reader' \in [Conns -> ReaderType]
  BY <1>0, <1>1 DEF OutTypeOK, OutTypes, TypeOK, ReaderType
<1>3. ReadersOK'
  BY <1>0, <1>1 DEF ReadersOK, ReaderOK, ReaderIdle
<1>4. \A d \in Conns, j \in SubIds :
         wanted'[d][j] /\ ~ closed'[d] /\ wire'[d][j].type = "none"
         => wanted[d][j] /\ ~ closed[d] /\ wire[d][j].type = "none" /\ CtxKept(d, j)
  BY <1>1 DEF CtxKept
<1>5. \A d \in Conns, j \in SubIds :
         Due(d, j)' => Due(d, j) /\ byConn'[d][j] = byConn[d][j] /\ CtxKept(d, j)
  BY <1>1 DEF Due, Leaving, CtxKept
<1> QED
  BY <1>1, <1>2, <1>3, <1>4, <1>5, LoopInv

(* Every step of the handlers, the read loops and the close keeps it. *)
LEMMA NextDispatchInv == DispatchInv /\ [Next]_vars => DispatchInv'
<1> SUFFICES ASSUME DispatchInv, [Next]_vars PROVE DispatchInv'
  OBVIOUS
<1>1. ASSUME NEW c \in Conns,
             \/ DispatchCancelOld(c) \/ CancelFoundRun(c) \/ handleUnsubscribe(c)
             \/ closeWithCause(c) \/ Sweep(c)
      PROVE  DispatchInv'
  BY <1>1, DispatchCancelOldInv, CancelFoundInv, UnsubscribeInv, CloseInv, SweepInv
<1>2. ASSUME NEW c \in Conns, NEW i \in SubIds, NEW p \in Params, NEW r \in Runs,
             Dispatch(c, i, "subscribe", p, r)
      PROVE  DispatchInv'
  BY <1>2, DispatchInvKept
<1>3. ASSUME NEW c \in Conns, NEW i \in ReqIds, NEW r \in Runs,
             Dispatch(c, i, "request", None, r)
      PROVE  DispatchInv'
  BY <1>3, DispatchInvKept
<1>4. ASSUME NEW c \in Conns, NEW i \in SubIds,
             CancelFrame(c, i, "unsubscribe") \/ RejectFrame(c, i, "subscribe")
      PROVE  DispatchInv'
  BY <1>4, CancelFrameInv, RejectFrameInv DEF Ids
<1>5. ASSUME NEW c \in Conns, NEW i \in ReqIds,
             CancelFrame(c, i, "cancel") \/ RejectFrame(c, i, "request")
      PROVE  DispatchInv'
  BY <1>5, CancelFrameInv, RejectFrameInv DEF Ids
<1>6. ASSUME NEW r \in Runs,
             \/ Mutate(r) \/ Lookup(r) \/ Query(r) \/ HandlerFails(r)
             \/ ReturnCancelled(r) \/ ReturnError(r) \/ ReturnOK(r)
             \/ HasSubscription(r) \/ UpdateKeys(r) \/ UpdateParams(r)
             \/ Register(r) \/ Respond(r) \/ FlushKey(r) \/ FlushNothing(r)
             \/ Unwind(r) \/ Finish(r)
             \/ RefreshStart(r) \/ RegisterRefresh(r) \/ RefreshCancelOld(r)
             \/ BackgroundMutation(r)
      PROVE  DispatchInv'
  BY <1>6, MutateInv, MovingInv, QueryInv, HandlerFailsInv, ReturnInv, UpdateInv,
     RegisterInv, RespondInv, FlushKeyInv, FlushNothingInv, UnwindInv, FinishInv,
     RegisterRefreshInv, RefreshCancelOldInv, BackgroundInv
<1>7. ASSUME NEW r \in Runs, NEW q \in Runs, Spawn(r, q) \/ runDeferredRefresh(r, q)
      PROVE  DispatchInv'
  BY <1>7, SpawnInv, DeferredInv
<1>8. CASE Stopped \/ UNCHANGED vars
  BY <1>8, StutterInv DEF Stopped
<1> QED
  BY <1>1, <1>2, <1>3, <1>4, <1>5, <1>6, <1>7, <1>8 DEF Next

(* The invariant of the handlers, for every number of connections and runs. *)
THEOREM DispatchInvariant == Spec => []DispatchInv
BY InitDispatchInv, NextDispatchInv, PTL DEF Spec

-----------------------------------------------------------------------------
(* What the handlers promise. *)

(* The handlers of connection.go drive the subscription indexes and the     *)
(* request table only through the operations those modules specify, in      *)
(* every interleaving: the composition implements both components.          *)
THEOREM HandlersRefineComponents == Spec => RefinesComponents
<1>1. Init => SM!SubInit /\ RT!Init
  BY DEF Init
<1>2. DispatchInv /\ [Next]_vars => [SM!SubNext]_smVars /\ [RT!Next]_rtVars
  BY IndexStep, TableStep DEF DispatchInv
<1>3. smVars = SM!subVars /\ rtVars = RT!vars
  BY DEF smVars, rtVars, SM!subVars, RT!vars
<1>4. [SM!SubNext]_smVars <=> [SM!SubNext]_(SM!subVars)
  BY DEF smVars, SM!subVars
<1>5. [RT!Next]_rtVars <=> [RT!Next]_(RT!vars)
  BY DEF rtVars, RT!vars
<1> QED
  BY <1>1, <1>2, <1>4, <1>5, DispatchInvariant, PTL
     DEF Spec, RefinesComponents, IndexSpec, TableSpec, SM!SubSpec, RT!Spec

(* Slots are given back exactly once and the caps hold, on every path through *)
(* the handlers; and when everything has run, a subscribe that is still       *)
(* wanted on an open connection got a result or an error.                     *)
THEOREM SlotsAndAnswersSound == Spec => []DispatchSound
<1>1. DispatchInv => DispatchSound
  <2> SUFFICES ASSUME DispatchInv PROVE DispatchSound
    OBVIOUS
  <2>1. TypeOK /\ SlotsMatchRuns /\ AnswerDue
    BY DEF DispatchInv, ExecInv
  <2>2. SubscribeAnswered
    <3> SUFFICES ASSUME Quiescent, NEW c \in Conns, NEW i \in SubIds, wanted[c][i],
                        ~ closed[c], wire[c][i].type = "none"
                 PROVE  FALSE
      BY DEF SubscribeAnswered
    <3>1. PICK r \in Runs : Answering(r, c, i)
      BY <2>1 DEF AnswerDue
    <3> QED
      BY <3>1 DEF Quiescent, Answering, ClientLive
  <2> QED
    BY <2>1, <2>2 DEF DispatchSound
<1> QED
  BY <1>1, DispatchInvariant, PTL

(* A trigger that finds a subscription is delivered: once everything has run, *)
(* the subscriber got a result at least as new as the change, or an error,    *)
(* whatever was deferred, superseded or cancelled in between                  *)
(* (registerRefresh, unregisterRequest, runDeferredRefresh).                  *)
THEOREM TriggersAreDelivered == Spec => []NoTriggerLost
<1>1. DispatchInv => NoTriggerLost
  <2> SUFFICES ASSUME DispatchInv, Quiescent, NEW c \in Conns, NEW i \in SubIds,
                      byConn[c][i] # None, ~ (best[c][i] >= owed[byConn[c][i]]),
                      ~ failed[c][i]
               PROVE  FALSE
    BY DEF NoTriggerLost, SM!has
  <2>0. /\ ComponentsInv /\ TypeOK /\ OutTypeOK /\ RunsOK /\ TriggerDue /\ i \in Ids
    BY DEF DispatchInv, ExecInv, Ids
  <2>1. ~ closed[c] /\ ~ Leaving(c, i)
    BY <2>0, IndexFacts DEF Quiescent, Leaving, ReaderIdle
  <2>2. best[c][i] < owed[byConn[c][i]]
    <3>1. byConn[c][i] \in Runs
      BY <2>0, IndexFacts
    <3>2. best[c][i] \in 0..MaxVersion /\ owed[byConn[c][i]] \in 0..MaxVersion
      BY <2>0, <3>1 DEF TypeOK, OutTypeOK
    <3> QED
      BY <3>2, BoundsAssumption
  <2>3. PICK r \in Runs : Delivers(r, c, i)
    BY <2>0, <2>1, <2>2 DEF TriggerDue, Due
  <2>4. RunOK(r) /\ exec[r].pc \in {"idle", "done"} /\ exec[r].kind \in Kinds
    BY <2>0 DEF RunsOK, Quiescent, TypeOK, Exec
  <2>5. DeferredTo(r, c, i)
    BY <2>3, <2>4 DEF Delivers, RunOK, Carrying
  <2>6. /\ run[r].status = "live" /\ run[r].refresh = requests[c][i].refresh
        /\ ~ requests[c][i].refresh
    <3>1. CT!holder(c, i) = r /\ r # None /\ requests[c][i] # None
      BY <2>5, NoneAssumption DEF DeferredTo, CT!holder
    <3>2. run[r].status = "live" /\ run[r].refresh = requests[c][i].refresh
      BY <2>0, <3>1, TableFacts
    <3>3. ~ requests[c][i].refresh
      BY <2>0, <2>5, <3>1 DEF DeferredTo, ComponentsInv, CT!ReplacedInv, CT!AgainIsClient
    <3> QED
      BY <3>2, <3>3
  <2>7. CASE exec[r].pc = "idle"
    BY <2>4, <2>6, <2>7 DEF RunOK, IdleRun
  <2>8. CASE exec[r].pc = "done" /\ exec[r].kind \in ClientKinds
    BY <2>4, <2>6, <2>8 DEF RunOK, ClientRun, ClientGone
  <2>9. CASE exec[r].kind = "refresh"
    BY <2>4, <2>6, <2>9 DEF RunOK, RefreshRun
  <2>10. CASE exec[r].kind = "background"
    BY <2>4, <2>6, <2>10 DEF RunOK, BackgroundRun
  <2> QED
    BY <2>4, <2>7, <2>8, <2>9, <2>10 DEF Kinds, ClientKinds
<1> QED
  BY <1>1, DispatchInvariant, PTL

(* A context of the client's own calls ends as OnlyClientCancels allows. *)
EndedByClient(r) ==
    (/\ ~ At(r, "idle") /\ exec[r].kind \in {"request", "subscribe"}
     /\ ctx[r] = "live" /\ ctx'[r] # "live")
    => \/ At(r, "unwind")
       \/ closed[exec[r].conn] # closed'[exec[r].conn]
       \/ reader[exec[r].conn] # reader'[exec[r].conn]

(* Every step ends the contexts of client calls only so. *)
LEMMA StepEndsByClient ==
    ASSUME DispatchInv, [Next]_vars, NEW r \in Runs
    PROVE  EndedByClient(r)
<1> SUFFICES ASSUME exec[r].pc # "idle", exec[r].kind \in ClientKinds,
                    ctx[r] = "live", ctx'[r] # "live", exec[r].pc # "unwind"
             PROVE  \/ closed[exec[r].conn] # closed'[exec[r].conn]
                    \/ reader[exec[r].conn] # reader'[exec[r].conn]
  BY DEF EndedByClient, At, ClientKinds
<1>0. /\ ComponentsInv /\ TypeOK /\ RunsOK /\ ReadersOK
  BY DEF DispatchInv, ExecInv
<1>1. /\ exec[r].conn \in Conns /\ run[r].conn = exec[r].conn /\ run[r].refresh = FALSE
      /\ run[r].status # "new"
  BY <1>0 DEF RunsOK, RunOK, ClientRun, Home
<1>2. ASSUME NEW c \in Conns, DispatchCancelOld(c)
      PROVE  reader[exec[r].conn] # reader'[exec[r].conn]
  <2> DEFINE q == reader[c].run
  <2>1. /\ q \in Runs /\ exec[q].pc = "starting" /\ exec[q].conn = c
        /\ reader[c].step = "cancelOld"
    BY <1>0, <1>2 DEF ReadersOK, ReaderOK, DispatchCancelOld
  <2>2. run[q].conn = c
    BY <1>0, <2>1, KindAt DEF RunsOK, RunOK, ClientRun, Home
  <2>3. victim[q] = r /\ victim[q] # None
    BY <1>2 DEF DispatchCancelOld, RT!CancelOld, RT!Cancelled
  <2>4. run[r].conn = c
    BY <1>0, <2>1, <2>2, <2>3, TableFacts
  <2>5. reader'[c] = ReaderIdle
    BY <1>0, <1>2 DEF DispatchCancelOld, TypeOK
  <2> QED
    BY <1>1, <2>1, <2>4, <2>5 DEF ReaderIdle
<1>3. ASSUME NEW c \in Conns, CancelFoundRun(c)
      PROVE  reader[exec[r].conn] # reader'[exec[r].conn]
  <2>1. found[c] = r /\ found[c] # None
    BY <1>3 DEF CancelFoundRun, RT!CancelFound, RT!Cancelled
  <2>2. run[r].conn = c
    BY <1>0, <2>1 DEF ReadersOK, ReaderOK
  <2>3. reader'[c].step \in {"idle", "drop"}
    <3>1. reader'[c] = IF reader[c].step = "cancel" THEN ReaderIdle
                       ELSE [reader[c] EXCEPT !.step = "drop"]
      BY <1>0, <1>3 DEF CancelFoundRun, TypeOK
    <3> QED
      BY <1>0, <3>1 DEF TypeOK, ReaderIdle
  <2>4. reader[c].step \in {"cancel", "cancelThenDrop"}
    BY <1>3 DEF CancelFoundRun
  <2> QED
    BY <1>1, <2>2, <2>3, <2>4
<1>4. ASSUME NEW c \in Conns, closeWithCause(c)
      PROVE  closed[exec[r].conn] # closed'[exec[r].conn]
  <2>1. PICK i \in Ids : CT!holder(c, i) = r
    BY <1>4 DEF closeWithCause, RT!MarkClosed, RT!Cancelled, RT!holder, CT!holder
  <2>2. run[r].conn = c
    BY <1>0, <2>1, TableFacts, NoneAssumption
  <2>3. ~ closed[c] /\ closed'[c]
    BY <1>0, <1>4, IndexFacts DEF closeWithCause, RT!MarkClosed
  <2> QED
    BY <1>1, <2>2, <2>3
<1>5. ASSUME NEW c \in Conns, NEW i \in Ids, NEW q \in Runs, NEW t, NEW p,
             Dispatch(c, i, t, p, q)
      PROVE  FALSE
  <2>1. q # r
    BY <1>5 DEF Dispatch, IsNext, Free, At
  <2>2. ctx'[r] = ctx[r]
    BY <1>5, <2>1 DEF Dispatch, RT!registerRequest, RT!Store, RT!Cancelled
  <2> QED
    BY <2>2
<1>6. ASSUME NEW q \in Runs, RegisterRefresh(q) PROVE FALSE
  <2>1. exec[q].kind = "refresh"
    BY <1>0, <1>6, KindAt DEF RegisterRefresh, At, RefreshNew
  <2>2. q # r
    BY <2>1 DEF ClientKinds
  <2>3. ctx'[r] = ctx[r]
    BY <1>6, <2>2 DEF RegisterRefresh, RT!registerRefresh, RT!MustDefer, RT!Store, RT!Cancelled
  <2> QED
    BY <2>3
<1>7. ASSUME NEW q \in Runs, RefreshCancelOld(q) PROVE FALSE
  <2>1. exec[q].kind = "refresh" /\ exec[q].pc = "cancelOld"
    BY <1>0, <1>7, KindAt DEF RefreshCancelOld, At
  <2>2. run[q].refresh = TRUE
    BY <1>0, <2>1 DEF RunsOK, RunOK, RefreshRun, RefreshLive, Home
  <2>3. victim[q] = r /\ victim[q] # None
    BY <1>7 DEF RefreshCancelOld, RT!CancelOld, RT!Cancelled
  <2> QED
    BY <1>0, <1>1, <2>2, <2>3, TableFacts
<1>8. ASSUME NEW q \in Runs, Unwind(q) PROVE FALSE
  <2>1. q # r
    BY <1>8 DEF Unwind, At
  <2> QED
    BY <1>8, <2>1 DEF Unwind, RT!unregisterRequest, RT!Cancelled
<1>9. ASSUME NEW c \in Conns,
             \/ handleUnsubscribe(c) \/ Sweep(c)
             \/ \E i \in Ids : \E t : RejectFrame(c, i, t) \/ CancelFrame(c, i, t)
      PROVE  FALSE
  <2>1. ctx' = ctx
    BY <1>9 DEF handleUnsubscribe, Sweep, RejectFrame, CancelFrame, RT!FindRequest, rtVars
  <2> QED
    BY <2>1
<1>10. ASSUME NEW q \in Runs,
             \/ Mutate(q) \/ Lookup(q) \/ Query(q) \/ HandlerFails(q)
             \/ ReturnCancelled(q) \/ ReturnError(q) \/ ReturnOK(q)
             \/ HasSubscription(q) \/ UpdateKeys(q) \/ UpdateParams(q)
             \/ Register(q) \/ Respond(q) \/ FlushKey(q) \/ FlushNothing(q)
             \/ Finish(q) \/ RefreshStart(q) \/ BackgroundMutation(q)
             \/ \E t \in Runs : Spawn(q, t) \/ runDeferredRefresh(q, t)
      PROVE  FALSE
  <2>1. UNCHANGED rtVars
    BY <1>10 DEF Mutate, Lookup, Query, HandlerFails, ReturnCancelled, ReturnError,
                ReturnOK, HasSubscription, UpdateKeys, UpdateParams, Register, Respond,
                FlushKey, FlushNothing, Finish, RefreshStart, BackgroundMutation,
                Spawn, runDeferredRefresh
  <2> QED
    BY <2>1 DEF rtVars
<1>11. ~ (Stopped \/ UNCHANGED vars)
  BY DEF Stopped, vars, rtVars
<1>12. SubIds \subseteq Ids /\ ReqIds \subseteq Ids
  BY DEF Ids
<1> QED
  BY <1>2, <1>3, <1>4, <1>5, <1>6, <1>7, <1>8, <1>9, <1>10, <1>11, <1>12 DEF Next

(* A refresh never disturbs the client's own calls: the context of a request *)
(* or subscribe ends only through a frame of its client, a close, or its     *)
(* own return (registerRefresh, CancelOld).                                  *)
THEOREM RefreshesEndNoClientCall == Spec => OnlyClientCancels
<1>1. DispatchInv /\ [Next]_vars => [\A r \in Runs :
          (/\ ~ At(r, "idle") /\ exec[r].kind \in {"request", "subscribe"}
           /\ ctx[r] = "live" /\ ctx'[r] # "live")
          => \/ At(r, "unwind")
             \/ closed[exec[r].conn] # closed'[exec[r].conn]
             \/ reader[exec[r].conn] # reader'[exec[r].conn]]_vars
  BY StepEndsByClient DEF EndedByClient
<1> QED
  BY <1>1, DispatchInvariant, PTL DEF Spec, OnlyClientCancels

=============================================================================
