-------------------------- MODULE ConnTablesProofs --------------------------
(***************************************************************************)
(* The two tables behind a connection's handlers, each for every number of *)
(* connections, IDs and runs: the request table (RequestTable) and the     *)
(* subscription indexes (SubscriptionManager), which share the connections *)
(* and their closed flag (Connections) and the IDs (ConnTables).           *)
(*                                                                         *)
(* The table.  No handler is ever uncancelable.  The invariant adds to the *)
(* checked properties what makes them inductive: a token is handed out     *)
(* once (so Owns(r) means the entry is r's), a closed connection's entries *)
(* are all cancelled, and a pending cancel names runs that have already    *)
(* registered.                                                             *)
(*                                                                         *)
(* The indexes.  That a sweep removes exactly the swept objects needs that *)
(* byConn points at an object of its own connection and ID, so two slots   *)
(* never share an object, and KeyIndexSound needs the same.                *)
(***************************************************************************)
EXTENDS RequestTable, SubscriptionManager, FiniteSetTheorems, TLAPS

-----------------------------------------------------------------------------
(* A live run knows its connection and ID, and its token was handed out. *)
LiveHome ==
    \A r \in Runs : run[r].status = "live" =>
        /\ run[r].conn \in Conns
        /\ run[r].id \in Ids
        /\ run[r].seq <= reqSeq[run[r].conn]

(* No two live runs of a connection hold the same token. *)
TokensDistinct ==
    \A r, q \in Runs :
        /\ run[r].status = "live" /\ run[q].status = "live"
        /\ run[r].conn = run[q].conn
        /\ run[r].seq = run[q].seq /\ run[r].seq # 0
        => r = q

(* The sweep of closeWithCause missed no entry, and none came after it. *)
ClosedEntriesEnded ==
    \A c \in Conns, i \in Ids :
        closed[c] /\ requests[c][i] # None => ctx[requests[c][i].cancel] # "live"

(* A pending cancel is between two runs that have registered. *)
VictimsStarted ==
    \A q \in Runs : victim[q] # None =>
        run[q].status # "new" /\ run[victim[q]].status # "new"

TableInv ==
    /\ TypeOK
    /\ LiveHome
    /\ TokensDistinct
    /\ EntriesOwned
    /\ ClosedEntriesEnded
    /\ VictimsStarted
    /\ NoUncancelableRun
    /\ RefreshSparesRequests

-----------------------------------------------------------------------------
(* Nothing is registered initially. *)
LEMMA InitTableInv == Init => TableInv
BY NoneAssumption
   DEF Init, TableInv, TypeOK, RunState, LiveHome, TokensDistinct, EntriesOwned,
       ClosedEntriesEnded, VictimsStarted, NoUncancelableRun,
       RefreshSparesRequests

(* Cancelling ends contexts and revives none. *)
LEMMA CancelledFacts ==
    ASSUME TypeOK, NEW R, NEW cause \in Causes
    PROVE  /\ Cancelled(R, cause) \in [Runs -> {"live"} \cup Causes]
           /\ \A r \in Runs : ctx[r] # "live" => Cancelled(R, cause)[r] # "live"
           /\ \A r \in Runs : r \in R => Cancelled(R, cause)[r] # "live"
           /\ \A r \in Runs : r \notin R => Cancelled(R, cause)[r] = ctx[r]
BY DEF Cancelled, TypeOK, Causes

(* A run that owns an entry is the run the entry cancels. *)
LEMMA OwnsIsHolder ==
    ASSUME TableInv, NEW r \in Runs, run[r].status = "live"
    PROVE  Owns(r) <=> holder(run[r].conn, run[r].id) = r
<1> DEFINE c == run[r].conn
           i == run[r].id
<1>1. c \in Conns /\ i \in Ids
  BY DEF TableInv, LiveHome
<1>2. requests[c][i] # None => requests[c][i] \in Entry
  BY <1>1 DEF TableInv, TypeOK
<1>3. ASSUME Owns(r) PROVE holder(c, i) = r
  <2>1. /\ requests[c][i] # None /\ run[r].seq # 0
        /\ requests[c][i].seq = run[r].seq
    BY <1>3 DEF Owns
  <2> DEFINE q == requests[c][i].cancel
  <2>2. /\ q \in Runs /\ run[q].status = "live" /\ run[q].conn = c
        /\ run[q].seq = requests[c][i].seq
    BY ZenonT(60), <1>1, <1>2, <2>1 DEF TableInv, EntriesOwned, Entry
  <2>3. q = r
    BY <2>1, <2>2 DEF TableInv, TokensDistinct
  <2> QED
    BY <2>1, <2>3 DEF holder
<1>4. ASSUME holder(c, i) = r PROVE Owns(r)
  <2>1. requests[c][i] # None /\ requests[c][i].cancel = r
    BY <1>4, NoneAssumption DEF holder
  <2>2. requests[c][i].seq = run[r].seq /\ requests[c][i].seq # 0
    BY <1>1, <1>2, <2>1 DEF TableInv, EntriesOwned, Entry
  <2> QED
    BY <2>1, <2>2 DEF Owns
<1> QED
  BY <1>3, <1>4

(* A new entry takes the place of its predecessor, whose run it cancels *)
(* next; the registration counter makes its token a new one.            *)
LEMMA StoreTableInv ==
    ASSUME TableInv, NEW c \in Conns, NEW i \in Ids, NEW r \in Runs,
           NEW refresh \in BOOLEAN,
           run[r].status = "new", ~ closed[c],
           refresh => requests[c][i] = None \/ requests[c][i].refresh,
           Store(c, i, r, refresh)
    PROVE  TableInv'
<1> DEFINE e == [seq |-> reqSeq[c] + 1, cancel |-> r, refresh |-> refresh,
                 refreshAgain |-> FALSE]
           s == [status |-> "live", conn |-> c, id |-> i,
                 seq |-> reqSeq[c] + 1, refresh |-> refresh]
<1>0. reqSeq[c] \in Nat /\ reqSeq[c] + 1 \in Nat \ {0}
  BY DEF TableInv, TypeOK
<1>a. e \in Entry
  BY <1>0 DEF Entry
<1>b. s \in RunState
  BY <1>0 DEF RunState
<1>1. reqSeq[c] \in Nat /\ e \in Entry /\ s \in RunState /\ e # None
  BY <1>0, <1>a, <1>b, NoneAssumption
<1>2. /\ reqSeq' = [reqSeq EXCEPT ![c] = @ + 1]
      /\ requests' = [requests EXCEPT ![c][i] = e]
      /\ run' = [run EXCEPT ![r] = s]
      /\ victim' = [victim EXCEPT ![r] = holder(c, i)]
      /\ UNCHANGED <<closed, ctx, found>>
  BY DEF Store
<1>3. holder(c, i) \in Runs \cup {None}
  BY DEF holder, TableInv, TypeOK, Entry
<1>4. TypeOK'
  <2>1. requests' \in [Conns -> [Ids -> Entry \cup {None}]]
    BY <1>1, <1>2 DEF TableInv, TypeOK
  <2>2. run' \in [Runs -> RunState]
    BY <1>1, <1>2 DEF TableInv, TypeOK
  <2>3. /\ reqSeq' \in [Conns -> Nat]
        /\ victim' \in [Runs -> Runs \cup {None}]
        /\ closed' \in [Conns -> BOOLEAN] /\ found' \in [Conns -> Runs \cup {None}]
        /\ ctx' \in [Runs -> {"live"} \cup Causes]
    BY <1>1, <1>2, <1>3 DEF TableInv, TypeOK
  <2> QED
    BY <2>1, <2>2, <2>3 DEF TypeOK
<1>5. /\ run'[r] = s /\ \A q \in Runs : q # r => run'[q] = run[q]
      /\ requests'[c][i] = e
      /\ \A d \in Conns, j \in Ids :
            <<d, j>> # <<c, i>> => requests'[d][j] = requests[d][j]
      /\ victim'[r] = holder(c, i)
      /\ \A q \in Runs : q # r => victim'[q] = victim[q]
      /\ reqSeq'[c] = reqSeq[c] + 1
      /\ \A d \in Conns : d # c => reqSeq'[d] = reqSeq[d]
      /\ \A q \in Runs : ctx'[q] = ctx[q]
      /\ \A d \in Conns : closed'[d] = closed[d]
  BY <1>2 DEF TableInv, TypeOK
<1>6. \A q \in Runs : run[q].seq \in Nat
  BY DEF TableInv, TypeOK, RunState
<1>7. LiveHome'
  BY <1>1, <1>5, <1>6 DEF TableInv, LiveHome
<1>8. TokensDistinct'
  <2>1. \A q \in Runs : run[q].status = "live" /\ run[q].conn = c
                            => run[q].seq # reqSeq[c] + 1
    BY <1>1, <1>6 DEF TableInv, LiveHome
  <2> QED
    BY <1>5, <2>1 DEF TableInv, TokensDistinct
<1>9. EntriesOwned'
  <2> SUFFICES ASSUME NEW d \in Conns, NEW j \in Ids, requests'[d][j] # None
               PROVE  /\ run'[requests'[d][j].cancel].status = "live"
                      /\ run'[requests'[d][j].cancel].conn = d
                      /\ run'[requests'[d][j].cancel].id = j
                      /\ run'[requests'[d][j].cancel].seq = requests'[d][j].seq
                      /\ run'[requests'[d][j].cancel].refresh = requests'[d][j].refresh
    BY DEF EntriesOwned
  <2>1. CASE <<d, j>> = <<c, i>>
    BY <1>5, <2>1
  <2>2. CASE <<d, j>> # <<c, i>>
    <3> DEFINE q == requests[d][j].cancel
    <3>1. q \in Runs /\ run[q].status = "live" /\ requests'[d][j] = requests[d][j]
      BY <1>5, <2>2 DEF TableInv, TypeOK, EntriesOwned, Entry
    <3>2. run'[q] = run[q]
      BY <1>5, <3>1
    <3> QED
      BY <1>5, <2>2, <3>1, <3>2 DEF TableInv, EntriesOwned
  <2> QED
    BY <2>1, <2>2
<1>10. ClosedEntriesEnded'
  <2>1. \A d \in Conns, j \in Ids : requests[d][j] # None => requests[d][j].cancel \in Runs
    BY DEF TableInv, TypeOK, Entry
  <2> QED
    BY <1>5, <2>1 DEF TableInv, ClosedEntriesEnded
<1>11. holder(c, i) # None =>
          /\ holder(c, i) \in Runs /\ run[holder(c, i)].status = "live"
          /\ run[holder(c, i)].refresh = requests[c][i].refresh
          /\ holder(c, i) # r
  BY <1>3 DEF TableInv, EntriesOwned, holder
<1>12. VictimsStarted'
  <2> SUFFICES ASSUME NEW q \in Runs, victim'[q] # None
               PROVE  run'[q].status # "new" /\ run'[victim'[q]].status # "new"
    BY DEF VictimsStarted
  <2>1. CASE q = r
    BY <1>5, <1>11, <2>1
  <2>2. CASE q # r
    <3>1. /\ victim[q] \in Runs /\ run[q].status # "new"
          /\ run[victim[q]].status # "new" /\ victim'[q] = victim[q]
      BY <1>5, <2>2 DEF TableInv, TypeOK, VictimsStarted
    <3> QED
      BY <1>5, <2>2, <3>1
  <2> QED
    BY <2>1, <2>2
<1>13. RefreshSparesRequests'
  <2> SUFFICES ASSUME NEW q \in Runs, run'[q].refresh, victim'[q] # None
               PROVE  run'[victim'[q]].refresh
    BY DEF RefreshSparesRequests
  <2>1. CASE q = r
    <3>1. refresh /\ holder(c, i) # None
      BY <1>5, <2>1
    <3>2. requests[c][i] # None
      BY <3>1 DEF holder
    <3> QED
      BY <1>5, <1>11, <2>1, <3>1, <3>2
  <2>2. CASE q # r
    <3>1. victim[q] \in Runs /\ victim[q] # r
      BY <1>5, <2>2 DEF TableInv, TypeOK, VictimsStarted
    <3> QED
      BY <1>5, <2>2, <3>1 DEF TableInv, RefreshSparesRequests
  <2> QED
    BY <2>1, <2>2
<1>14. NoUncancelableRun'
  <2> SUFFICES ASSUME NEW q \in Runs, run'[q].status = "live", ctx'[q] = "live"
               PROVE  \/ holder(run[q].conn, run[q].id)' = q
                      \/ CancelPending(q)'
    BY DEF NoUncancelableRun
  <2>1. CASE q = r
    BY <1>1, <1>5, <2>1 DEF holder
  <2>2. CASE q # r /\ holder(c, i) = q
    BY <1>5, <2>2 DEF CancelPending
  <2>3. CASE q # r /\ holder(c, i) # q
    <3>1. run'[q] = run[q] /\ run[q].conn \in Conns /\ run[q].id \in Ids
      BY <1>5, <2>3 DEF TableInv, LiveHome
    <3>2. CASE CancelPending(q)
      <4>1. PICK t \in Runs : victim[t] = q
        BY <3>2 DEF CancelPending
      <4>2. t # r
        BY <2>3, <4>1, NoneAssumption DEF TableInv, VictimsStarted
      <4> QED
        BY <1>5, <4>1, <4>2 DEF CancelPending
    <3>3. CASE holder(run[q].conn, run[q].id) = q
      <4>1. <<run[q].conn, run[q].id>> # <<c, i>>
        BY <2>3, <3>3
      <4> QED
        BY <1>5, <3>1, <3>3, <4>1 DEF holder
    <3> QED
      BY <1>5, <2>3, <3>1, <3>2, <3>3 DEF TableInv, NoUncancelableRun
  <2> QED
    BY <2>1, <2>2, <2>3
<1> QED
  BY <1>4, <1>7, <1>8, <1>9, <1>10, <1>12, <1>13, <1>14 DEF TableInv

(* Steps that only end contexts, drop a pending cancel whose run has ended, *)
(* or close a connection all of whose entries have ended.                   *)
CancelStep ==
    /\ UNCHANGED <<requests, reqSeq, run>>
    /\ \A r \in Runs : ctx[r] # "live" => ctx'[r] # "live"
    /\ \A q \in Runs : \/ victim'[q] = victim[q]
                       \/ victim'[q] = None /\ ctx'[victim[q]] # "live"
    /\ \A c \in Conns :
          \/ closed'[c] = closed[c]
          \/ \A i \in Ids : requests[c][i] # None
                              => ctx'[requests[c][i].cancel] # "live"

(* A step of that kind preserves the invariant. *)
LEMMA CancelStepTableInv ==
    ASSUME TableInv, TypeOK', CancelStep
    PROVE  TableInv'
<1> USE DEF CancelStep
<1>1. LiveHome' /\ TokensDistinct' /\ EntriesOwned'
  BY DEF TableInv, LiveHome, TokensDistinct, EntriesOwned
<1>2. ClosedEntriesEnded'
  <2>1. \A c \in Conns, i \in Ids : requests[c][i] # None => requests[c][i].cancel \in Runs
    BY DEF TableInv, TypeOK, Entry
  <2> QED
    BY <2>1 DEF TableInv, ClosedEntriesEnded
<1>3. VictimsStarted' /\ RefreshSparesRequests'
  BY DEF TableInv, VictimsStarted, RefreshSparesRequests
<1>4. NoUncancelableRun'
  <2> SUFFICES ASSUME NEW q \in Runs, run[q].status = "live", ctx'[q] = "live"
               PROVE  \/ holder(run[q].conn, run[q].id)' = q
                      \/ CancelPending(q)'
    BY DEF NoUncancelableRun
  <2>1. ctx[q] = "live"
    OBVIOUS
  <2>2. CASE CancelPending(q)
    <3>1. PICK t \in Runs : victim[t] = q
      BY <2>2 DEF CancelPending
    <3>2. victim'[t] = q
      BY <3>1
    <3> QED
      BY <3>2 DEF CancelPending
  <2>3. CASE holder(run[q].conn, run[q].id) = q
    BY <2>3 DEF holder
  <2> QED
    BY <2>1, <2>2, <2>3 DEF TableInv, NoUncancelableRun
<1> QED
  BY <1>1, <1>2, <1>3, <1>4 DEF TableInv

(* The two halves of a cancel, the close, and a step that changes nothing. *)
LEMMA CancelsTableInv ==
    ASSUME TableInv,
           \/ \E r \in Runs : CancelOld(r)
           \/ \E c \in Conns, i \in Ids : FindRequest(c, i)
           \/ \E c \in Conns : CancelFound(c) \/ MarkClosed(c)
           \/ UNCHANGED vars
    PROVE  TableInv'
<1>0. TypeOK
  BY DEF TableInv
<1>a. \A c \in Conns, i \in Ids : holder(c, i) \in Runs \cup {None}
  BY <1>0 DEF holder, TypeOK, Entry
<1>1. ASSUME NEW r \in Runs, CancelOld(r) PROVE TableInv'
  <2>1. victim[r] \in Runs
    BY <1>0, <1>1 DEF CancelOld, TypeOK
  <2>2. /\ ctx' \in [Runs -> {"live"} \cup Causes]
        /\ \A t \in Runs : ctx[t] # "live" => ctx'[t] # "live"
        /\ ctx'[victim[r]] # "live"
    BY <1>0, <1>1, <2>1, CancelledFacts DEF CancelOld, Causes
  <2>3. victim' = [victim EXCEPT ![r] = None] /\ UNCHANGED <<closed, requests, reqSeq, run, found>>
    BY <1>1 DEF CancelOld
  <2>4. TypeOK'
    BY <1>0, <2>2, <2>3 DEF TypeOK
  <2>5. ASSUME NEW q \in Runs
        PROVE  \/ victim'[q] = victim[q]
               \/ victim'[q] = None /\ ctx'[victim[q]] # "live"
    <3>1. CASE q = r
      BY <1>0, <2>2, <2>3, <3>1 DEF TypeOK
    <3>2. CASE q # r
      BY <1>0, <2>3, <3>2 DEF TypeOK
    <3> QED
      BY <3>1, <3>2
  <2>6. CancelStep
    BY <2>2, <2>3, <2>5 DEF CancelStep
  <2> QED
    BY <2>4, <2>6, CancelStepTableInv
<1>2. ASSUME NEW c \in Conns, NEW i \in Ids, FindRequest(c, i) PROVE TableInv'
  <2>1. TypeOK'
    BY <1>0, <1>2, <1>a DEF FindRequest, TypeOK
  <2>2. CancelStep
    BY <1>2 DEF FindRequest, CancelStep
  <2> QED
    BY <2>1, <2>2, CancelStepTableInv
<1>3. ASSUME NEW c \in Conns, CancelFound(c) PROVE TableInv'
  <2>1. /\ ctx' \in [Runs -> {"live"} \cup Causes]
        /\ \A t \in Runs : ctx[t] # "live" => ctx'[t] # "live"
    BY <1>0, <1>3, CancelledFacts DEF CancelFound, Causes
  <2>2. TypeOK' /\ UNCHANGED <<closed, requests, reqSeq, run, victim>>
    BY <1>0, <1>3, <2>1 DEF CancelFound, TypeOK
  <2>3. CancelStep
    BY <2>1, <2>2 DEF CancelStep
  <2> QED
    BY <2>2, <2>3, CancelStepTableInv
<1>4. ASSUME NEW c \in Conns, MarkClosed(c) PROVE TableInv'
  <2>1. /\ ctx' \in [Runs -> {"live"} \cup Causes]
        /\ \A t \in Runs : ctx[t] # "live" => ctx'[t] # "live"
        /\ \A t \in Runs : t \in {holder(c, i) : i \in Ids} => ctx'[t] # "live"
    BY <1>0, <1>4, CancelledFacts DEF MarkClosed, Causes
  <2>2. /\ closed' = [closed EXCEPT ![c] = TRUE]
        /\ UNCHANGED <<requests, reqSeq, run, victim, found>>
    BY <1>4 DEF MarkClosed
  <2>3. TypeOK'
    BY <1>0, <2>1, <2>2 DEF TypeOK
  <2>4. \A i \in Ids : requests[c][i] # None => ctx'[requests[c][i].cancel] # "live"
    BY <1>0, <2>1 DEF holder, TypeOK, Entry
  <2>5. \A d \in Conns : d # c => closed'[d] = closed[d]
    BY <1>0, <2>2 DEF TypeOK
  <2>6. CancelStep
    BY <2>1, <2>2, <2>4, <2>5 DEF CancelStep
  <2> QED
    BY <2>3, <2>6, CancelStepTableInv
<1>5. CASE UNCHANGED vars
  <2>1. TypeOK'
    BY <1>0, <1>5 DEF vars, TypeOK
  <2>2. CancelStep
    BY <1>5 DEF vars, CancelStep
  <2> QED
    BY <2>1, <2>2, CancelStepTableInv
<1> QED
  BY <1>1, <1>2, <1>3, <1>4, <1>5

(* A run that becomes "gone" without an entry of its own, or that starts *)
(* with an ended context, changes nobody else's standing.                *)
LEMMA RunAloneTableInv ==
    ASSUME TableInv, TypeOK', NEW r \in Runs,
           run[r].status = "new",
           UNCHANGED <<closed, reqSeq, victim>>,
           \A q \in Runs : q # r => run'[q] = run[q] /\ ctx'[q] = ctx[q],
           ctx'[r] # "live",
           \/ run'[r].status = "gone"
           \/ /\ run'[r].status = "live" /\ run'[r].seq = 0
              /\ run'[r].conn \in Conns /\ run'[r].id \in Ids,
           \A c \in Conns, i \in Ids :
               \/ requests'[c][i] = requests[c][i]
               \/ /\ requests[c][i] # None /\ requests'[c][i] # None
                  /\ requests'[c][i].seq = requests[c][i].seq
                  /\ requests'[c][i].cancel = requests[c][i].cancel
                  /\ requests'[c][i].refresh = requests[c][i].refresh
    PROVE  TableInv'
<1>1. \A c \in Conns, i \in Ids : requests[c][i] # None =>
          requests[c][i].cancel \in Runs /\ requests[c][i].cancel # r
  BY DEF TableInv, TypeOK, Entry, EntriesOwned
<1>2. \A q \in Runs : victim[q] # None => victim[q] \in Runs /\ victim[q] # r /\ q # r
  BY DEF TableInv, TypeOK, VictimsStarted
<1>3. LiveHome'
  BY DEF TableInv, LiveHome, TypeOK
<1>4. TokensDistinct'
  BY DEF TableInv, TokensDistinct
<1>5. EntriesOwned'
  BY <1>1 DEF TableInv, EntriesOwned
<1>6. ClosedEntriesEnded'
  BY <1>1 DEF TableInv, ClosedEntriesEnded
<1>7. VictimsStarted' /\ RefreshSparesRequests'
  BY <1>2 DEF TableInv, VictimsStarted, RefreshSparesRequests
<1>8. NoUncancelableRun'
  <2> SUFFICES ASSUME NEW q \in Runs, run'[q].status = "live", ctx'[q] = "live"
               PROVE  \/ holder(run[q].conn, run[q].id)' = q
                      \/ CancelPending(q)'
    BY DEF NoUncancelableRun
  <2>1. /\ q # r /\ run'[q] = run[q] /\ run[q].status = "live" /\ ctx[q] = "live"
        /\ run[q].conn \in Conns /\ run[q].id \in Ids
    BY DEF TableInv, LiveHome
  <2>2. CASE CancelPending(q)
    BY <2>2 DEF CancelPending
  <2>3. CASE holder(run[q].conn, run[q].id) = q
    BY <2>1, <2>3, NoneAssumption DEF holder
  <2> QED
    BY <2>1, <2>2, <2>3 DEF TableInv, NoUncancelableRun
<1> QED
  BY <1>3, <1>4, <1>5, <1>6, <1>7, <1>8 DEF TableInv

(* registerRequest: the closed branch starts a run that has ended already. *)
LEMMA RegisterRequestTableInv ==
    ASSUME TableInv, NEW c \in Conns, NEW i \in Ids, NEW r \in Runs,
           registerRequest(c, i, r)
    PROVE  TableInv'
<1>0. TypeOK
  BY DEF TableInv
<1>1. CASE ~ closed[c]
  BY <1>1, StoreTableInv DEF registerRequest
<1>2. CASE closed[c]
  <2> DEFINE s == [status |-> "live", conn |-> c, id |-> i, seq |-> 0,
                   refresh |-> FALSE]
  <2>1. /\ run[r].status = "new"
        /\ run' = [run EXCEPT ![r] = s]
        /\ ctx' = Cancelled({r}, "ErrConnectionClosed")
        /\ UNCHANGED <<closed, requests, reqSeq, victim, found>>
    BY <1>2 DEF registerRequest
  <2>2. s \in RunState
    BY DEF RunState
  <2>3. /\ ctx' \in [Runs -> {"live"} \cup Causes]
        /\ ctx'[r] # "live"
        /\ \A q \in Runs : q # r => ctx'[q] = ctx[q]
    BY <1>0, <2>1, CancelledFacts DEF Causes
  <2>4. TypeOK'
    BY <1>0, <2>1, <2>2, <2>3 DEF TypeOK
  <2>5. run'[r] = s /\ \A q \in Runs : q # r => run'[q] = run[q]
    BY <1>0, <2>1 DEF TypeOK
  <2> QED
    <3>1. /\ run'[r].status = "live" /\ run'[r].seq = 0
          /\ run'[r].conn \in Conns /\ run'[r].id \in Ids
      BY <2>5
    <3> HIDE DEF s
    <3> QED
      BY <2>1, <2>3, <2>4, <2>5, <3>1, RunAloneTableInv
<1> QED
  BY <1>1, <1>2

(* registerRefresh: refused, deferred, or stored over a refresh. *)
LEMMA RegisterRefreshTableInv ==
    ASSUME TableInv, NEW c \in Conns, NEW i \in Ids, NEW r \in Runs,
           registerRefresh(c, i, r)
    PROVE  TableInv'
<1>0. TypeOK
  BY DEF TableInv
<1>1. CASE ~ closed[c] /\ ~ MustDefer(c, i)
  <2>1. Store(c, i, r, TRUE) /\ run[r].status = "new"
    BY <1>1 DEF registerRefresh
  <2>2. requests[c][i] = None \/ requests[c][i].refresh
    BY <1>1 DEF MustDefer
  <2> QED
    BY <1>1, <2>1, <2>2, StoreTableInv
<1>2. CASE closed[c] \/ MustDefer(c, i)
  <2>1. /\ run[r].status = "new"
        /\ run' = [run EXCEPT ![r].status = "gone", ![r].refresh = TRUE]
        /\ \E cause \in Causes : ctx' = Cancelled({r}, cause)
        /\ UNCHANGED <<closed, reqSeq, victim, found>>
    BY <1>2 DEF registerRefresh, Causes, MustDefer
  <2>2. /\ ctx' \in [Runs -> {"live"} \cup Causes]
        /\ ctx'[r] # "live"
        /\ \A q \in Runs : q # r => ctx'[q] = ctx[q]
    BY <1>0, <2>1, CancelledFacts
  <2>3. /\ run' \in [Runs -> RunState] /\ run'[r].status = "gone"
        /\ \A q \in Runs : q # r => run'[q] = run[q]
    BY ZenonT(60), <1>0, <2>1 DEF TypeOK, RunState
  <2>4. \/ requests' = requests
        \/ MustDefer(c, i) /\ requests' = [requests EXCEPT ![c][i].refreshAgain = TRUE]
    BY <1>2 DEF registerRefresh, MustDefer
  <2>5. CASE requests' = requests
    <3>1. TypeOK'
      BY <1>0, <2>1, <2>2, <2>3, <2>5 DEF TypeOK
    <3> QED
      BY <2>1, <2>2, <2>3, <2>5, <3>1, RunAloneTableInv
  <2>6. CASE MustDefer(c, i) /\ requests' = [requests EXCEPT ![c][i].refreshAgain = TRUE]
    <3> DEFINE e == [requests[c][i] EXCEPT !.refreshAgain = TRUE]
    <3>1. requests[c][i] # None /\ requests[c][i] \in Entry
      BY <1>0, <2>6 DEF MustDefer, TypeOK
    <3>2. /\ e \in Entry /\ e.seq = requests[c][i].seq
          /\ e.cancel = requests[c][i].cancel /\ e.refresh = requests[c][i].refresh
      BY <3>1 DEF Entry
    <3>3. /\ requests' \in [Conns -> [Ids -> Entry \cup {None}]]
          /\ requests'[c][i] = e
          /\ \A d \in Conns, j \in Ids :
                <<d, j>> # <<c, i>> => requests'[d][j] = requests[d][j]
      BY <1>0, <2>6, <3>2 DEF TypeOK
    <3>4. e # None
      BY <3>2, NoneAssumption
    <3>5. TypeOK'
      BY <1>0, <2>1, <2>2, <2>3, <3>3 DEF TypeOK
    <3>6. \A d \in Conns, j \in Ids :
             \/ requests'[d][j] = requests[d][j]
             \/ /\ requests[d][j] # None /\ requests'[d][j] # None
                /\ requests'[d][j].seq = requests[d][j].seq
                /\ requests'[d][j].cancel = requests[d][j].cancel
                /\ requests'[d][j].refresh = requests[d][j].refresh
      BY <3>1, <3>2, <3>3, <3>4
    <3> QED
      BY ZenonT(60), <2>1, <2>2, <2>3, <3>5, <3>6, RunAloneTableInv
  <2> QED
    BY <2>4, <2>5, <2>6
<1> QED
  BY <1>1, <1>2

(* unregisterRequest removes the entry only when it is the run's own, so *)
(* every other live run keeps its way to be cancelled.                   *)
LEMMA UnregisterTableInv ==
    ASSUME TableInv, NEW r \in Runs, unregisterRequest(r)
    PROVE  TableInv'
<1> DEFINE c == run[r].conn
           i == run[r].id
<1>0. TypeOK /\ run[r].status = "live" /\ victim[r] = None
  BY DEF TableInv, unregisterRequest
<1>1. c \in Conns /\ i \in Ids
  BY <1>0 DEF TableInv, LiveHome
<1>2. /\ requests' = IF Owns(r) THEN [requests EXCEPT ![c][i] = None] ELSE requests
      /\ run' = [run EXCEPT ![r].status = "gone"]
      /\ ctx' = Cancelled({r}, "returned")
      /\ UNCHANGED <<closed, reqSeq, victim, found>>
  BY DEF unregisterRequest
<1>3. /\ ctx' \in [Runs -> {"live"} \cup Causes]
      /\ \A q \in Runs : ctx[q] # "live" => ctx'[q] # "live"
      /\ \A q \in Runs : q # r => ctx'[q] = ctx[q]
  BY <1>0, <1>2, CancelledFacts DEF Causes
<1>4. /\ run' \in [Runs -> RunState] /\ run'[r].status = "gone"
      /\ run'[r].refresh = run[r].refresh
      /\ \A q \in Runs : q # r => run'[q] = run[q]
  BY <1>0, <1>2 DEF TypeOK, RunState
<1>5. Owns(r) <=> holder(c, i) = r
  BY <1>0, OwnsIsHolder
<1>6. \A d \in Conns, j \in Ids :
         requests'[d][j] = IF holder(d, j) = r THEN None ELSE requests[d][j]
  <2> SUFFICES ASSUME NEW d \in Conns, NEW j \in Ids
               PROVE  requests'[d][j] = IF holder(d, j) = r THEN None ELSE requests[d][j]
    OBVIOUS
  <2>1. CASE <<d, j>> = <<c, i>>
    BY <1>0, <1>1, <1>2, <1>5, <2>1 DEF TypeOK
  <2>2. CASE <<d, j>> # <<c, i>>
    <3>1. holder(d, j) # r
      BY <2>2, NoneAssumption DEF TableInv, EntriesOwned, holder
    <3> QED
      BY <1>0, <1>1, <1>2, <2>2, <3>1 DEF TypeOK
  <2> QED
    BY <2>1, <2>2
<1>7. TypeOK'
  <2>1. requests' \in [Conns -> [Ids -> Entry \cup {None}]]
    BY <1>0, <1>1, <1>2 DEF TypeOK
  <2> QED
    BY <1>0, <1>2, <1>3, <1>4, <2>1 DEF TypeOK
<1>8. \A d \in Conns, j \in Ids : requests'[d][j] # None =>
          /\ requests'[d][j] = requests[d][j] /\ requests[d][j] # None
          /\ requests[d][j].cancel \in Runs /\ requests[d][j].cancel # r
  BY <1>0, <1>6 DEF holder, TypeOK, Entry
<1>9. LiveHome' /\ TokensDistinct'
  BY <1>2, <1>4 DEF TableInv, LiveHome, TokensDistinct
<1>10. EntriesOwned'
  BY <1>4, <1>8 DEF TableInv, EntriesOwned
<1>11. ClosedEntriesEnded'
  <2> SUFFICES ASSUME NEW d \in Conns, NEW j \in Ids,
                      closed'[d], requests'[d][j] # None
               PROVE  ctx'[requests'[d][j].cancel] # "live"
    BY DEF ClosedEntriesEnded
  <2>1. closed[d]
    BY <1>2
  <2>2. ctx[requests[d][j].cancel] # "live"
    BY <1>8, <2>1 DEF TableInv, ClosedEntriesEnded
  <2> QED
    BY <1>3, <1>8, <2>2
<1>12. VictimsStarted'
  BY <1>0, <1>2, <1>4 DEF TableInv, VictimsStarted, TypeOK
<1>13. RefreshSparesRequests'
  <2>1. \A q \in Runs : run'[q].refresh = run[q].refresh
    BY <1>4
  <2> QED
    BY <1>0, <1>2, <2>1 DEF TableInv, RefreshSparesRequests, TypeOK
<1>14. NoUncancelableRun'
  <2> SUFFICES ASSUME NEW q \in Runs, run'[q].status = "live", ctx'[q] = "live"
               PROVE  \/ holder(run[q].conn, run[q].id)' = q
                      \/ CancelPending(q)'
    BY DEF NoUncancelableRun
  <2>1. /\ q # r /\ run'[q] = run[q] /\ run[q].status = "live" /\ ctx[q] = "live"
        /\ run[q].conn \in Conns /\ run[q].id \in Ids
    BY <1>3, <1>4 DEF TableInv, LiveHome
  <2>2. CASE CancelPending(q)
    BY <1>2, <2>2 DEF CancelPending
  <2>3. CASE holder(run[q].conn, run[q].id) = q
    <3>1. requests'[run[q].conn][run[q].id] = requests[run[q].conn][run[q].id]
      BY <1>6, <2>1, <2>3
    <3> QED
      BY <2>1, <2>3, <3>1 DEF holder
  <2> QED
    BY <2>1, <2>2, <2>3 DEF TableInv, NoUncancelableRun
<1> QED
  BY <1>7, <1>9, <1>10, <1>11, <1>12, <1>13, <1>14 DEF TableInv

(* Every step of the request table preserves the invariant. *)
LEMMA NextTableInv == TableInv /\ [Next]_vars => TableInv'
BY RegisterRequestTableInv, RegisterRefreshTableInv, UnregisterTableInv,
   CancelsTableInv
   DEF Next

(* An entry always belongs to the live run that registered it, and no live *)
(* handler is beyond the reach of a cancel.                                 *)
THEOREM EveryRunCancelable ==
    Spec => []TableSound
<1>1. Init => TableInv
  BY InitTableInv
<1>2. TableInv /\ [Next]_vars => TableInv'
  BY NextTableInv
<1>3. TableInv => TableSound
  BY DEF TableInv, TableSound
<1> QED
  BY <1>1, <1>2, <1>3, PTL DEF Spec

(* Closing a connection ends the context of every handler it runs, those *)
(* that register during or after the close included.                     *)
THEOREM CloseEndsEveryRun == Spec => []ClosedRunsEnd
<1>1. TableInv => ClosedRunsEnd
  <2> SUFFICES ASSUME TableInv, NEW r \in Runs, run[r].status = "live",
                      closed[run[r].conn], ctx[r] = "live"
               PROVE  CancelPending(r)
    BY DEF ClosedRunsEnd
  <2>1. run[r].conn \in Conns /\ run[r].id \in Ids
    BY DEF TableInv, LiveHome
  <2>2. holder(run[r].conn, run[r].id) # r
    BY <2>1, NoneAssumption DEF TableInv, ClosedEntriesEnded, holder
  <2> QED
    BY <2>2 DEF TableInv, NoUncancelableRun
<1> QED
  BY <1>1, InitTableInv, NextTableInv, PTL DEF Spec

(* A server-driven refresh supersedes refreshes only, never a request or a *)
(* subscribe of the client.                                                *)
THEOREM RefreshesSpareRequests == Spec => []RefreshSparesRequests
<1>1. TableInv => RefreshSparesRequests
  BY DEF TableInv
<1> QED
  BY <1>1, InitTableInv, NextTableInv, PTL DEF Spec

-----------------------------------------------------------------------------
(* Facts of the table that the handlers of ConnDispatch rest on. *)

(* A context ends only after its run has registered. *)
NewLive == \A r \in Runs : run[r].status = "new" => ctx[r] = "live"

(* A pending cancel is for the run whose entry, under the same connection *)
(* and ID, was replaced; no entry leads to that run any more.             *)
VictimsReplaced ==
    \A q \in Runs : victim[q] # None =>
        /\ run[victim[q]].conn = run[q].conn
        /\ run[victim[q]].id = run[q].id
        /\ \A c \in Conns, i \in Ids : holder(c, i) # victim[q]

(* What cancelRequest found has registered. *)
FoundStarted == \A c \in Conns : found[c] # None => run[found[c]].status # "new"

(* A refresh is deferred to a client's request only. *)
AgainIsClient ==
    \A c \in Conns, i \in Ids : requests[c][i] # None =>
        ~ (requests[c][i].refreshAgain /\ requests[c][i].refresh)

ReplacedInv == NewLive /\ VictimsReplaced /\ FoundStarted /\ AgainIsClient

(* What a registration does to the table, pointwise. *)
Stored(c, i, r, refresh) ==
    /\ run'[r].status = "live" /\ run'[r].conn = c /\ run'[r].id = i
    /\ run'[r].refresh = refresh
    /\ \A q \in Runs : q # r => run'[q] = run[q] /\ victim'[q] = victim[q]
    /\ victim'[r] = holder(c, i)
    /\ requests'[c][i] # None
    /\ requests'[c][i].cancel = r
    /\ requests'[c][i].refreshAgain = FALSE
    /\ \A d \in Conns, j \in Ids :
          <<d, j>> # <<c, i>> => requests'[d][j] = requests[d][j]
    /\ closed' = closed /\ ctx' = ctx /\ found' = found

(* Store is such a registration. *)
LEMMA StoreEffect ==
    ASSUME TableInv, NEW c \in Conns, NEW i \in Ids, NEW r \in Runs,
           NEW refresh \in BOOLEAN, Store(c, i, r, refresh)
    PROVE  Stored(c, i, r, refresh)
<1>1. requests'[c][i] = [seq |-> reqSeq[c] + 1, cancel |-> r, refresh |-> refresh,
                         refreshAgain |-> FALSE]
  BY DEF Store, TableInv, TypeOK
<1>2. requests'[c][i] \in Entry
  BY <1>1 DEF Entry, TableInv, TypeOK
<1>3. requests'[c][i] # None
  BY <1>2, NoneAssumption
<1>4. /\ run'[r] = [status |-> "live", conn |-> c, id |-> i,
                    seq |-> reqSeq[c] + 1, refresh |-> refresh]
      /\ \A q \in Runs : q # r => run'[q] = run[q] /\ victim'[q] = victim[q]
      /\ victim'[r] = holder(c, i)
      /\ closed' = closed /\ ctx' = ctx /\ found' = found
  BY DEF Store, TableInv, TypeOK
<1>5. \A d \in Conns, j \in Ids :
         <<d, j>> # <<c, i>> => requests'[d][j] = requests[d][j]
  BY DEF Store, TableInv, TypeOK
<1> QED
  BY <1>1, <1>3, <1>4, <1>5 DEF Stored

(* The run an entry leads to is live and at home under it. *)
LEMMA HolderFacts ==
    ASSUME TableInv, NEW c \in Conns, NEW i \in Ids, holder(c, i) # None
    PROVE  LET h == holder(c, i) IN
           /\ h \in Runs /\ run[h].status = "live"
           /\ run[h].conn = c /\ run[h].id = i
           /\ requests[c][i] # None /\ requests[c][i].cancel = h
           /\ run[h].refresh = requests[c][i].refresh
<1>1. requests[c][i] # None /\ holder(c, i) = requests[c][i].cancel
  BY DEF holder
<1>2. requests[c][i].cancel \in Runs
  BY <1>1 DEF TableInv, TypeOK, Entry
<1> QED
  BY <1>1, <1>2 DEF TableInv, EntriesOwned

(* A registration keeps the facts: the run it replaces loses its entry. *)
LEMMA StoreReplaced ==
    ASSUME TableInv, ReplacedInv, NEW c \in Conns, NEW i \in Ids, NEW r \in Runs,
           NEW refresh \in BOOLEAN, run[r].status = "new",
           Store(c, i, r, refresh)
    PROVE  ReplacedInv'
<1>0. Stored(c, i, r, refresh)
  BY StoreEffect
<1>1. /\ run'[r].status = "live" /\ run'[r].conn = c /\ run'[r].id = i
      /\ \A q \in Runs : q # r => run'[q] = run[q] /\ victim'[q] = victim[q]
      /\ victim'[r] = holder(c, i)
      /\ requests'[c][i].refreshAgain = FALSE
      /\ holder(c, i)' = r
      /\ \A d \in Conns, j \in Ids :
            <<d, j>> # <<c, i>> => requests'[d][j] = requests[d][j]
      /\ UNCHANGED <<closed, ctx, found>>
  BY <1>0 DEF Stored, holder
<1>2. \A d \in Conns, j \in Ids : <<d, j>> # <<c, i>> => holder(d, j)' = holder(d, j)
  BY <1>1 DEF holder
<1>3. NewLive'
  BY <1>1 DEF ReplacedInv, NewLive
<1>4. VictimsReplaced'
  <2> SUFFICES ASSUME NEW q \in Runs, victim'[q] # None
               PROVE  /\ run'[victim'[q]].conn = run'[q].conn
                      /\ run'[victim'[q]].id = run'[q].id
                      /\ \A d \in Conns, j \in Ids : holder(d, j)' # victim'[q]
    BY DEF VictimsReplaced
  <2>1. CASE q = r
    <3> DEFINE v == holder(c, i)
    <3>1. v \in Runs /\ run[v].status = "live" /\ run[v].conn = c /\ run[v].id = i /\ v # r
      BY <1>1, <2>1, HolderFacts
    <3>2. \A d \in Conns, j \in Ids : holder(d, j) = v => <<d, j>> = <<c, i>>
      BY <3>1, HolderFacts, NoneAssumption
    <3> QED
      BY <1>1, <1>2, <2>1, <3>1, <3>2
  <2>2. CASE q # r
    <3>1. /\ victim'[q] = victim[q] /\ victim[q] \in Runs /\ victim[q] # r
      BY <1>1, <2>2 DEF TableInv, TypeOK, VictimsStarted
    <3> QED
      BY <1>1, <1>2, <2>2, <3>1 DEF ReplacedInv, VictimsReplaced
  <2> QED
    BY <2>1, <2>2
<1>5. FoundStarted'
  <2>1. \A d \in Conns : found[d] # None => found[d] \in Runs /\ found'[d] = found[d]
    BY <1>1 DEF TableInv, TypeOK
  <2> QED
    BY <1>1, <2>1 DEF ReplacedInv, FoundStarted
<1>6. AgainIsClient'
  BY <1>1 DEF ReplacedInv, AgainIsClient
<1> QED
  BY <1>3, <1>4, <1>5, <1>6 DEF ReplacedInv

(* Every step of the table keeps the facts. *)
LEMMA NextReplacedInv == TableInv /\ ReplacedInv /\ [Next]_vars => ReplacedInv'
<1> SUFFICES ASSUME TableInv, ReplacedInv, [Next]_vars PROVE ReplacedInv'
  OBVIOUS
<1>0. /\ \A d \in Conns, j \in Ids : requests[d][j] # None => requests[d][j] \in Entry
      /\ \A q \in Runs : victim[q] # None => victim[q] \in Runs
      /\ \A d \in Conns : found[d] # None => found[d] \in Runs
  BY DEF TableInv, TypeOK
<1>1. ASSUME NEW c \in Conns, NEW i \in Ids, NEW r \in Runs,
             registerRequest(c, i, r)
      PROVE  ReplacedInv'
  <2>1. CASE closed[c]
    <3>a. /\ run' = [run EXCEPT ![r] = [status |-> "live", conn |-> c, id |-> i,
                                        seq |-> 0, refresh |-> FALSE]]
          /\ ctx' = Cancelled({r}, "ErrConnectionClosed")
          /\ UNCHANGED <<requests, victim, found>> /\ run[r].status = "new"
      BY <1>1, <2>1 DEF registerRequest
    <3>1. /\ run'[r].status = "live"
          /\ \A q \in Runs : q # r => run'[q] = run[q] /\ ctx'[q] = ctx[q]
          /\ UNCHANGED <<requests, victim, found>> /\ run[r].status = "new"
      BY <3>a DEF Cancelled, TableInv, TypeOK
    <3>2. \A q \in Runs : victim[q] # None => victim[q] # r /\ q # r
      BY <3>1 DEF TableInv, VictimsStarted
    <3> QED
      BY <1>0, <3>1, <3>2 DEF ReplacedInv, NewLive, VictimsReplaced, FoundStarted,
                        AgainIsClient, holder
  <2>2. CASE ~ closed[c]
    BY <1>1, <2>2, StoreReplaced DEF registerRequest
  <2> QED
    BY <2>1, <2>2
<1>2. ASSUME NEW c \in Conns, NEW i \in Ids, NEW r \in Runs,
             registerRefresh(c, i, r)
      PROVE  ReplacedInv'
  <2>0. run[r].status = "new"
    BY <1>2 DEF registerRefresh
  <2>1. CASE closed[c] \/ MustDefer(c, i)
    <3>a. /\ run' = [run EXCEPT ![r].status = "gone", ![r].refresh = TRUE]
          /\ \E cause : ctx' = Cancelled({r}, cause)
          /\ UNCHANGED <<victim, found>>
      BY <1>2, <2>1 DEF registerRefresh, MustDefer
    <3>1. /\ run'[r].status = "gone"
          /\ \A q \in Runs : q # r => run'[q] = run[q] /\ ctx'[q] = ctx[q]
          /\ UNCHANGED <<victim, found>>
      BY <3>a DEF Cancelled, TableInv, TypeOK, RunState
    <3>2. \A q \in Runs : victim[q] # None => victim[q] # r /\ q # r
      BY <2>0 DEF TableInv, VictimsStarted
    <3>3. \/ requests' = requests
          \/ /\ requests[c][i] # None /\ ~ requests[c][i].refresh
             /\ requests' = [requests EXCEPT ![c][i].refreshAgain = TRUE]
      BY <1>2, <2>1 DEF registerRefresh, MustDefer
    <3>b. ASSUME requests' # requests
          PROVE  /\ requests'[c][i] = [requests[c][i] EXCEPT !.refreshAgain = TRUE]
                 /\ requests[c][i] \in Entry /\ ~ requests[c][i].refresh
                 /\ \A d \in Conns, j \in Ids :
                       <<d, j>> # <<c, i>> => requests'[d][j] = requests[d][j]
      <4> DEFINE e == [requests[c][i] EXCEPT !.refreshAgain = TRUE]
      <4>1. /\ requests' = [requests EXCEPT ![c][i] = e]
            /\ requests[c][i] # None /\ ~ requests[c][i].refresh
        BY <3>3, <3>b
      <4> HIDE DEF e
      <4>2. /\ requests'[c][i] = e
            /\ \A d \in Conns, j \in Ids :
                  <<d, j>> # <<c, i>> => requests'[d][j] = requests[d][j]
        BY <4>1 DEF TableInv, TypeOK
      <4> QED
        BY <1>0, <4>1, <4>2 DEF e
    <3>c. ASSUME requests' # requests
          PROVE  /\ requests'[c][i] \in Entry
                 /\ requests'[c][i].cancel = requests[c][i].cancel
                 /\ requests'[c][i].refresh = requests[c][i].refresh
      BY <3>b, <3>c DEF Entry
    <3>4. \A d \in Conns, j \in Ids :
             /\ requests'[d][j] # None <=> requests[d][j] # None
             /\ requests[d][j] # None =>
                   /\ requests'[d][j].cancel = requests[d][j].cancel
                   /\ requests'[d][j].refresh = requests[d][j].refresh
             /\ requests'[d][j] # requests[d][j] => ~ requests[d][j].refresh
      BY <3>b, <3>c, NoneAssumption
    <3>5. \A d \in Conns, j \in Ids : holder(d, j)' = holder(d, j)
      BY <3>4 DEF holder
    <3>6. AgainIsClient'
      BY <3>4 DEF ReplacedInv, AgainIsClient
    <3> QED
      BY <1>0, <2>0, <3>1, <3>2, <3>5, <3>6
         DEF ReplacedInv, NewLive, VictimsReplaced, FoundStarted
  <2>2. CASE ~ closed[c] /\ ~ MustDefer(c, i)
    BY <1>2, <2>0, <2>2, StoreReplaced DEF registerRefresh
  <2> QED
    BY <2>1, <2>2
<1>3. ASSUME NEW r \in Runs, unregisterRequest(r) PROVE ReplacedInv'
  <2>1. /\ run'[r] = [run[r] EXCEPT !.status = "gone"] /\ run[r].status = "live"
        /\ \A q \in Runs : q # r => run'[q] = run[q] /\ ctx'[q] = ctx[q]
        /\ UNCHANGED <<victim, found>>
    BY <1>3 DEF unregisterRequest, Cancelled, TableInv, TypeOK
  <2>2. run'[r].status = "gone" /\ run'[r].conn = run[r].conn /\ run'[r].id = run[r].id
    BY <2>1 DEF TableInv, TypeOK, RunState
  <2>3. \A d \in Conns, j \in Ids :
           requests'[d][j] = None \/ requests'[d][j] = requests[d][j]
    BY <1>3 DEF unregisterRequest, TableInv, TypeOK
  <2>4. \A d \in Conns, j \in Ids : holder(d, j)' = None \/ holder(d, j)' = holder(d, j)
    BY <2>3 DEF holder
  <2>5. VictimsReplaced'
    <3>1. \A q \in Runs : run'[q].conn = run[q].conn /\ run'[q].id = run[q].id
      BY <2>1, <2>2
    <3> QED
      BY <1>0, <2>1, <2>4, <3>1 DEF ReplacedInv, VictimsReplaced
  <2>6. AgainIsClient'
    BY <2>3 DEF ReplacedInv, AgainIsClient
  <2> QED
    BY ZenonT(60), <1>0, <2>1, <2>2, <2>5, <2>6 DEF ReplacedInv, NewLive, FoundStarted
<1>4. ASSUME NEW r \in Runs, CancelOld(r) PROVE ReplacedInv'
  <2>1. /\ UNCHANGED <<requests, run, found>>
        /\ \A q \in Runs : victim'[q] = victim[q] \/ victim'[q] = None
        /\ \A q \in Runs : q # victim[r] => ctx'[q] = ctx[q]
        /\ victim[r] # None
    BY <1>4 DEF CancelOld, Cancelled, TableInv, TypeOK
  <2>2. run[victim[r]].status # "new"
    BY <2>1 DEF TableInv, VictimsStarted
  <2> QED
    BY <2>1, <2>2 DEF ReplacedInv, NewLive, VictimsReplaced, FoundStarted,
                      AgainIsClient, holder
<1>5. ASSUME NEW c \in Conns, NEW i \in Ids, FindRequest(c, i) PROVE ReplacedInv'
  <2>1. /\ UNCHANGED <<requests, run, ctx, victim>>
        /\ \A d \in Conns : found'[d] = IF d = c THEN holder(c, i) ELSE found[d]
    BY <1>5 DEF FindRequest, TableInv, TypeOK
  <2>2. FoundStarted'
    BY <2>1, HolderFacts DEF ReplacedInv, FoundStarted
  <2> QED
    BY <2>1, <2>2 DEF ReplacedInv, NewLive, VictimsReplaced, AgainIsClient, holder
<1>6. ASSUME NEW c \in Conns, CancelFound(c) PROVE ReplacedInv'
  <2>1. /\ UNCHANGED <<requests, run, victim>>
        /\ \A d \in Conns : found'[d] = found[d] \/ found'[d] = None
        /\ \A q \in Runs : q # found[c] => ctx'[q] = ctx[q]
        /\ found[c] # None
    BY <1>6 DEF CancelFound, Cancelled, TableInv, TypeOK
  <2> QED
    BY <2>1 DEF ReplacedInv, NewLive, VictimsReplaced, FoundStarted, AgainIsClient,
                holder
<1>7. ASSUME NEW c \in Conns, MarkClosed(c) PROVE ReplacedInv'
  <2>1. /\ UNCHANGED <<requests, run, victim, found>>
        /\ \A q \in Runs : ctx'[q] = ctx[q] \/ \E i \in Ids : q = holder(c, i)
    BY <1>7 DEF MarkClosed, Cancelled, TableInv, TypeOK
  <2>2. NewLive'
    BY <2>1, HolderFacts, NoneAssumption DEF ReplacedInv, NewLive
  <2> QED
    BY <2>1, <2>2 DEF ReplacedInv, VictimsReplaced, FoundStarted, AgainIsClient, holder
<1>8. CASE UNCHANGED vars
  BY <1>8 DEF vars, ReplacedInv, NewLive, VictimsReplaced, FoundStarted,
              AgainIsClient, holder
<1> QED
  BY <1>1, <1>2, <1>3, <1>4, <1>5, <1>6, <1>7, <1>8 DEF Next

(* Nothing is replaced initially. *)
LEMMA InitReplacedInv == Init => ReplacedInv
BY DEF Init, ReplacedInv, NewLive, VictimsReplaced, FoundStarted, AgainIsClient

(* Only run r moves: the others keep their registration and context. *)
Alone(r) ==
    /\ \A q \in Runs : q # r => run'[q] = run[q] /\ ctx'[q] = ctx[q]
    /\ victim' = victim /\ found' = found /\ closed' = closed

(* registerRequest, pointwise. *)
LEMMA RequestEffect ==
    ASSUME TableInv, NEW c \in Conns, NEW i \in Ids, NEW r \in Runs,
           registerRequest(c, i, r)
    PROVE  /\ run[r].status = "new"
           /\ ~ closed[c] => Stored(c, i, r, FALSE)
           /\ closed[c] => /\ run'[r].status = "live" /\ run'[r].conn = c
                           /\ run'[r].id = i /\ run'[r].refresh = FALSE
                           /\ requests' = requests /\ Alone(r)
<1>1. ASSUME closed[c]
      PROVE  /\ run'[r].status = "live" /\ run'[r].conn = c
             /\ run'[r].id = i /\ run'[r].refresh = FALSE
             /\ requests' = requests /\ Alone(r)
  <2>1. /\ run' = [run EXCEPT ![r] = [status |-> "live", conn |-> c, id |-> i,
                                      seq |-> 0, refresh |-> FALSE]]
        /\ ctx' = Cancelled({r}, "ErrConnectionClosed")
        /\ requests' = requests /\ victim' = victim /\ found' = found
        /\ closed' = closed
    BY <1>1 DEF registerRequest
  <2> QED
    BY <2>1 DEF Alone, Cancelled, TableInv, TypeOK
<1>2. ASSUME ~ closed[c] PROVE Stored(c, i, r, FALSE)
  BY <1>2, StoreEffect DEF registerRequest
<1> QED
  BY <1>1, <1>2 DEF registerRequest

(* The entry of c under i leads where it led, with no deferred refresh lost. *)
EntryKept(c, i) ==
    /\ holder(c, i)' = holder(c, i)
    /\ requests[c][i] # None /\ requests[c][i].refreshAgain
          => requests'[c][i].refreshAgain

(* registerRefresh, pointwise: it ends at once, or registers like a request *)
(* where it found no client run.                                            *)
LEMMA RefreshEffect ==
    ASSUME TableInv, NEW c \in Conns, NEW i \in Ids, NEW r \in Runs,
           registerRefresh(c, i, r)
    PROVE  /\ run[r].status = "new"
           /\ \/ /\ Stored(c, i, r, TRUE) /\ ~ closed[c]
                 /\ requests[c][i] # None => requests[c][i].refresh
              \/ /\ run'[r].status = "gone" /\ run'[r].refresh = TRUE /\ Alone(r)
                 /\ \A d \in Conns, j \in Ids : EntryKept(d, j)
                 /\ ~ closed[c] => /\ requests'[c][i].refreshAgain
                                   /\ holder(c, i) # None
<1>1. run[r].status = "new"
  BY DEF registerRefresh
<1>2. ASSUME closed[c]
      PROVE  /\ run'[r].status = "gone" /\ run'[r].refresh = TRUE /\ Alone(r)
             /\ \A d \in Conns, j \in Ids : EntryKept(d, j)
  <2>1. /\ run' = [run EXCEPT ![r].status = "gone", ![r].refresh = TRUE]
        /\ ctx' = Cancelled({r}, "ErrConnectionClosed")
        /\ requests' = requests /\ victim' = victim /\ found' = found
        /\ closed' = closed
    BY <1>2 DEF registerRefresh, MustDefer
  <2> QED
    BY <2>1 DEF Alone, Cancelled, TableInv, TypeOK, RunState, EntryKept, holder
<1>3. ASSUME MustDefer(c, i)
      PROVE  /\ run'[r].status = "gone" /\ run'[r].refresh = TRUE /\ Alone(r)
             /\ \A d \in Conns, j \in Ids : EntryKept(d, j)
             /\ requests'[c][i].refreshAgain
             /\ holder(c, i) # None
  <2> DEFINE e == [requests[c][i] EXCEPT !.refreshAgain = TRUE]
  <2>1. /\ run' = [run EXCEPT ![r].status = "gone", ![r].refresh = TRUE]
        /\ ctx' = Cancelled({r}, "returned")
        /\ requests' = [requests EXCEPT ![c][i] = e]
        /\ victim' = victim /\ found' = found /\ closed' = closed
    BY <1>3 DEF registerRefresh, MustDefer
  <2>2. requests[c][i] \in Entry
    BY <1>3 DEF MustDefer, TableInv, TypeOK
  <2>3. e \in Entry /\ e.cancel = requests[c][i].cancel /\ e.refreshAgain
    BY <2>2 DEF Entry
  <2> HIDE DEF e
  <2>4. /\ requests'[c][i] = e
        /\ \A d \in Conns, j \in Ids :
              <<d, j>> # <<c, i>> => requests'[d][j] = requests[d][j]
    BY <2>1 DEF TableInv, TypeOK
  <2>5. \A d \in Conns, j \in Ids : EntryKept(d, j)
    BY <2>2, <2>3, <2>4, NoneAssumption DEF EntryKept, holder
  <2>6. run'[r].status = "gone" /\ run'[r].refresh = TRUE /\ Alone(r)
    BY <2>1 DEF Alone, Cancelled, TableInv, TypeOK, RunState
  <2>7. holder(c, i) # None
    BY <2>2, NoneAssumption DEF holder, Entry
  <2> QED
    BY <2>3, <2>4, <2>5, <2>6, <2>7
<1>4. ASSUME ~ closed[c], ~ MustDefer(c, i) PROVE Stored(c, i, r, TRUE)
  BY <1>4, StoreEffect DEF registerRefresh
<1> QED
  BY <1>1, <1>2, <1>3, <1>4 DEF MustDefer

(* unregisterRequest, pointwise: it takes away the run's own entry only, *)
(* and returns the refresh that was deferred to it.                      *)
LEMMA UnregisterEffect ==
    ASSUME TableInv, NEW r \in Runs, unregisterRequest(r)
    PROVE  /\ run[r].status = "live" /\ run'[r].status = "gone"
           /\ run'[r].conn = run[r].conn /\ run'[r].id = run[r].id
           /\ run'[r].refresh = run[r].refresh
           /\ Alone(r)
           /\ \A d \in Conns, j \in Ids : holder(d, j) # r => requests'[d][j] = requests[d][j]
           /\ \A d \in Conns, j \in Ids :
                 holder(d, j) = r /\ requests[d][j].refreshAgain => refreshAgain(r)
<1>1. /\ run' = [run EXCEPT ![r].status = "gone"]
      /\ ctx' = Cancelled({r}, "returned")
      /\ requests' = IF Owns(r) THEN [requests EXCEPT ![run[r].conn][run[r].id] = None]
                                ELSE requests
      /\ victim' = victim /\ found' = found /\ closed' = closed
      /\ run[r].status = "live"
  BY DEF unregisterRequest
<1>2. Alone(r)
  BY <1>1 DEF Alone, Cancelled, TableInv, TypeOK
<1>3. run'[r].status = "gone" /\ run'[r].conn = run[r].conn /\ run'[r].id = run[r].id
      /\ run'[r].refresh = run[r].refresh
  BY <1>1 DEF TableInv, TypeOK, RunState
<1>4. Owns(r) <=> holder(run[r].conn, run[r].id) = r
  BY <1>1, OwnsIsHolder
<1>5. run[r].conn \in Conns /\ run[r].id \in Ids
  BY <1>1 DEF TableInv, LiveHome
<1>6. \A d \in Conns, j \in Ids : holder(d, j) # r => requests'[d][j] = requests[d][j]
  BY <1>1, <1>4, <1>5 DEF TableInv, TypeOK
<1>7. ASSUME NEW d \in Conns, NEW j \in Ids, holder(d, j) = r, requests[d][j].refreshAgain
      PROVE  refreshAgain(r)
  <2>1. d = run[r].conn /\ j = run[r].id
    BY <1>7, HolderFacts, NoneAssumption
  <2> QED
    BY <1>4, <1>7, <2>1 DEF refreshAgain
<1> QED
  BY <1>1, <1>2, <1>3, <1>6, <1>7

-----------------------------------------------------------------------------
(* ActiveIds(c) stays finite although Ids need not be; the cap counts it. *)
ActiveFinite == \A c \in Conns : IsFiniteSet(ActiveIds(c))

IndexInv ==
    /\ SubTypeOK
    /\ ConnIndexOwned
    /\ KeyIndexComplete
    /\ KeyIndexSound
    /\ NothingOutlivesConn

-----------------------------------------------------------------------------
(* The initial indexes are empty, so every part of the invariant holds. *)
LEMMA InitIndexInv ==
    ASSUME NoSub \notin Subs, NoSub \notin Subscription
    PROVE  SubInit => IndexInv
BY DEF SubInit, IndexInv, SubTypeOK, ConnIndexOwned, KeyIndexComplete,
       KeyIndexSound, NothingOutlivesConn, ActiveIds, has

(* A new object is indexed under exactly its own keys, and the slot it *)
(* takes belongs to a connection that is not closed, hence not swept.  *)
LEMMA RegisterIndexInv ==
    ASSUME NoSub \notin Subs, NoSub \notin Subscription,
           IndexInv,
           NEW s \in Subs, NEW c \in Conns, NEW i \in Ids,
           NEW K \in SUBSET Keys, NEW p \in Params, NEW w \in BOOLEAN,
           RegisterOK(s, c, i, K, p, w)
    PROVE  IndexInv'
<1> DEFINE o == [conn |-> c, id |-> i, keys |-> K, params |-> p, wantsPatch |-> w]
<1> USE DEF IndexInv
<1>1. /\ o \in Subscription
      /\ obj[s] = NoSub /\ ~ closed[c]
      /\ obj' = [obj EXCEPT ![s] = o]
      /\ byConn' = [byConn EXCEPT ![c][i] = s]
      /\ byKey' = [k \in Keys |-> IF k \in K THEN byKey[k] \cup {s} ELSE byKey[k]]
      /\ UNCHANGED <<closed, swept>>
  BY DEF RegisterOK, Subscription
<1>2. SubTypeOK'
  BY <1>1 DEF SubTypeOK
<1>3. /\ obj'[s] = o /\ s # NoSub /\ o # NoSub
      /\ \A t \in Subs : t # s => obj'[t] = obj[t]
  BY <1>1 DEF SubTypeOK
<1>4. /\ byConn'[c][i] = s
      /\ \A d \in Conns, j \in Ids :
            <<d, j>> # <<c, i>> => byConn'[d][j] = byConn[d][j]
  BY <1>1 DEF SubTypeOK
<1>5. \A d \in Conns, j \in Ids : has(d, j) => byConn[d][j] # s
  BY <1>1 DEF ConnIndexOwned
<1>6. \A d \in Conns, j \in Ids : has(d, j) => byConn[d][j] \in Subs
  BY DEF SubTypeOK, has
<1>7. ConnIndexOwned'
  BY <1>3, <1>4, <1>5, <1>6 DEF ConnIndexOwned, has
<1>8. KeyIndexComplete'
  <2> SUFFICES ASSUME NEW d \in Conns, NEW j \in Ids, has(d, j)',
                      NEW k \in obj'[byConn'[d][j]].keys
               PROVE  byConn'[d][j] \in byKey'[k]
    BY DEF KeyIndexComplete
  <2>1. CASE <<d, j>> = <<c, i>>
    BY <1>1, <1>3, <1>4, <2>1
  <2>2. CASE <<d, j>> # <<c, i>>
    <3>1. has(d, j) /\ k \in obj[byConn[d][j]].keys /\ k \in Keys
      BY <1>3, <1>4, <1>5, <1>6, <2>2 DEF has, SubTypeOK, ConnIndexOwned, Subscription
    <3> QED
      BY <1>1, <1>4, <2>2, <3>1 DEF KeyIndexComplete, SubTypeOK
  <2> QED
    BY <2>1, <2>2
<1>9. KeyIndexSound'
  <2> SUFFICES ASSUME NEW k \in Keys, NEW t \in byKey'[k]
               PROVE  obj'[t] # NoSub /\ k \in obj'[t].keys
    BY DEF KeyIndexSound
  <2>1. t = s \/ t \in byKey[k]
    BY <1>1
  <2>2. s \notin byKey[k]
    BY <1>1 DEF KeyIndexSound
  <2>3. CASE t = s
    BY <1>1, <1>3, <2>2, <2>3
  <2>4. CASE t # s
    BY <1>3, <2>1, <2>4 DEF KeyIndexSound, SubTypeOK
  <2> QED
    BY <2>3, <2>4
<1>10. NothingOutlivesConn'
  BY <1>1, <1>4 DEF NothingOutlivesConn, ActiveIds, has
<1> QED
  BY <1>2, <1>7, <1>8, <1>9, <1>10

(* Removing a set of objects from the key index keeps every other entry, *)
(* and leaves none of the removed objects behind.                        *)
LEMMA UnindexedFacts ==
    ASSUME SubTypeOK, KeyIndexSound,
           NEW S \in SUBSET Subs, \A s \in S : obj[s] # NoSub
    PROVE  /\ Unindexed(S) \in [Keys -> SUBSET Subs]
           /\ \A k \in Keys : Unindexed(S)[k] = byKey[k] \ S
BY DEF Unindexed, SubTypeOK, KeyIndexSound

(* Two slots of byConn never share an object. *)
LEMMA SlotsDistinct ==
    ASSUME IndexInv,
           NEW c \in Conns, NEW i \in Ids, NEW d \in Conns, NEW j \in Ids,
           has(c, i), has(d, j), byConn[c][i] = byConn[d][j]
    PROVE  c = d /\ i = j
BY DEF IndexInv, ConnIndexOwned

(* unregister removes one object from both indexes. *)
LEMMA UnregisterIndexInv ==
    ASSUME IndexInv, NEW c \in Conns, NEW i \in Ids, unregister(c, i)
    PROVE  IndexInv'
<1> USE DEF IndexInv
<1>1. CASE ~ has(c, i)
  BY <1>1 DEF unregister, subVars, SubTypeOK, ConnIndexOwned, KeyIndexComplete,
              KeyIndexSound, NothingOutlivesConn, ActiveIds, has
<1>2. CASE has(c, i)
  <2> DEFINE s == byConn[c][i]
  <2>1. /\ s \in Subs /\ obj[s] # NoSub
        /\ byKey' = Unindexed({s})
        /\ byConn' = [byConn EXCEPT ![c][i] = NoSub]
        /\ UNCHANGED <<closed, swept, obj>>
    BY <1>2 DEF unregister, SubTypeOK, has, ConnIndexOwned
  <2>2. /\ byKey' \in [Keys -> SUBSET Subs]
        /\ \A k \in Keys : byKey'[k] = byKey[k] \ {s}
    BY <2>1, UnindexedFacts
  <2>3. /\ byConn'[c][i] = NoSub
        /\ \A d \in Conns, j \in Ids :
              <<d, j>> # <<c, i>> => byConn'[d][j] = byConn[d][j]
    BY <2>1 DEF SubTypeOK
  <2>4. SubTypeOK'
    BY <2>1, <2>2 DEF SubTypeOK
  <2>5. ConnIndexOwned'
    BY <2>1, <2>3 DEF ConnIndexOwned, has
  <2>6. KeyIndexComplete'
    <3> SUFFICES ASSUME NEW d \in Conns, NEW j \in Ids, has(d, j)',
                        NEW k \in obj'[byConn'[d][j]].keys
                 PROVE  byConn'[d][j] \in byKey'[k]
      BY DEF KeyIndexComplete
    <3>1. /\ <<d, j>> # <<c, i>> /\ has(d, j)
          /\ byConn'[d][j] = byConn[d][j] /\ byConn[d][j] # s
          /\ k \in obj[byConn[d][j]].keys
      BY <1>2, <2>1, <2>3, SlotsDistinct DEF has
    <3>2. k \in Keys
      BY <3>1 DEF SubTypeOK, ConnIndexOwned, Subscription, has
    <3> QED
      BY <2>2, <3>1, <3>2 DEF KeyIndexComplete
  <2>7. KeyIndexSound'
    BY <2>1, <2>2 DEF KeyIndexSound
  <2>8. NothingOutlivesConn'
    BY <2>1, <2>3 DEF NothingOutlivesConn, ActiveIds, has
  <2> QED
    BY <2>4, <2>5, <2>6, <2>7, <2>8
<1> QED
  BY <1>1, <1>2

(* The sweep of a closed connection empties its slots and its objects' *)
(* entries, and touches no other connection's.                         *)
LEMMA SweepIndexInv ==
    ASSUME IndexInv, NEW c \in Conns, unregisterConn(c)
    PROVE  IndexInv'
<1> USE DEF IndexInv
<1> DEFINE S == {byConn[c][i] : i \in ActiveIds(c)}
<1>1. /\ closed[c]
      /\ byKey' = Unindexed(S)
      /\ byConn' = [byConn EXCEPT ![c] = [i \in Ids |-> NoSub]]
      /\ swept' = [swept EXCEPT ![c] = TRUE]
      /\ UNCHANGED <<closed, obj>>
  BY DEF unregisterConn
<1>2. S \in SUBSET Subs /\ \A s \in S : obj[s] # NoSub
  BY DEF SubTypeOK, ActiveIds, has, ConnIndexOwned
<1>3. /\ byKey' \in [Keys -> SUBSET Subs]
      /\ \A k \in Keys : byKey'[k] = byKey[k] \ S
  BY <1>1, <1>2, UnindexedFacts
<1>4. /\ \A j \in Ids : byConn'[c][j] = NoSub
      /\ \A d \in Conns : d # c => byConn'[d] = byConn[d]
  BY <1>1 DEF SubTypeOK
<1>5. SubTypeOK'
  BY <1>1, <1>3 DEF SubTypeOK
<1>6. ConnIndexOwned'
  BY <1>1, <1>4 DEF ConnIndexOwned, has
<1>7. KeyIndexComplete'
  <2> SUFFICES ASSUME NEW d \in Conns, NEW j \in Ids, has(d, j)',
                      NEW k \in obj'[byConn'[d][j]].keys
               PROVE  byConn'[d][j] \in byKey'[k]
    BY DEF KeyIndexComplete
  <2>1. /\ d # c /\ has(d, j) /\ byConn'[d][j] = byConn[d][j]
        /\ k \in obj[byConn[d][j]].keys
    BY <1>1, <1>4 DEF has
  <2>2. byConn[d][j] \notin S
    BY <2>1 DEF ConnIndexOwned, ActiveIds
  <2>3. k \in Keys
    BY <2>1 DEF SubTypeOK, ConnIndexOwned, Subscription, has
  <2> QED
    BY <1>3, <2>1, <2>2, <2>3 DEF KeyIndexComplete
<1>8. KeyIndexSound'
  BY <1>1, <1>3 DEF KeyIndexSound
<1>9. NothingOutlivesConn'
  <2>1. \A d \in Conns : ActiveIds(d)' = IF d = c THEN {} ELSE ActiveIds(d)
    BY <1>4 DEF ActiveIds, has
  <2> QED
    BY <1>1, <2>1 DEF NothingOutlivesConn, SubTypeOK
<1> QED
  BY <1>5, <1>6, <1>7, <1>8, <1>9

(* updateKeys moves one object from its old keys to the new ones. *)
LEMMA UpdateKeysIndexInv ==
    ASSUME NoSub \notin Subs, NoSub \notin Subscription,
           IndexInv, NEW c \in Conns, NEW i \in Ids, NEW K \in SUBSET Keys,
           updateKeys(c, i, K)
    PROVE  IndexInv'
<1> USE DEF IndexInv
<1>1. CASE ~ has(c, i)
  BY <1>1 DEF updateKeys, subVars, SubTypeOK, ConnIndexOwned, KeyIndexComplete,
              KeyIndexSound, NothingOutlivesConn, ActiveIds, has
<1>2. CASE has(c, i)
  <2> DEFINE s == byConn[c][i]
  <2>0. s \in Subs /\ obj[s] # NoSub /\ obj[s] \in Subscription
    BY <1>2 DEF SubTypeOK, has, ConnIndexOwned
  <2>a. /\ obj' = [obj EXCEPT ![s].keys = K]
        /\ byKey' = [k \in Keys |-> IF k \in K THEN byKey[k] \cup {s}
                                               ELSE Unindexed({s})[k]]
        /\ UNCHANGED <<closed, swept, byConn>>
    BY <1>2 DEF updateKeys
  <2>2. \A k \in Keys : Unindexed({s})[k] = byKey[k] \ {s}
    BY <2>0, UnindexedFacts
  <2>1. /\ s \in Subs /\ obj[s] # NoSub /\ obj[s] \in Subscription
        /\ obj' = [obj EXCEPT ![s].keys = K]
        /\ byKey' = [k \in Keys |-> IF k \in K THEN byKey[k] \cup {s}
                                               ELSE byKey[k] \ {s}]
        /\ UNCHANGED <<closed, swept, byConn>>
    BY <2>0, <2>a, <2>2
  <2>3. /\ obj'[s] \in Subscription /\ obj'[s].keys = K
        /\ obj'[s].conn = obj[s].conn /\ obj'[s].id = obj[s].id
        /\ \A t \in Subs : t # s => obj'[t] = obj[t]
    BY <2>1 DEF SubTypeOK, Subscription
  <2>4. SubTypeOK'
    <3>1. obj' \in [Subs -> Subscription \cup {NoSub}]
      BY <2>1, <2>3 DEF SubTypeOK
    <3>2. byKey' \in [Keys -> SUBSET Subs]
      BY <2>1, <2>2 DEF SubTypeOK
    <3> QED
      BY <2>1, <3>1, <3>2 DEF SubTypeOK
  <2>5. obj'[s] # NoSub
    BY <2>3
  <2>6. ConnIndexOwned'
    BY <2>1, <2>3, <2>5 DEF ConnIndexOwned, has, SubTypeOK
  <2>7. KeyIndexComplete'
    <3> SUFFICES ASSUME NEW d \in Conns, NEW j \in Ids, has(d, j),
                        NEW k \in obj'[byConn[d][j]].keys
                 PROVE  byConn[d][j] \in byKey'[k]
      BY <2>1 DEF KeyIndexComplete, has
    <3>1. CASE byConn[d][j] = s
      BY <2>1, <2>3, <3>1
    <3>2. CASE byConn[d][j] # s
      <4>1. k \in obj[byConn[d][j]].keys /\ k \in Keys
        BY <2>3, <3>2 DEF SubTypeOK, ConnIndexOwned, Subscription, has
      <4>2. byConn[d][j] \in byKey[k]
        BY <4>1 DEF KeyIndexComplete
      <4> QED
        BY <2>1, <2>2, <3>2, <4>1, <4>2
    <3> QED
      BY <3>1, <3>2
  <2>8. KeyIndexSound'
    <3> SUFFICES ASSUME NEW k \in Keys, NEW t \in byKey'[k]
                 PROVE  obj'[t] # NoSub /\ k \in obj'[t].keys
      BY DEF KeyIndexSound
    <3>1. CASE t = s
      BY <2>1, <2>2, <2>3, <2>5, <3>1
    <3>2. CASE t # s
      <4>1. t \in byKey[k]
        BY <2>1, <2>2, <3>2
      <4> QED
        BY <2>3, <3>2, <4>1 DEF KeyIndexSound, SubTypeOK
    <3> QED
      BY <3>1, <3>2
  <2>9. NothingOutlivesConn'
    BY <2>1 DEF NothingOutlivesConn, ActiveIds, has
  <2> QED
    BY <2>4, <2>6, <2>7, <2>8, <2>9
<1> QED
  BY <1>1, <1>2

(* updateParams changes no field the indexes depend on. *)
LEMMA UpdateParamsIndexInv ==
    ASSUME NoSub \notin Subs, NoSub \notin Subscription,
           IndexInv, NEW c \in Conns, NEW i \in Ids,
           NEW p \in Params, NEW w \in BOOLEAN, updateParams(c, i, p, w)
    PROVE  IndexInv'
<1> USE DEF IndexInv
<1>1. CASE ~ has(c, i)
  BY <1>1 DEF updateParams, subVars, SubTypeOK, ConnIndexOwned, KeyIndexComplete,
              KeyIndexSound, NothingOutlivesConn, ActiveIds, has
<1>2. CASE has(c, i)
  <2> DEFINE s == byConn[c][i]
             o == [obj[s] EXCEPT !.params = p, !.wantsPatch = w]
  <2>1. /\ s \in Subs /\ obj[s] # NoSub /\ obj[s] \in Subscription
        /\ obj' = [obj EXCEPT ![s].params = p, ![s].wantsPatch = w]
        /\ UNCHANGED <<closed, swept, byConn, byKey>>
    BY <1>2 DEF updateParams, SubTypeOK, has, ConnIndexOwned
  <2>2. /\ o \in Subscription /\ o # NoSub /\ o.keys = obj[s].keys
        /\ o.conn = obj[s].conn /\ o.id = obj[s].id
    BY <2>1 DEF Subscription
  <2>3. obj'[s] = o /\ \A t \in Subs : t # s => obj'[t] = obj[t]
    BY <2>1 DEF SubTypeOK
  <2>4. SubTypeOK'
    BY <2>1, <2>2, <2>3 DEF SubTypeOK
  <2>5. \A t \in Subs : obj[t] # NoSub =>
            /\ obj'[t] # NoSub /\ obj'[t].keys = obj[t].keys
            /\ obj'[t].conn = obj[t].conn /\ obj'[t].id = obj[t].id
    BY <2>2, <2>3
  <2>6. ConnIndexOwned'
    <3> SUFFICES ASSUME NEW d \in Conns, NEW j \in Ids, has(d, j)
                 PROVE  /\ obj'[byConn[d][j]] # NoSub
                        /\ obj'[byConn[d][j]].conn = d
                        /\ obj'[byConn[d][j]].id = j
      <4>1. byConn' = byConn
        BY <2>1
      <4> QED
        BY <4>1 DEF ConnIndexOwned, has
    <3>1. byConn[d][j] \in Subs /\ obj[byConn[d][j]] # NoSub
      BY DEF has, SubTypeOK, ConnIndexOwned
    <3> QED
      BY <2>5, <3>1 DEF ConnIndexOwned
  <2>7. KeyIndexComplete'
    BY <2>1, <2>5 DEF KeyIndexComplete, ConnIndexOwned, has, SubTypeOK
  <2>8. KeyIndexSound'
    BY <2>1, <2>5 DEF KeyIndexSound, SubTypeOK
  <2>9. NothingOutlivesConn'
    BY <2>1 DEF NothingOutlivesConn, ActiveIds, has
  <2> QED
    BY <2>4, <2>6, <2>7, <2>8, <2>9
<1> QED
  BY <1>1, <1>2

(* Setting the closed flag changes neither index, and neither does a step *)
(* that leaves every variable alone.                                      *)
LEMMA MarkClosedIndexInv ==
    ASSUME IndexInv, (\E c \in Conns : SubMarkClosed(c)) \/ UNCHANGED subVars
    PROVE  IndexInv'
<1>1. /\ closed' \in [Conns -> BOOLEAN]
      /\ \A c \in Conns : closed[c] => closed'[c]
      /\ UNCHANGED <<swept, byConn, byKey, obj>>
  BY DEF IndexInv, SubTypeOK, SubMarkClosed, subVars
<1> QED
  BY <1>1 DEF IndexInv, SubTypeOK, ConnIndexOwned, KeyIndexComplete,
              KeyIndexSound, NothingOutlivesConn, ActiveIds, has

(* Every step of the subscription manager preserves the invariant. *)
LEMMA NextIndexInv ==
    ASSUME NoSub \notin Subs, NoSub \notin Subscription
    PROVE  IndexInv /\ [SubNext]_subVars => IndexInv'
<1> SUFFICES ASSUME IndexInv, [SubNext]_subVars
             PROVE  IndexInv'
  OBVIOUS
<1>1. CASE \E c \in Conns, i \in Ids, s \in Subs, K \in SUBSET Keys,
              p \in Params, w \in BOOLEAN : RegisterOK(s, c, i, K, p, w)
  BY <1>1, RegisterIndexInv
<1>2. CASE \E c \in Conns, i \in Ids : unregister(c, i)
  BY <1>2, UnregisterIndexInv
<1>3. CASE \E c \in Conns : unregisterConn(c)
  BY <1>3, SweepIndexInv
<1>4. CASE \E c \in Conns, i \in Ids, K \in SUBSET Keys : updateKeys(c, i, K)
  BY <1>4, UpdateKeysIndexInv
<1>5. CASE \E c \in Conns, i \in Ids, p \in Params, w \in BOOLEAN :
              updateParams(c, i, p, w)
  BY <1>5, UpdateParamsIndexInv
<1>6. CASE (\E c \in Conns : SubMarkClosed(c)) \/ UNCHANGED subVars
  BY <1>6, MarkClosedIndexInv
<1> QED
  BY <1>1, <1>2, <1>3, <1>4, <1>5, <1>6
     DEF SubNext, RegisterRefused, RegisterLimited

(* At all times a held subscription is found under each of its keys, an     *)
(* indexed one declares the key, and a swept connection holds none.         *)
THEOREM IndexesAgree == SubSpec => []IndexesExact
<1> USE SubsAssumption
<1>1. SubInit => IndexInv
  BY InitIndexInv
<1>2. IndexInv /\ [SubNext]_subVars => IndexInv'
  BY NextIndexInv
<1>3. IndexInv => IndexesExact
  BY DEF IndexInv, IndexesExact
<1> QED
  BY <1>1, <1>2, <1>3, PTL DEF SubSpec

-----------------------------------------------------------------------------
(* What IndexesMoveTogether says of one object in one step. *)
Together(s) ==
    /\ (Held(s) /\ Indexed(s)') => (Held(s)' \/ has(obj[s].conn, obj[s].id)')
    /\ (\E k \in Keys : s \in byKey'[k] \ byKey[k]) => Held(s)'

(* A new object is held where it is indexed, and overwrites at most one. *)
LEMMA RegisterTogether ==
    ASSUME NoSub \notin Subs, NoSub \notin Subscription, IndexInv,
           NEW s \in Subs, NEW c \in Conns, NEW i \in Ids,
           NEW K \in SUBSET Keys, NEW p \in Params, NEW w \in BOOLEAN,
           RegisterOK(s, c, i, K, p, w)
    PROVE  \A t \in Subs : Together(t)
<1> USE DEF IndexInv
<1> DEFINE o == [conn |-> c, id |-> i, keys |-> K, params |-> p, wantsPatch |-> w]
<1>1. /\ obj[s] = NoSub
      /\ obj' = [obj EXCEPT ![s] = o]
      /\ byConn' = [byConn EXCEPT ![c][i] = s]
      /\ \A k \in Keys, t \in Subs : t \in byKey'[k] \ byKey[k] => t = s
  BY DEF RegisterOK
<1>2. o \in Subscription /\ o # NoSub
  BY DEF Subscription
<1>3. /\ obj'[s] = o /\ byConn'[c][i] = s
      /\ \A t \in Subs : t # s => obj'[t] = obj[t]
      /\ \A d \in Conns, j \in Ids : byConn'[d][j] \in {byConn[d][j], s}
  BY <1>1 DEF SubTypeOK
<1>4. Held(s)'
  BY <1>2, <1>3 DEF Held
<1>5. ASSUME NEW t \in Subs, Held(t)
      PROVE  Held(t)' \/ has(obj[t].conn, obj[t].id)'
  <2>1. obj[t] \in Subscription /\ t # s /\ obj'[t] = obj[t]
    BY <1>1, <1>3, <1>5 DEF Held, SubTypeOK
  <2>2. byConn'[obj[t].conn][obj[t].id] \in {t, s}
    BY <1>3, <1>5, <2>1 DEF Held, Subscription
  <2> QED
    BY <1>5, <2>1, <2>2 DEF Held, has
<1> QED
  BY <1>1, <1>4, <1>5 DEF Together

(* A step that takes the objects S out of both indexes and no other. *)
LEMMA RemovalTogether ==
    ASSUME IndexInv, NEW S \in SUBSET Subs, UNCHANGED obj,
           \A k \in Keys : byKey'[k] = byKey[k] \ S,
           \A d \in Conns, j \in Ids : byConn[d][j] \in S \/ byConn'[d][j] = byConn[d][j]
    PROVE  \A t \in Subs : Together(t)
<1> USE DEF IndexInv
<1>1. ASSUME NEW t \in Subs, Held(t), t \notin S PROVE Held(t)'
  <2>1. obj[t] \in Subscription
    BY <1>1 DEF Held, SubTypeOK
  <2> QED
    BY <1>1, <2>1 DEF Held, Subscription
<1> QED
  BY <1>1 DEF Together, Indexed

(* A step that leaves byConn and the identity of every object alone, and *)
(* indexes at most an object that byConn holds.                          *)
LEMMA KeepingTogether ==
    ASSUME IndexInv, UNCHANGED byConn,
           \A t \in Subs : obj[t] # NoSub =>
                obj'[t] # NoSub /\ obj'[t].conn = obj[t].conn /\ obj'[t].id = obj[t].id,
           \A k \in Keys, t \in Subs : t \in byKey'[k] \ byKey[k] => Held(t)
    PROVE  \A t \in Subs : Together(t)
<1>1. \A t \in Subs : Held(t) => Held(t)'
  BY DEF Held
<1> QED
  BY <1>1 DEF Together

(* Every step moves the two indexes together. *)
LEMMA NextTogether ==
    ASSUME NoSub \notin Subs, NoSub \notin Subscription, IndexInv, [SubNext]_subVars
    PROVE  \A t \in Subs : Together(t)
<1>0. IndexInv /\ SubTypeOK /\ ConnIndexOwned /\ KeyIndexSound
  BY DEF IndexInv
<1>1. CASE \E c \in Conns, i \in Ids, s \in Subs, K \in SUBSET Keys,
              p \in Params, w \in BOOLEAN : RegisterOK(s, c, i, K, p, w)
  BY <1>1, RegisterTogether
<1>2. ASSUME NEW c \in Conns, NEW i \in Ids, unregister(c, i)
      PROVE  \A t \in Subs : Together(t)
  <2>1. CASE ~ has(c, i)
    BY <1>0, <1>2, <2>1, KeepingTogether DEF unregister, subVars
  <2>2. CASE has(c, i)
    <3> DEFINE S == {byConn[c][i]}
    <3>1. S \in SUBSET Subs /\ \A s \in S : obj[s] # NoSub
      BY <1>0, <2>2 DEF SubTypeOK, ConnIndexOwned, has
    <3>2. \A k \in Keys : byKey'[k] = byKey[k] \ S
      BY <1>0, <1>2, <2>2, <3>1, UnindexedFacts DEF unregister
    <3>3. /\ UNCHANGED obj
          /\ \A d \in Conns, j \in Ids : byConn[d][j] \in S \/ byConn'[d][j] = byConn[d][j]
      BY <1>0, <1>2, <2>2 DEF unregister, SubTypeOK
    <3> QED
      BY <1>0, <3>1, <3>2, <3>3, RemovalTogether
  <2> QED
    BY <2>1, <2>2
<1>3. ASSUME NEW c \in Conns, unregisterConn(c)
      PROVE  \A t \in Subs : Together(t)
  <2> DEFINE S == {byConn[c][i] : i \in ActiveIds(c)}
  <2>1. S \in SUBSET Subs /\ \A s \in S : obj[s] # NoSub
    BY <1>0 DEF SubTypeOK, ConnIndexOwned, ActiveIds, has
  <2>2. \A k \in Keys : byKey'[k] = byKey[k] \ S
    BY <1>0, <1>3, <2>1, UnindexedFacts DEF unregisterConn
  <2>3. UNCHANGED obj /\ byConn' = [byConn EXCEPT ![c] = [i \in Ids |-> NoSub]]
    BY <1>3 DEF unregisterConn
  <2>4. ASSUME NEW d \in Conns, NEW j \in Ids
        PROVE  byConn[d][j] \in S \/ byConn'[d][j] = byConn[d][j]
    <3>1. CASE d # c
      BY <1>0, <2>3, <3>1 DEF SubTypeOK
    <3>2. CASE d = c
      BY <1>0, <2>3, <3>2 DEF SubTypeOK, ActiveIds, has
    <3> QED
      BY <3>1, <3>2
  <2> QED
    BY <1>0, <2>1, <2>2, <2>3, <2>4, RemovalTogether
<1>4. ASSUME NEW c \in Conns, NEW i \in Ids, NEW K \in SUBSET Keys, updateKeys(c, i, K)
      PROVE  \A t \in Subs : Together(t)
  <2>1. CASE ~ has(c, i)
    BY <1>0, <1>4, <2>1, KeepingTogether DEF updateKeys, subVars
  <2>2. CASE has(c, i)
    <3> DEFINE s == byConn[c][i]
    <3>1. s \in Subs /\ obj[s] # NoSub /\ obj[s] \in Subscription /\ Held(s)
      BY <1>0, <2>2 DEF SubTypeOK, ConnIndexOwned, has, Held
    <3>2. /\ obj' = [obj EXCEPT ![s].keys = K] /\ UNCHANGED byConn
          /\ byKey' = [k \in Keys |-> IF k \in K THEN byKey[k] \cup {s}
                                      ELSE Unindexed({s})[k]]
      BY <1>4, <2>2 DEF updateKeys
    <3>3. \A k \in Keys, t \in Subs : t \in byKey'[k] \ byKey[k] => Held(t)
      BY <1>0, <3>1, <3>2, UnindexedFacts
    <3>4. \A t \in Subs : obj[t] # NoSub =>
              obj'[t] # NoSub /\ obj'[t].conn = obj[t].conn /\ obj'[t].id = obj[t].id
      <4>1. /\ obj'[s] \in Subscription
            /\ obj'[s].conn = obj[s].conn /\ obj'[s].id = obj[s].id
            /\ \A t \in Subs : t # s => obj'[t] = obj[t]
        BY <1>0, <3>1, <3>2 DEF SubTypeOK, Subscription
      <4> QED
        BY <4>1
    <3> QED
      BY <1>0, <3>2, <3>3, <3>4, KeepingTogether
  <2> QED
    BY <2>1, <2>2
<1>5. ASSUME NEW c \in Conns, NEW i \in Ids, NEW p \in Params, NEW w \in BOOLEAN,
             updateParams(c, i, p, w)
      PROVE  \A t \in Subs : Together(t)
  <2>1. CASE ~ has(c, i)
    BY <1>0, <1>5, <2>1, KeepingTogether DEF updateParams, subVars
  <2>2. CASE has(c, i)
    <3> DEFINE s == byConn[c][i]
    <3>1. s \in Subs /\ obj[s] # NoSub /\ obj[s] \in Subscription
      BY <1>0, <2>2 DEF SubTypeOK, ConnIndexOwned, has
    <3>2. /\ obj' = [obj EXCEPT ![s].params = p, ![s].wantsPatch = w]
          /\ UNCHANGED <<byConn, byKey>>
      BY <1>5, <2>2 DEF updateParams
    <3>3. \A t \in Subs : obj[t] # NoSub =>
              obj'[t] # NoSub /\ obj'[t].conn = obj[t].conn /\ obj'[t].id = obj[t].id
      <4>1. /\ obj'[s] \in Subscription
            /\ obj'[s].conn = obj[s].conn /\ obj'[s].id = obj[s].id
            /\ \A t \in Subs : t # s => obj'[t] = obj[t]
        BY <1>0, <3>1, <3>2 DEF SubTypeOK, Subscription
      <4> QED
        BY <4>1
    <3> QED
      BY <1>0, <3>2, <3>3, KeepingTogether
  <2> QED
    BY <2>1, <2>2
<1>6. CASE (\E c \in Conns : SubMarkClosed(c)) \/ UNCHANGED subVars
  BY <1>0, <1>6, KeepingTogether DEF SubMarkClosed, subVars
<1> QED
  BY <1>1, <1>2, <1>3, <1>4, <1>5, <1>6
     DEF SubNext, RegisterRefused, RegisterLimited

(* Only a second register of an ID leaves byKey an object that byConn no    *)
(* longer holds: what an unsubscribe or a sweep drops from one index it     *)
(* drops from the other, and nothing is indexed that is not held.           *)
THEOREM IndexesStayTogether == SubSpec => IndexesMoveTogether
<1> USE SubsAssumption
<1>1. SubInit => IndexInv
  BY InitIndexInv
<1>2. IndexInv /\ [SubNext]_subVars => IndexInv'
  BY NextIndexInv
<1>3. IndexInv /\ [SubNext]_subVars =>
        [\A s \in Subs :
            /\ (Held(s) /\ Indexed(s)') => (Held(s)' \/ has(obj[s].conn, obj[s].id)')
            /\ (\E k \in Keys : s \in byKey'[k] \ byKey[k]) => Held(s)']_subVars
  BY NextTogether DEF Together
<1> QED
  BY <1>1, <1>2, <1>3, PTL DEF SubSpec, IndexesMoveTogether

-----------------------------------------------------------------------------
(* Registration is the only step that adds an ID, and it adds one. *)
LEMMA RegisterCap ==
    ASSUME NoSub \notin Subs, NoSub \notin Subscription, MaxSubscriptions \in Nat,
           IndexInv, ActiveFinite, CapHolds,
           NEW s \in Subs, NEW c \in Conns, NEW i \in Ids,
           NEW K \in SUBSET Keys, NEW p \in Params, NEW w \in BOOLEAN,
           RegisterOK(s, c, i, K, p, w)
    PROVE  ActiveFinite' /\ CapHolds'
<1>1. /\ \A j \in Ids : byConn'[c][j] = IF j = i THEN s ELSE byConn[c][j]
      /\ \A d \in Conns : d # c => byConn'[d] = byConn[d]
      /\ s # NoSub
  BY DEF IndexInv, SubTypeOK, RegisterOK
<1>2. /\ ActiveIds(c)' = ActiveIds(c) \cup {i}
      /\ \A d \in Conns : d # c => ActiveIds(d)' = ActiveIds(d)
  BY <1>1 DEF ActiveIds, has
<1>3. IsFiniteSet(ActiveIds(c)) /\ Cardinality(ActiveIds(c)) \in Nat
  BY FS_CardinalityType DEF ActiveFinite
<1>4. /\ IsFiniteSet(ActiveIds(c)')
      /\ Cardinality(ActiveIds(c)') = IF i \in ActiveIds(c)
                                       THEN Cardinality(ActiveIds(c))
                                       ELSE Cardinality(ActiveIds(c)) + 1
  BY <1>2, <1>3, FS_AddElement
<1>5. ActiveFinite'
  BY <1>2, <1>4 DEF ActiveFinite
<1>6. ASSUME MaxSubscriptions > 0
      PROVE  Cardinality(ActiveIds(c)') <= MaxSubscriptions
  <2>1. Cardinality(ActiveIds(c)) <= MaxSubscriptions
    BY <1>6 DEF CapHolds
  <2>2. CASE i \in ActiveIds(c)
    BY <1>4, <2>1, <2>2
  <2>3. CASE i \notin ActiveIds(c)
    <3>1. ~ (Cardinality(ActiveIds(c)) >= MaxSubscriptions)
      BY <1>6, <2>3 DEF RegisterOK, AtCap, ActiveIds
    <3> QED
      BY <1>3, <1>4, <2>3, <3>1
  <2> QED
    BY <2>2, <2>3
<1>7. CapHolds'
  BY <1>2, <1>6 DEF CapHolds
<1> QED
  BY <1>5, <1>7

(* Every other step leaves each connection a subset of the IDs it had. *)
LEMMA ShrinkCap ==
    ASSUME MaxSubscriptions \in Nat, ActiveFinite, CapHolds,
           \A c \in Conns : ActiveIds(c)' \subseteq ActiveIds(c)
    PROVE  ActiveFinite' /\ CapHolds'
<1>1. \A c \in Conns :
        /\ IsFiniteSet(ActiveIds(c)')
        /\ Cardinality(ActiveIds(c)') <= Cardinality(ActiveIds(c))
        /\ Cardinality(ActiveIds(c)') \in Nat
        /\ Cardinality(ActiveIds(c)) \in Nat
  BY FS_Subset, FS_CardinalityType DEF ActiveFinite
<1> QED
  BY <1>1 DEF ActiveFinite, CapHolds

(* The part of the step relation that is not a registration only shrinks *)
(* the sets of active IDs.                                               *)
LEMMA OthersShrink ==
    ASSUME IndexInv, [SubNext]_subVars,
           ~ \E c \in Conns, i \in Ids, s \in Subs, K \in SUBSET Keys,
                p \in Params, w \in BOOLEAN : RegisterOK(s, c, i, K, p, w)
    PROVE  \A c \in Conns : ActiveIds(c)' \subseteq ActiveIds(c)
<1>1. ASSUME NEW c \in Conns, NEW i \in Ids, unregister(c, i)
      PROVE  \A d \in Conns : ActiveIds(d)' \subseteq ActiveIds(d)
  <2>1. \A d \in Conns, j \in Ids : byConn'[d][j] \in {byConn[d][j], NoSub}
    BY <1>1 DEF unregister, subVars, IndexInv, SubTypeOK
  <2> QED
    BY <2>1 DEF ActiveIds, has
<1>2. ASSUME NEW c \in Conns, unregisterConn(c)
      PROVE  \A d \in Conns : ActiveIds(d)' \subseteq ActiveIds(d)
  BY <1>2 DEF unregisterConn, IndexInv, SubTypeOK, ActiveIds, has
<1>3. CASE UNCHANGED byConn
  BY <1>3 DEF ActiveIds, has
<1>4. ASSUME NEW c \in Conns, NEW i \in Ids,
             \/ \E K \in SUBSET Keys : updateKeys(c, i, K)
             \/ \E p \in Params, w \in BOOLEAN : updateParams(c, i, p, w)
             \/ RegisterLimited(c, i) \/ RegisterRefused(c) \/ SubMarkClosed(c)
      PROVE  UNCHANGED byConn
  BY <1>4 DEF updateKeys, updateParams, RegisterLimited, RegisterRefused,
              SubMarkClosed, subVars
<1>5. \/ \E c \in Conns, i \in Ids : unregister(c, i)
      \/ \E c \in Conns : unregisterConn(c)
      \/ \E c \in Conns : SubMarkClosed(c) \/ RegisterRefused(c)
      \/ \E c \in Conns, i \in Ids :
            \/ \E K \in SUBSET Keys : updateKeys(c, i, K)
            \/ \E p \in Params, w \in BOOLEAN : updateParams(c, i, p, w)
            \/ RegisterLimited(c, i)
      \/ UNCHANGED subVars
  BY Zenon DEF SubNext
<1>6. (\E c \in Conns : SubMarkClosed(c) \/ RegisterRefused(c)) \/ UNCHANGED subVars
        => UNCHANGED byConn
  BY DEF SubMarkClosed, RegisterRefused, subVars
<1> QED
  BY <1>1, <1>2, <1>3, <1>4, <1>5, <1>6

(* No connection ever holds more than MaxSubscriptions subscriptions, *)
(* however its subscribe handlers race.                               *)
THEOREM CapNeverExceeded == SubSpec => []CapHolds
<1> USE SubsAssumption, CapAssumption
<1> DEFINE Inv == IndexInv /\ ActiveFinite /\ CapHolds
<1>1. SubInit => Inv
  <2> SUFFICES ASSUME SubInit PROVE Inv
    OBVIOUS
  <2>1. \A c \in Conns : ActiveIds(c) = {}
    BY DEF SubInit, ActiveIds, has
  <2> QED
    BY <2>1, InitIndexInv, FS_EmptySet DEF ActiveFinite, CapHolds
<1>2. Inv /\ [SubNext]_subVars => Inv'
  <2> SUFFICES ASSUME Inv, [SubNext]_subVars PROVE Inv'
    OBVIOUS
  <2>1. IndexInv'
    BY NextIndexInv
  <2>2. CASE \E c \in Conns, i \in Ids, s \in Subs, K \in SUBSET Keys,
                p \in Params, w \in BOOLEAN : RegisterOK(s, c, i, K, p, w)
    BY <2>1, <2>2, RegisterCap
  <2>3. CASE ~ \E c \in Conns, i \in Ids, s \in Subs, K \in SUBSET Keys,
                  p \in Params, w \in BOOLEAN : RegisterOK(s, c, i, K, p, w)
    BY <2>1, <2>3, OthersShrink, ShrinkCap
  <2> QED
    BY <2>2, <2>3
<1> QED
  BY <1>1, <1>2, PTL DEF SubSpec
=============================================================================
