-------------------------- MODULE ClientSubsProofs --------------------------
(***************************************************************************)
(* What the Go client promises of its subscriptions, proved of ClientSubs  *)
(* for any number of subscriptions, slots, connections and changes.        *)
(*                                                                         *)
(* On the current connection a subscription is in at most one place        *)
(* (Places): due to be sent by Subscribe or by the supervisor, queued,     *)
(* being written, awaiting its answer, or in the hands of the goroutine    *)
(* that took the answer and has yet to release the slot.  The last four    *)
(* hold a slot, and the count is the number of them (SlotsInv).  The rest  *)
(* of the invariant says what keeps the places apart: connections follow   *)
(* one another (ConnInv), a holder of subSendMu from an earlier connection *)
(* keeps everybody else from sending (LockInv), and what is known of a     *)
(* subscription that is new, open or ended (NewInv, OpenInv, EndInv) and   *)
(* of its value (AskInv, ValueInv).                                        *)
(*                                                                         *)
(* A refresh's result may be taken for the answer of a re-sent frame, so   *)
(* the slots say nothing of re-sent frames.  They do of first ones: until  *)
(* the server has a result of the subscription (KeptInv) there is nothing  *)
(* to refresh, and the frame that is owed an answer holds its slot         *)
(* (FirstInv).                                                             *)
(***************************************************************************)
EXTENDS ClientSubs, FiniteSetTheorems, SequenceTheorems, TLAPS

-----------------------------------------------------------------------------
(* The inductive invariant.                                                *)

SubRec == [closed : BOOLEAN, current : [conn : Conns0, has : SUBSET (1..MaxVersion)],
           awaiting : Conns0, resend : BOOLEAN, failing : BOOLEAN]
OpenRec == [pc : {"new", "send", "done"}, conn : Conns0]
EndRec == [pc : {"no", "lock", "take", "release", "done"}, aw : Conns0]
LockRec == [by : {"nobody", "app", "ender", "reader", "sup"}, conn : Conns0, todo : Seq(Subs)]
ReaderRec == [pc : {"read", "answered", "ending", "failed", "fail"},
              x : Subs \cup {"none"}, aw : Conns0]

TypeInv ==
  /\ TypeOK
  /\ rd \in ReaderRec
  /\ rd.pc # "read" => rd.x \in Subs

Distinct(q) == \A i, j \in 1..Len(q) : q[i] = q[j] => i = j
In(q) == {q[i] : i \in 1..Len(q)}

\* There is one connection at a time, the last one, until it is lost; the
\* supervisor knows where it stands.  A connection that is down stays so.
ConnInv ==
  /\ last >= 1
  /\ conn # NoConn => conn = last
  /\ linkUp => conn = last /\ sup.pc \in {"up", "resend"}
  /\ closed => conn = NoConn /\ subs = {}
  /\ sup.pc \in {"up", "resend"} /\ ~closed => conn = last
  /\ sup.pc = "lose" => conn = NoConn /\ rd.pc = "read" /\ subSendMu.by # "reader"
  /\ sup.pc = "down" => closed
  /\ ~linkUp /\ ~closed => last < MaxConns
  /\ conn = NoConn => ~linkUp /\ (closed \/ subQueue = <<>>) /\ Distinct(subQueue)
  /\ ~linkUp => srvSubs = {} /\ (\A x \in Subs : owed[x] = 0 /\ computed[x] = NoAnswer
                                                 /\ missed[x] = {})

\* No number of a later connection is in use, and Subscribe sends on a
\* connection.
NumberInv ==
  /\ subSendMu.conn <= last
  /\ rd.aw <= last
  /\ \A x \in Subs : sub[x].awaiting <= last /\ opening[x].conn <= last
                     /\ ending[x].aw <= last
  /\ \A x \in Subs : opening[x].pc = "send" => opening[x].conn # NoConn

\* The places of a subscription on the current connection.
Due == {x \in Subs : opening[x].pc = "send" /\ opening[x].conn = conn}
Again == IF sup.pc = "resend" THEN sup.todo ELSE {}
Waiting == In(subQueue)
Written == IF subSendMu.conn = conn THEN In(subSendMu.todo) ELSE {}
Awaiting == {x \in Subs : sub[x].awaiting = conn}
Taken == IF rd.pc \in {"answered", "failed"} /\ rd.aw = conn THEN {rd.x} ELSE {}
Releasing == {x \in Subs : ending[x].pc = "release" /\ ending[x].aw = conn}
Holders == Written \cup Awaiting \cup Taken \cup Releasing

Apart ==
  /\ Due \cap (Again \cup Waiting \cup Holders) = {}
  /\ Again \cap (Waiting \cup Holders) = {}
  /\ Waiting \cap Holders = {}
  /\ Written \cap (Awaiting \cup Taken \cup Releasing) = {}
  /\ Awaiting \cap (Taken \cup Releasing) = {}
  /\ Taken \cap Releasing = {}

Places ==
  conn # NoConn =>
    /\ Apart
    /\ Distinct(subQueue) /\ Waiting \subseteq subs
    /\ Written \subseteq subs
    /\ subSendMu.conn = conn => Distinct(subSendMu.todo)

SlotsInv ==
  /\ conn # NoConn => IsFiniteSet(Holders) /\ subInFlight = Cardinality(Holders)
  /\ QueuedOnlyWhenFull

\* subSendMu is held exactly while there is something to write.  A holder from
\* an earlier connection leaves nobody a way to send on this one.
LockInv ==
  /\ subSendMu.todo = <<>> <=> subSendMu = Free
  /\ subSendMu # Free => subSendMu.conn # NoConn
  /\ conn # NoConn /\ subSendMu # Free /\ subSendMu.conn # conn =>
       /\ srvSubs = {} /\ subQueue = <<>> /\ Holders = {}
       /\ rd.pc = "read" /\ \A x \in Subs : owed[x] = 0
  /\ rd.pc \in {"answered", "failed"} => rd.aw # NoConn
  /\ rd.pc \in {"answered", "failed"} /\ conn # NoConn => rd.aw = conn
  /\ conn # NoConn => \A x \in Subs : x \in srvSubs \/ owed[x] > 0 =>
                        sub[x].awaiting \in {NoConn, conn}
  /\ \A x \in Subs : ending[x].pc = "release" => ending[x].aw # NoConn

\* Nothing has happened to a subscription that is not opened yet.
NewInv ==
  \A x \in Subs : opening[x].pc = "new" =>
    /\ x \notin subs /\ x \notin srvSubs /\ x \notin sup.todo
    /\ x \notin Waiting /\ x \notin In(subSendMu.todo)
    /\ ~sub[x].closed /\ ~sub[x].failing /\ sub[x].awaiting = NoConn /\ sub[x].current = NoValue
    /\ ~sub[x].resend
    /\ owed[x] = 0 /\ missed[x] = {} /\ ending[x].pc = "no" /\ (rd.pc = "read" \/ rd.x # x)

\* The end of a subscription, from closeWith on.
EndInv ==
  /\ \A x \in Subs : ending[x].pc # "no" => sub[x].closed
  /\ \A x \in Subs : sub[x].closed => ending[x].pc # "no"
  /\ \A x \in Subs : ending[x].pc \in {"take", "release", "done"} =>
       x \notin subs /\ x \notin srvSubs

Failed(x) == rd.pc \in {"failed", "fail"} /\ rd.x = x
Open(x) == ~sub[x].closed /\ ~Failed(x)
Alive(x) == x \in subs /\ ~sub[x].closed /\ ~sub[x].failing /\ ~Failed(x)

\* A subscription that is open, on a connection that is up: the server has it
\* or it is due, and while it awaits an answer the server owes one.
OpenInv ==
  /\ \A x \in Subs : computed[x] # NoAnswer => owed[x] > 0
  /\ conn # NoConn /\ linkUp =>
      \A x \in subs : Alive(x) =>
       /\ x \in srvSubs \cup Due \cup Again \cup Waiting \cup Written
       /\ x \in Awaiting => owed[x] > 0
       /\ owed[x] > 0 => x \in srvSubs
       /\ x \notin srvSubs => missed[x] = {} /\ sub[x].current = NoValue

\* A patching subscription that the server has and that has no value awaits its
\* answer, even if its last frame was too large.
AskInv ==
  conn # NoConn /\ linkUp =>
    \A x \in subs \cap Patching \cap srvSubs : Open(x) /\ sub[x].current = NoValue =>
      x \in Awaiting

\* The value of a patching subscription, and the patches that missed it.
ValueInv ==
  /\ \A x \in subs : sub[x].current # NoValue =>
       sub[x].current.conn = last /\ (sup.pc = "lose" => x \in sup.todo)
  /\ conn # NoConn /\ linkUp =>
      \A x \in subs \cap Patching \cap srvSubs : Alive(x) =>
       /\ sub[x].current = NoValue => owed[x] > 0 /\ (missed[x] # {} => sub[x].resend)
       /\ sub[x].current # NoValue =>
            /\ missed[x] \subseteq sub[x].current.has \/ (sub[x].resend /\ x \in Taken)
                 \/ x \in Awaiting \/ x \in Written
            /\ computed[x] # NoAnswer => missed[x] \subseteq 1..computed[x]
            /\ sub[x].resend => x \in Taken
  /\ AskInv
  /\ \A x \in Subs : missed[x] \subseteq 1..ver[x]

PlaceInv == Places /\ SlotsInv
BaseInv == TypeInv /\ ConnInv /\ NumberInv /\ LockInv /\ NewInv /\ EndInv

SubsInv == BaseInv /\ PlaceInv /\ OpenInv /\ ValueInv

\* A first frame has its subscription awaiting, until it is answered.  A frame
\* that was sent again need not: a refresh's result may have taken its slot.
FirstInv ==
  \A x \in subs : owed[x] > 0 /\ x \notin kept =>
    owed[x] = 1 /\ sub[x].awaiting = conn

\* A subscription that has had an answer has a value for patches.
KeptInv ==
  \A x \in subs \cap Patching \cap kept : sub[x].closed \/ sub[x].current # NoValue

-----------------------------------------------------------------------------
(* Sequences without repetition.                                           *)

\* They are as long as they have elements.
LEMMA DistinctCard ==
  ASSUME NEW S, NEW q \in Seq(S), Distinct(q)
  PROVE  IsFiniteSet(In(q)) /\ Cardinality(In(q)) = Len(q)
<1>1. Len(q) \in Nat /\ q \in [1..Len(q) -> S]
  OBVIOUS
<1>2. IsFiniteSet(1..Len(q)) /\ Cardinality(1..Len(q)) = Len(q)
  <2>1. 1 \in Int /\ Len(q) \in Int
    BY <1>1
  <2> QED
    BY <1>1, <2>1, FS_Interval
<1>3. q \in Bijection(1..Len(q), In(q))
  <2>1. q \in [1..Len(q) -> In(q)]
    BY <1>1 DEF In
  <2>2. q \in Injection(1..Len(q), In(q))
    BY <2>1 DEF Injection, IsInjective, Distinct
  <2>3. q \in Surjection(1..Len(q), In(q))
    BY <2>1 DEF Surjection, In
  <2> QED
    BY <2>2, <2>3 DEF Bijection
<1>4. ExistsBijection(1..Len(q), In(q))
  BY <1>3 DEF ExistsBijection
<1> QED
  BY <1>2, <1>4, FS_Bijection

\* Adding at the end.
LEMMA DistinctAppend ==
  ASSUME NEW S, NEW q \in Seq(S), NEW e \in S, Distinct(q), e \notin In(q)
  PROVE  /\ Append(q, e) \in Seq(S)
         /\ Distinct(Append(q, e))
         /\ In(Append(q, e)) = In(q) \cup {e}
<1> DEFINE t == Append(q, e)
<1>1. /\ t \in Seq(S) /\ Len(t) = Len(q) + 1 /\ Len(q) \in Nat
      /\ \A i \in 1..Len(q) : t[i] = q[i]
      /\ t[Len(q) + 1] = e
  BY AppendProperties
<1> HIDE DEF t
<1>2. Distinct(t)
  BY <1>1 DEF Distinct, In
<1>3. In(t) = In(q) \cup {e}
  <2>1. \A i \in 1..Len(t) : i \in 1..Len(q) \/ i = Len(q) + 1
    BY <1>1
  <2>2. \A i \in 1..Len(q) : i \in 1..Len(t)
    BY <1>1
  <2>3. Len(q) + 1 \in 1..Len(t)
    BY <1>1
  <2> QED
    BY <1>1, <2>1, <2>2, <2>3 DEF In
<1> QED
  BY <1>1, <1>2, <1>3 DEF t

\* Taking the first.
LEMMA DistinctTail ==
  ASSUME NEW S, NEW q \in Seq(S), q # <<>>, Distinct(q)
  PROVE  /\ Head(q) \in In(q) /\ Tail(q) \in Seq(S)
         /\ Distinct(Tail(q))
         /\ In(Tail(q)) = In(q) \ {Head(q)}
<1> DEFINE t == Tail(q)
<1>1. /\ t \in Seq(S) /\ Len(q) \in Nat /\ Len(q) >= 1 /\ Len(t) = Len(q) - 1 /\ Head(q) = q[1]
      /\ \A i \in 1..Len(t) : t[i] = q[i + 1]
  BY HeadTailProperties
<1> HIDE DEF t
<1>2. Head(q) \in In(q)
  <2>1. 1 \in 1..Len(q)
    BY <1>1
  <2> QED
    BY <1>1, <2>1 DEF In
<1>3. Distinct(t)
  BY <1>1 DEF Distinct
<1>4. ASSUME NEW e \in In(t) PROVE e \in In(q) /\ e # Head(q)
  <2>1. PICK i \in 1..Len(t) : e = t[i]
    BY DEF In
  <2>2. i + 1 \in 1..Len(q) /\ 1 \in 1..Len(q) /\ i + 1 # 1
    BY <1>1
  <2>3. e = q[i + 1]
    BY <1>1, <2>1
  <2> QED
    BY <1>1, <2>2, <2>3 DEF In, Distinct
<1>5. ASSUME NEW e \in In(q), e # Head(q) PROVE e \in In(t)
  <2>1. PICK i \in 1..Len(q) : e = q[i]
    BY DEF In
  <2>2. i - 1 \in 1..Len(t) /\ (i - 1) + 1 = i
    BY <1>1, <1>5, <2>1
  <2>3. e = t[i - 1]
    BY <1>1, <2>1, <2>2
  <2> QED
    BY <2>2, <2>3 DEF In
<1> QED
  BY <1>1, <1>2, <1>3, <1>4, <1>5 DEF t

\* Splitting in two.
LEMMA DistinctSplit ==
  ASSUME NEW S, NEW q \in Seq(S), Distinct(q), NEW k \in 0..Len(q)
  PROVE  LET a == SubSeq(q, 1, k)
             b == SubSeq(q, k + 1, Len(q))
         IN /\ a \in Seq(S) /\ b \in Seq(S) /\ Len(a) = k /\ Len(b) = Len(q) - k
            /\ Distinct(a) /\ Distinct(b)
            /\ In(a) \cup In(b) = In(q)
            /\ In(a) \cap In(b) = {}
<1> DEFINE a == SubSeq(q, 1, k)
           b == SubSeq(q, k + 1, Len(q))
<1>0. Len(q) \in Nat /\ k \in Nat /\ k <= Len(q)
  OBVIOUS
<1>1. a \in Seq(S) /\ Len(a) = k /\ \A i \in 1..k : a[i] = q[i]
  <2>1. \A i \in 1..k : q[i] \in S
    BY <1>0
  <2>2. 1 \in Int /\ k \in Int
    BY <1>0
  <2>3. /\ a \in Seq(S)
        /\ Len(a) = IF 1 <= k THEN k - 1 + 1 ELSE 0
        /\ \A i \in 1 .. k - 1 + 1 : a[i] = q[1 + i - 1]
    BY <2>1, <2>2, SubSeqProperties
  <2> QED
    BY <1>0, <2>3
<1>2. b \in Seq(S) /\ Len(b) = Len(q) - k /\ \A i \in 1..Len(q) - k : b[i] = q[k + i]
  <2>1. \A i \in k + 1..Len(q) : q[i] \in S
    BY <1>0
  <2>2. k + 1 \in Int /\ Len(q) \in Int
    BY <1>0
  <2>3. /\ b \in Seq(S)
        /\ Len(b) = IF k + 1 <= Len(q) THEN Len(q) - (k + 1) + 1 ELSE 0
        /\ \A i \in 1 .. Len(q) - (k + 1) + 1 : b[i] = q[k + 1 + i - 1]
    BY <2>1, <2>2, SubSeqProperties
  <2> QED
    BY <1>0, <2>3
<1> HIDE DEF a, b
<1>3. Distinct(a)
  BY <1>0, <1>1 DEF Distinct
<1>4. Distinct(b)
  <2> SUFFICES ASSUME NEW i \in 1..Len(b), NEW j \in 1..Len(b), b[i] = b[j]
               PROVE  i = j
    BY DEF Distinct
  <2>1. k + i \in 1..Len(q) /\ k + j \in 1..Len(q)
    BY <1>0, <1>2
  <2>2. q[k + i] = q[k + j]
    BY <1>2
  <2>3. k + i = k + j
    BY <2>1, <2>2 DEF Distinct
  <2> QED
    BY <1>0, <2>3
<1>5. ASSUME NEW i \in 1..Len(q)
      PROVE  \/ i \in 1..Len(a) /\ a[i] = q[i]
             \/ i - k \in 1..Len(b) /\ b[i - k] = q[i]
  <2>1. CASE i <= k
    BY <1>0, <1>1, <2>1
  <2>2. CASE i > k
    <3>1. i - k \in 1..Len(q) - k /\ k + (i - k) = i
      BY <1>0, <2>2
    <3> QED
      BY <1>2, <3>1
  <2> QED
    BY <1>0, <2>1, <2>2
<1>6. \A i \in 1..Len(a) : i \in 1..Len(q) /\ a[i] = q[i]
  BY <1>0, <1>1
<1>7. \A i \in 1..Len(b) : k + i \in 1..Len(q) /\ b[i] = q[k + i]
  BY <1>0, <1>2
<1>8. In(a) \cup In(b) = In(q)
  <2>1. \A e \in In(q) : e \in In(a) \/ e \in In(b)
    BY <1>5 DEF In
  <2>2. \A e \in In(a) : e \in In(q)
    BY <1>6 DEF In
  <2>3. \A e \in In(b) : e \in In(q)
    BY <1>7 DEF In
  <2> QED
    BY <2>1, <2>2, <2>3
<1>9. ASSUME NEW e \in In(a), e \in In(b) PROVE FALSE
  <2>1. PICK i \in 1..Len(a) : e = a[i]
    BY DEF In
  <2>2. PICK j \in 1..Len(b) : e = b[j]
    BY <1>9 DEF In
  <2>3. q[i] = q[k + j] /\ i \in 1..Len(q) /\ k + j \in 1..Len(q)
    BY <1>6, <1>7, <2>1, <2>2
  <2>4. i = k + j
    BY <2>3 DEF Distinct
  <2> QED
    BY <1>0, <1>1, <2>4
<1> QED
  BY <1>1, <1>2, <1>3, <1>4, <1>8, <1>9 DEF a, b

\* Taking out one element, wherever it is.
LEMMA DistinctRemove ==
  ASSUME NEW S, NEW q \in Seq(S), Distinct(q), NEW e
  PROVE  /\ RemoveFirst(q, e) \in Seq(S)
         /\ Distinct(RemoveFirst(q, e))
         /\ In(RemoveFirst(q, e)) = In(q) \ {e}
         /\ q = <<>> => RemoveFirst(q, e) = <<>>
<1>0. Len(q) \in Nat
  OBVIOUS
<1>1. CASE ~ \E i \in 1..Len(q) : q[i] = e
  <2>1. RemoveFirst(q, e) = q
    BY <1>1 DEF RemoveFirst
  <2>2. e \notin In(q)
    BY <1>1 DEF In
  <2> QED
    BY <2>1, <2>2
<1>2. CASE \E i \in 1..Len(q) : q[i] = e
  <2>1. PICK i \in 1..Len(q) : q[i] = e
    BY <1>2
  <2>2. {j \in 1..Len(q) : q[j] = e} = {i}
    BY <2>1 DEF Distinct
  <2>3. Min({i}) = i
    BY DEF Min
  <2>4. SelectInSeq(q, LAMBDA v : v = e) = i
    BY <2>2, <2>3 DEF SelectInSeq
  <2> DEFINE a == SubSeq(q, 1, i - 1)
             b == SubSeq(q, i + 1, Len(q))
             t == a \o b
  <2>5. RemoveFirst(q, e) = t
    BY <1>2, <2>4 DEF RemoveFirst, RemoveAt
  <2>6. a \in Seq(S) /\ Len(a) = i - 1 /\ \A j \in 1..i - 1 : a[j] = q[j]
    <3>1. \A j \in 1..i - 1 : q[j] \in S
      BY <1>0
    <3>2. 1 \in Int /\ i - 1 \in Int
      BY <1>0
    <3>3. /\ a \in Seq(S)
          /\ Len(a) = IF 1 <= i - 1 THEN (i - 1) - 1 + 1 ELSE 0
          /\ \A j \in 1 .. (i - 1) - 1 + 1 : a[j] = q[1 + j - 1]
      BY <3>1, <3>2, SubSeqProperties
    <3> QED
      BY <1>0, <3>3
  <2>7. b \in Seq(S) /\ Len(b) = Len(q) - i /\ \A j \in 1..Len(q) - i : b[j] = q[i + j]
    <3>1. \A j \in i + 1..Len(q) : q[j] \in S
      BY <1>0
    <3>2. i + 1 \in Int /\ Len(q) \in Int
      BY <1>0
    <3>3. /\ b \in Seq(S)
          /\ Len(b) = IF i + 1 <= Len(q) THEN Len(q) - (i + 1) + 1 ELSE 0
          /\ \A j \in 1 .. Len(q) - (i + 1) + 1 : b[j] = q[i + 1 + j - 1]
      BY <3>1, <3>2, SubSeqProperties
    <3> QED
      BY <1>0, <3>3
  <2> HIDE DEF a, b
  <2>8. /\ t \in Seq(S) /\ Len(t) = Len(q) - 1
        /\ \A j \in 1..Len(t) : t[j] = IF j <= i - 1 THEN a[j] ELSE b[j - (i - 1)]
    <3>1. /\ t \in Seq(S) /\ Len(t) = Len(a) + Len(b)
          /\ \A j \in 1..Len(a) + Len(b) :
               t[j] = IF j <= Len(a) THEN a[j] ELSE b[j - Len(a)]
      BY <2>6, <2>7, ConcatProperties
    <3> QED
      BY <1>0, <2>6, <2>7, <3>1
  <2> HIDE DEF t
  <2>9. \A j \in 1..Len(t) : t[j] = IF j < i THEN q[j] ELSE q[j + 1]
    <3> SUFFICES ASSUME NEW j \in 1..Len(t)
                 PROVE  t[j] = IF j < i THEN q[j] ELSE q[j + 1]
      OBVIOUS
    <3>1. CASE j < i
      <4>1. j \in 1..i - 1 /\ j <= i - 1
        BY <1>0, <2>8, <3>1
      <4> QED
        BY <2>6, <2>8, <3>1, <4>1
    <3>2. CASE j >= i
      <4>1. j - (i - 1) \in 1..Len(q) - i /\ i + (j - (i - 1)) = j + 1 /\ ~(j <= i - 1)
        BY <1>0, <2>8, <3>2
      <4>2. t[j] = b[j - (i - 1)]
        BY <2>8, <4>1
      <4> QED
        BY <1>0, <2>7, <2>8, <3>2, <4>1, <4>2
    <3> QED
      BY <1>0, <2>8, <3>1, <3>2
  <2>10. Distinct(t)
    <3> SUFFICES ASSUME NEW j \in 1..Len(t), NEW n \in 1..Len(t), t[j] = t[n]
                 PROVE  j = n
      BY DEF Distinct
    <3> DEFINE at(l) == IF l < i THEN l ELSE l + 1
    <3>1. at(j) \in 1..Len(q) /\ at(n) \in 1..Len(q) /\ (at(j) = at(n) => j = n)
      BY <1>0, <2>8
    <3>2. t[j] = q[at(j)] /\ t[n] = q[at(n)]
      BY <2>9
    <3> QED
      BY <3>1, <3>2 DEF Distinct
  <2>11. ASSUME NEW d \in In(t) PROVE d \in In(q) /\ d # e
    <3>1. PICK j \in 1..Len(t) : d = t[j]
      BY DEF In
    <3>2. \E n \in 1..Len(q) : n # i /\ d = q[n]
      <4>1. CASE j < i
        BY <1>0, <2>8, <2>9, <3>1, <4>1
      <4>2. CASE j >= i
        <5>1. j + 1 \in 1..Len(q) /\ j + 1 # i /\ ~(j < i)
          BY <1>0, <2>8, <4>2
        <5> QED
          BY <2>9, <3>1, <5>1
      <4> QED
        BY <1>0, <2>8, <4>1, <4>2
    <3> QED
      BY <2>1, <3>2 DEF In, Distinct
  <2>12. ASSUME NEW d \in In(q), d # e PROVE d \in In(t)
    <3>1. PICK n \in 1..Len(q) : d = q[n]
      BY DEF In
    <3>2. n # i
      BY <2>1, <2>12, <3>1
    <3>3. CASE n < i
      <4>1. n \in 1..Len(t)
        BY <1>0, <2>8, <3>3
      <4> QED
        BY <2>9, <3>1, <3>3, <4>1 DEF In
    <3>4. CASE n > i
      <4>1. n - 1 \in 1..Len(t) /\ ~(n - 1 < i) /\ (n - 1) + 1 = n
        BY <1>0, <2>8, <3>4
      <4>2. t[n - 1] = q[n]
        BY <2>9, <4>1
      <4> QED
        BY <3>1, <4>1, <4>2 DEF In
    <3> QED
      BY <1>0, <3>2, <3>3, <3>4
  <2>13. q # <<>>
    BY <2>1
  <2> QED
    BY <2>5, <2>8, <2>10, <2>11, <2>12, <2>13
<1> QED
  BY <1>1, <1>2

-----------------------------------------------------------------------------
(* Sending and releasing.                                                  *)

\* What the types say, one by one.
LEMMA Types ==
  ASSUME TypeInv
  PROVE  /\ conn \in Nat /\ last \in Nat /\ NoConn = 0 /\ NoAnswer = MaxVersion + 1
         /\ conn \in Conns0 /\ last \in Conns0 /\ 0 \in Conns0
         /\ linkUp \in BOOLEAN /\ closed \in BOOLEAN
         /\ subs \subseteq Subs /\ srvSubs \subseteq Subs /\ sup.todo \subseteq Subs
         /\ subQueue \in Seq(Subs) /\ subSendMu \in LockRec /\ rd \in ReaderRec
         /\ subInFlight \in Nat /\ subInFlight <= maxSubscribesInFlight
         /\ maxSubscribesInFlight \in Nat \ {0} /\ MaxVersion \in Nat /\ MaxConns \in Nat
         /\ sub \in [Subs -> SubRec] /\ opening \in [Subs -> OpenRec]
         /\ ending \in [Subs -> EndRec]
         /\ sup \in [pc : {"up", "lose", "resend", "down"}, todo : SUBSET Subs]
<1>1. /\ conn \in Conns0 /\ last \in Conns0 /\ subInFlight \in 0..maxSubscribesInFlight
      /\ subQueue \in Seq(Subs) /\ linkUp \in BOOLEAN /\ closed \in BOOLEAN
      /\ subs \subseteq Subs /\ srvSubs \subseteq Subs
      /\ sup \in [pc : {"up", "lose", "resend", "down"}, todo : SUBSET Subs]
  BY DEF TypeInv, TypeOK
<1>2. subSendMu \in LockRec /\ rd \in ReaderRec
  BY DEF TypeInv, TypeOK, LockRec
<1>3. sub \in [Subs -> SubRec] /\ opening \in [Subs -> OpenRec] /\ ending \in [Subs -> EndRec]
  BY DEF TypeInv, TypeOK, SubRec, OpenRec, EndRec
<1>4. maxSubscribesInFlight \in Nat \ {0} /\ MaxVersion \in Nat /\ MaxConns \in Nat
  BY SubsAssumption
<1>5. sup.todo \subseteq Subs
  BY <1>1
<1> QED
  BY <1>1, <1>2, <1>3, <1>4, <1>5 DEF Conns0, NoConn, NoAnswer

\* With only open entries in the queue, the loop takes as many as there are
\* slots and entries, in order.
LEMMA PopsInOrder ==
  ASSUME TypeInv, Waiting \subseteq subs, NEW n \in Nat
  PROVE  LET k == Popped(n)
         IN /\ k \in 0..Len(subQueue) /\ k <= n
            /\ k = Len(subQueue) \/ k = n
            /\ NextOf(k) = SubSeq(subQueue, 1, k)
<1>0. Len(subQueue) \in Nat /\ subQueue \in Seq(Subs)
  BY Types
<1>1. ASSUME NEW k \in 0..Len(subQueue)
      PROVE  OpenAmong(k) = 1..k /\ Cardinality(OpenAmong(k)) = k
  <2>1. \A i \in 1..k : subQueue[i] \in subs
    BY <1>0 DEF Waiting, In
  <2>2. OpenAmong(k) = 1..k
    BY <2>1 DEF OpenAmong
  <2>3. Cardinality(1..k) = IF 1 > k THEN 0 ELSE k - 1 + 1
    <3>1. 1 \in Int /\ k \in Int
      BY <1>0
    <3> QED
      BY <3>1, FS_Interval
  <2> QED
    BY <1>0, <2>2, <2>3
<1> DEFINE P(k) == /\ k = Len(subQueue) \/ Cardinality(OpenAmong(k)) = n
                   /\ \A j \in 0..k-1 : Cardinality(OpenAmong(j)) < n
           m == IF Len(subQueue) < n THEN Len(subQueue) ELSE n
<1>2. m \in 0..Len(subQueue) /\ P(m)
  <2>1. m \in 0..Len(subQueue)
    BY <1>0
  <2>2. \A j \in 0..m-1 : j \in 0..Len(subQueue) /\ j < n
    BY <1>0
  <2>3. m = Len(subQueue) \/ m = n
    OBVIOUS
  <2> HIDE DEF m
  <2> QED
    BY <1>1, <2>1, <2>2, <2>3
<1> HIDE DEF m
<1> DEFINE k == Popped(n)
<1>3. k \in 0..Len(subQueue) /\ P(k)
  BY <1>2 DEF Popped
<1> HIDE DEF k
<1>4. k = Len(subQueue) \/ k = n
  BY <1>1, <1>3
<1>5. k <= n
  <2>1. CASE k = 0
    BY <2>1
  <2>2. CASE k > 0
    <3>1. k - 1 \in 0..k-1 /\ k - 1 \in 0..Len(subQueue)
      BY <1>0, <1>3, <2>2
    <3>2. k - 1 < n
      BY <1>1, <1>3, <3>1
    <3> QED
      BY <1>0, <1>3, <3>2
  <2> QED
    BY <1>0, <1>3, <2>1, <2>2
<1>6. NextOf(k) = SubSeq(subQueue, 1, k)
  <2>1. ASSUME NEW i \in 1..k
        PROVE  (CHOOSE j \in OpenAmong(k) : Cardinality(OpenAmong(j)) = i) = i
    <3>1. OpenAmong(k) = 1..k
      BY <1>1, <1>3
    <3>2. \A j \in 1..k : j \in 0..Len(subQueue)
      BY <1>0, <1>3
    <3>3. \A j \in OpenAmong(k) : Cardinality(OpenAmong(j)) = j
      BY <1>1, <3>1, <3>2
    <3> QED
      BY <3>1, <3>3
  <2>2. NextOf(k) = [i \in 1..k |-> subQueue[i]]
    BY <1>1, <1>3, <2>1 DEF NextOf
  <2>3. \A i \in 1..k : subQueue[i] \in Subs
    BY <1>0, <1>3
  <2>4. /\ SubSeq(subQueue, 1, k) \in Seq(Subs)
        /\ Len(SubSeq(subQueue, 1, k)) = k
        /\ \A i \in 1..k : SubSeq(subQueue, 1, k)[i] = subQueue[i]
    <3>1. 1 \in Int /\ k \in Int
      BY <1>0, <1>3
    <3>2. /\ SubSeq(subQueue, 1, k) \in Seq(Subs)
          /\ Len(SubSeq(subQueue, 1, k)) = IF 1 <= k THEN k - 1 + 1 ELSE 0
          /\ \A i \in 1 .. k - 1 + 1 : SubSeq(subQueue, 1, k)[i] = subQueue[1 + i - 1]
      BY <2>3, <3>1, SubSeqProperties
    <3> QED
      BY <1>0, <1>3, <3>2
  <2>5. SubSeq(subQueue, 1, k) = [i \in 1..k |-> subQueue[i]]
    BY <2>4
  <2> QED
    BY <2>2, <2>5
<1> QED
  BY <1>3, <1>4, <1>5, <1>6 DEF k

\* releaseSubSlot on the current connection: the front of the queue moves into
\* the free slots.
LEMMA Releases ==
  ASSUME TypeInv, Places, NEW who \in {"ender", "reader"}, NEW c, releaseSubSlot(who, c),
         c # NoConn, conn = c, subInFlight > 0
  PROVE  /\ subSendMu = Free
         /\ subQueue' \in Seq(Subs) /\ Distinct(subQueue')
         /\ subSendMu' \in LockRec /\ Distinct(subSendMu'.todo)
         /\ subSendMu'.todo = <<>> <=> subSendMu' = Free
         /\ subSendMu' # Free => subSendMu'.conn = c /\ subSendMu'.by = who
         /\ In(subQueue') \cup In(subSendMu'.todo) = In(subQueue)
         /\ In(subQueue') \cap In(subSendMu'.todo) = {}
         /\ subInFlight' = subInFlight - 1 + Len(subSendMu'.todo)
         /\ subInFlight' \in 0..maxSubscribesInFlight
         /\ subQueue' # <<>> => subInFlight' = maxSubscribesInFlight
<1> DEFINE n == maxSubscribesInFlight - (subInFlight - 1)
           k == Popped(n)
           next == SubSeq(subQueue, 1, k)
<1>1. n \in Nat /\ n >= 1
  BY Types
<1>2. /\ Waiting \subseteq subs /\ Distinct(subQueue)
      /\ conn \in Conns0 /\ subQueue \in Seq(Subs) /\ Len(subQueue) \in Nat
  BY Types DEF Places
<1>3. /\ k \in 0..Len(subQueue) /\ k <= n
      /\ k = Len(subQueue) \/ k = n
      /\ NextOf(k) = next
  BY <1>1, <1>2, PopsInOrder
<1>4. /\ subSendMu = Free
      /\ subInFlight' = subInFlight - 1 + Len(next)
      /\ subQueue' = SubSeq(subQueue, k + 1, Len(subQueue))
      /\ subSendMu' = IF next = <<>> THEN Free ELSE [by |-> who, conn |-> c, todo |-> next]
  BY <1>3 DEF releaseSubSlot
<1>5. /\ next \in Seq(Subs) /\ subQueue' \in Seq(Subs)
      /\ Len(next) = k /\ Len(subQueue') = Len(subQueue) - k
      /\ Distinct(next) /\ Distinct(subQueue')
      /\ In(next) \cup In(subQueue') = In(subQueue)
      /\ In(next) \cap In(subQueue') = {}
  <2> DEFINE rest == SubSeq(subQueue, k + 1, Len(subQueue))
  <2> HIDE DEF k
  <2>1. /\ next \in Seq(Subs) /\ rest \in Seq(Subs)
        /\ Len(next) = k /\ Len(rest) = Len(subQueue) - k
        /\ Distinct(next) /\ Distinct(rest)
        /\ In(next) \cup In(rest) = In(subQueue)
        /\ In(next) \cap In(rest) = {}
    BY <1>2, <1>3, DistinctSplit
  <2>2. subQueue' = rest
    BY <1>4
  <2> HIDE DEF next, rest
  <2> QED
    BY <2>1, <2>2
<1> HIDE DEF next, k
<1>6. subSendMu'.todo = next
  BY <1>4 DEF Free
<1>7. subSendMu' \in LockRec
  <2>1. Free \in LockRec
    BY Types DEF Free, LockRec, NoConn
  <2> QED
    BY <1>2, <1>4, <1>5, <2>1 DEF LockRec
<1>8. next = <<>> <=> subSendMu' = Free
  BY <1>4, <1>6 DEF Free
<1>9. subSendMu' # Free => subSendMu'.conn = c /\ subSendMu'.by = who
  BY <1>4
<1>10. subInFlight' \in 0..maxSubscribesInFlight
  <2>1. subInFlight \in Nat /\ maxSubscribesInFlight \in Nat /\ k \in Nat
    BY <1>2, <1>3, Types
  <2>2. subInFlight' = subInFlight - 1 + k
    BY <1>4, <1>5
  <2> QED
    BY <1>3, <2>1, <2>2
<1>11. subQueue' # <<>> => subInFlight' = maxSubscribesInFlight
  <2>1. CASE k = Len(subQueue)
    BY <1>5, <2>1
  <2>2. CASE k = n
    <3>1. subInFlight \in Nat /\ maxSubscribesInFlight \in Nat /\ Len(next) = n
      BY <1>5, <2>2, Types
    <3> QED
      BY <1>4, <3>1
  <2> QED
    BY <1>3, <2>1, <2>2
<1> QED
  BY <1>4, <1>5, <1>6, <1>7, <1>8, <1>9, <1>10, <1>11

\* releaseSubSlot for an earlier connection does nothing.
LEMMA ReleasesNothing ==
  ASSUME NEW who, NEW c, releaseSubSlot(who, c), conn # c
  PROVE  /\ subSendMu = Free
         /\ UNCHANGED <<subInFlight, subQueue, subSendMu>>
BY DEF releaseSubSlot

\* sendSubscribe: nothing, the end of the queue, or a slot.
LEMMA Sends ==
  ASSUME TypeInv, NEW who \in {"app", "reader", "sup"}, NEW c \in Conns0, NEW x \in Subs,
         sendSubscribe(who, c, x)
  PROVE  /\ subSendMu = Free
         /\ \/ /\ x \notin subs \/ conn # c
               /\ UNCHANGED <<subInFlight, subQueue, subSendMu>>
            \/ /\ x \in subs /\ conn = c /\ subInFlight = maxSubscribesInFlight
               /\ subQueue' = Append(subQueue, x)
               /\ UNCHANGED <<subInFlight, subSendMu>>
            \/ /\ x \in subs /\ conn = c /\ subInFlight < maxSubscribesInFlight
               /\ subInFlight' = subInFlight + 1 /\ subQueue' = subQueue
               /\ subSendMu' \in LockRec /\ subSendMu'.by = who /\ subSendMu'.conn = c
               /\ subSendMu'.todo = <<x>>
<1>1. [by |-> who, conn |-> c, todo |-> <<x>>] \in LockRec
  BY DEF LockRec
<1> QED
  BY <1>1, Types DEF sendSubscribe

-----------------------------------------------------------------------------
(* Steps that move no subscription.                                        *)

\* The invariant is its parts.
LEMMA Parts ==
  ASSUME SubsInv
  PROVE  /\ TypeInv /\ ConnInv /\ NumberInv /\ LockInv /\ NewInv /\ EndInv
         /\ Places /\ SlotsInv /\ OpenInv /\ ValueInv
BY DEF SubsInv, BaseInv, PlaceInv

\* The parts after a step make the invariant after it.
LEMMA Whole ==
  ASSUME TypeInv', ConnInv', NumberInv', LockInv', NewInv', EndInv',
         Places', SlotsInv', OpenInv', ValueInv'
  PROVE  SubsInv'
BY DEF SubsInv, BaseInv, PlaceInv

\* The places are the same when what they are made of is.
LEMMA Stays ==
  ASSUME Places, SlotsInv,
         UNCHANGED <<conn, subInFlight, subQueue, subSendMu, opening, subs>>,
         Again' = Again, Awaiting' = Awaiting, Taken' = Taken, Releasing' = Releasing
  PROVE  /\ Places' /\ SlotsInv' /\ Holders' = Holders
         /\ Due' = Due /\ Waiting' = Waiting /\ Written' = Written
<1>1. Due' = Due /\ Waiting' = Waiting /\ Written' = Written
  BY DEF Due, Waiting, Written, In
<1>2. Holders' = Holders
  BY <1>1 DEF Holders
<1>3. Places'
  BY <1>1, <1>2 DEF Places, Apart, Distinct
<1>4. SlotsInv'
  BY <1>2 DEF SlotsInv, QueuedOnlyWhenFull
<1> QED
  BY <1>1, <1>2, <1>3, <1>4

\* closeWith, field by field.
LEMMA CloseFields ==
  ASSUME TypeInv, NEW x \in Subs, closeWith(x)
  PROVE  /\ sub' \in [Subs -> SubRec] /\ ending' \in [Subs -> EndRec]
         /\ \A y \in Subs : y # x => sub'[y] = sub[y] /\ ending'[y] = ending[y]
         /\ sub'[x].closed /\ sub'[x].current = NoValue
         /\ sub'[x].awaiting = sub[x].awaiting /\ sub'[x].resend = sub[x].resend
         /\ sub'[x].failing = sub[x].failing
         /\ ending'[x].pc = "lock" /\ ending'[x].aw = ending[x].aw
<1>1. NoValue \in [conn : Conns0, has : SUBSET (1..MaxVersion)]
  BY Types DEF NoValue, NoConn
<1>2. sub[x] \in SubRec /\ ending[x] \in EndRec
  BY Types
<1>3. /\ sub' = [sub EXCEPT ![x] = [sub[x] EXCEPT !.closed = TRUE, !.current = NoValue]]
      /\ ending' = [ending EXCEPT ![x] = [ending[x] EXCEPT !.pc = "lock"]]
  BY Types DEF closeWith
<1> DEFINE s == [sub[x] EXCEPT !.closed = TRUE, !.current = NoValue]
           e == [ending[x] EXCEPT !.pc = "lock"]
<1>4. /\ s \in SubRec /\ s.closed /\ s.current = NoValue /\ s.awaiting = sub[x].awaiting
      /\ s.resend = sub[x].resend /\ s.failing = sub[x].failing
  BY <1>1, <1>2 DEF SubRec
<1>5. e \in EndRec /\ e.pc = "lock" /\ e.aw = ending[x].aw
  BY <1>2 DEF EndRec
<1> HIDE DEF s, e
<1>6. sub' = [sub EXCEPT ![x] = s] /\ ending' = [ending EXCEPT ![x] = e]
  BY <1>3 DEF s, e
<1>7. sub' \in [Subs -> SubRec] /\ ending' \in [Subs -> EndRec]
  BY <1>4, <1>5, <1>6, Types
<1>8. \A y \in Subs : y # x => sub'[y] = sub[y] /\ ending'[y] = ending[y]
  BY <1>6, Types
<1>9. sub'[x] = s /\ ending'[x] = e
  BY <1>6, Types
<1> QED
  BY <1>4, <1>5, <1>7, <1>8, <1>9

\* What is left alone is still of its type.
LEMMA TypesStay ==
  ASSUME TypeInv, TypeOK', rd' \in ReaderRec, rd'.pc # "read" => rd'.x \in Subs
  PROVE  TypeInv'
BY DEF TypeInv

\* The first caller of closeWith, whoever it is: x is not alive any more, and
\* nothing else has changed but what the reader does next and the server's data
\* of x.
LEMMA Closes ==
  ASSUME SubsInv, NEW x \in Subs, closeWith(x), ~sub[x].closed, opening[x].pc # "new",
         UNCHANGED <<conn, last, linkUp, closed, table, subSendMu, opening, sup, srvSubs, missed>>,
         kept' \in SUBSET srvSubs,
         \/ rd' = rd
         \/ /\ rd' = [pc |-> "ending", x |-> x, aw |-> NoConn] /\ rd.pc \in {"read", "fail"}
            /\ rd.pc = "fail" => rd.x = x
            /\ rd.pc = "fail" \/ x \in srvSubs \/ owed[x] > 0
            /\ sup.pc # "lose",
         ver' \in [Subs -> 0..MaxVersion], \A y \in Subs : ver'[y] >= ver[y],
         owed' \in [Subs -> Nat], computed' \in [Subs -> 0..NoAnswer],
         \A y \in Subs : y # x => owed'[y] = owed[y] /\ computed'[y] = computed[y],
         owed'[x] = owed[x] \/ owed[x] > 0, owed'[x] <= owed[x],
         (computed'[x] = computed[x] /\ owed'[x] = owed[x]) \/ computed'[x] = NoAnswer
  PROVE  SubsInv'
<1>0. /\ TypeInv /\ ConnInv /\ NumberInv /\ LockInv /\ NewInv /\ EndInv
      /\ Places /\ SlotsInv /\ OpenInv /\ ValueInv
  BY Parts
<1>1. UNCHANGED <<subs, subInFlight, subQueue>>
  BY DEF table
<1>2. /\ sub' \in [Subs -> SubRec] /\ ending' \in [Subs -> EndRec]
      /\ \A y \in Subs : y # x => sub'[y] = sub[y] /\ ending'[y] = ending[y]
      /\ sub'[x].closed /\ sub'[x].current = NoValue
      /\ sub'[x].awaiting = sub[x].awaiting /\ sub'[x].resend = sub[x].resend
      /\ sub'[x].failing = sub[x].failing
      /\ ending'[x].pc = "lock" /\ ending'[x].aw = ending[x].aw
  BY <1>0, CloseFields
<1>3. ending[x].pc = "no"
  BY <1>0 DEF EndInv
<1>4. /\ rd' \in ReaderRec
      /\ rd'.pc # "read" => rd'.x \in Subs
      /\ Taken' = Taken
      /\ rd'.pc \in {"answered", "failed"} => rd' = rd
  <2>1. rd \in ReaderRec /\ (rd.pc # "read" => rd.x \in Subs) /\ NoConn \in Conns0
    BY <1>0, Types DEF TypeInv, NoConn
  <2>2. CASE rd' = rd
    BY <2>1, <2>2 DEF Taken
  <2>3. CASE rd' = [pc |-> "ending", x |-> x, aw |-> NoConn] /\ rd.pc \in {"read", "fail"}
    BY <2>1, <2>3 DEF ReaderRec, Taken
  <2> QED
    BY <2>2, <2>3
<1>5. TypeInv'
  <2>1. TypeOK'
    BY <1>0, <1>1, <1>2, <1>4, Types DEF TypeInv, TypeOK, SubRec, EndRec, Conns0, ReaderRec
  <2> QED
    BY <1>0, <1>4, <2>1, TypesStay
<1>6. /\ Again' = Again /\ Awaiting' = Awaiting /\ Releasing' = Releasing
  BY <1>2, <1>3 DEF Again, Awaiting, Releasing
<1>7. Places' /\ SlotsInv' /\ Holders' = Holders
      /\ Due' = Due /\ Waiting' = Waiting /\ Written' = Written
  BY <1>0, <1>1, <1>4, <1>6, Stays
<1>8. ConnInv'
  <2>1. ~linkUp => /\ owed' = owed /\ computed' = computed
    <3>1. owed \in [Subs -> Nat] /\ computed \in [Subs -> 0..NoAnswer]
      BY <1>0 DEF TypeInv, TypeOK
    <3>2. ~linkUp => owed[x] = 0 /\ computed[x] = NoAnswer
      BY <1>0 DEF ConnInv
    <3>3. ~linkUp => owed'[x] = owed[x] /\ computed'[x] = computed[x]
      BY <3>2
    <3> QED
      BY <3>1, <3>3
  <2> QED
    BY <1>0, <1>1, <2>1 DEF ConnInv
<1>9. NumberInv'
  <2>1. rd'.aw <= last
    BY <1>0, Types DEF NumberInv, NoConn
  <2> QED
    BY <1>0, <1>2, <2>1 DEF NumberInv
<1>10. LockInv'
  <2>1. \A y \in Subs : owed'[y] > 0 => owed[y] > 0
    BY <1>0, Types DEF TypeInv, TypeOK
  <2>2. \A y \in Subs : owed[y] = 0 => owed'[y] = 0
    BY <1>0, Types DEF TypeInv, TypeOK
  <2>3. conn # NoConn /\ subSendMu # Free /\ subSendMu.conn # conn =>
          /\ srvSubs' = {} /\ subQueue' = <<>> /\ Holders' = {}
          /\ rd'.pc = "read" /\ \A y \in Subs : owed'[y] = 0
    <3>1. CASE rd' = rd
      BY <1>0, <1>1, <1>7, <2>2, <3>1 DEF LockInv
    <3>2. CASE rd.pc = "fail" \/ x \in srvSubs \/ owed[x] > 0
      BY <1>0, <3>2 DEF LockInv
    <3> QED
      BY <3>1, <3>2
  <2>4. \A y \in Subs : ending'[y].pc = "release" => ending'[y].aw # NoConn
    <3>1. \A y \in Subs : ending[y].pc = "release" => ending[y].aw # NoConn
      BY <1>0 DEF LockInv
    <3> QED
      BY <1>2, <3>1
  <2>5. conn # NoConn => \A y \in Subs : y \in srvSubs \/ owed'[y] > 0 =>
                          sub'[y].awaiting \in {NoConn, conn}
    BY <1>0, <1>2, <2>1 DEF LockInv
  <2> QED
    BY <1>0, <1>4, <2>3, <2>4, <2>5 DEF LockInv
<1>11. NewInv'
  BY <1>0, <1>1, <1>2, <1>7 DEF NewInv
<1>12. EndInv'
  BY <1>0, <1>1, <1>2 DEF EndInv
<1>13. \A y \in Subs : Alive(y)' => y # x /\ Alive(y)
  <2> SUFFICES ASSUME NEW y \in Subs, Alive(y)' PROVE y # x /\ Alive(y)
    OBVIOUS
  <2>1. y # x
    BY <1>2 DEF Alive
  <2>2. ~Failed(y)
    <3>1. CASE rd' = rd
      BY <3>1 DEF Alive, Failed
    <3>2. CASE rd.pc \in {"read", "fail"} /\ (rd.pc = "fail" => rd.x = x)
      BY <2>1, <3>2 DEF Failed
    <3> QED
      BY <3>1, <3>2
  <2> QED
    BY <1>1, <1>2, <2>1, <2>2 DEF Alive
<1>14. OpenInv'
  <2>1. \A y \in Subs : computed'[y] # NoAnswer => owed'[y] > 0
    BY <1>0 DEF OpenInv
  <2>2. \A y \in subs : Alive(y)' => /\ Alive(y) /\ sub'[y] = sub[y] /\ owed'[y] = owed[y]
    <3>1. subs \subseteq Subs
      BY <1>0, Types
    <3> QED
      BY <1>2, <1>13, <3>1
  <2> QED
    BY <1>0, <1>1, <1>6, <1>7, <2>1, <2>2 DEF OpenInv
<1>15. ValueInv'
  <2>1. \A y \in Subs : missed'[y] \subseteq 1..ver'[y]
    <3>1. ver \in [Subs -> 0..MaxVersion] /\ \A y \in Subs : missed[y] \subseteq 1..ver[y]
      BY <1>0 DEF ValueInv, TypeInv, TypeOK
    <3>2. \A y \in Subs : 1..ver[y] \subseteq 1..ver'[y]
      BY <3>1
    <3> QED
      BY <3>1, <3>2
  <2> QED
    <3>1. \A y \in subs : sub'[y].current # NoValue =>
            sub'[y].current.conn = last /\ (sup.pc = "lose" => y \in sup.todo)
      <4>1. \A y \in subs : y # x => sub'[y] = sub[y]
        BY <1>0, <1>2, Types
      <4> QED
        BY <1>0, <1>2, <4>1 DEF ValueInv
    <3>2. \A y \in subs : Alive(y)' => /\ Alive(y) /\ sub'[y] = sub[y]
                                       /\ owed'[y] = owed[y] /\ computed'[y] = computed[y]
      <4>1. subs \subseteq Subs
        BY <1>0, Types
      <4> QED
        BY <1>2, <1>13, <4>1
    <3>3. AskInv'
      <4>1. \A y \in Subs : Open(y)' => y # x /\ Open(y)
        BY <1>2 DEF Open, Failed
      <4>2. AskInv /\ subs \subseteq Subs
        BY <1>0, Types DEF ValueInv
      <4> QED
        BY <1>1, <1>2, <1>6, <4>1, <4>2 DEF AskInv
    <3> QED
      BY <1>0, <1>1, <1>4, <1>6, <1>7, <2>1, <3>1, <3>2, <3>3 DEF ValueInv
<1> QED
  BY <1>5, <1>7, <1>8, <1>9, <1>10, <1>11, <1>12, <1>14, <1>15, Whole

\* The server reads the data for an answer.
LEMMA ServerComputesKeeps ==
  ASSUME SubsInv, NEW x \in Subs, ServerComputes(x)
  PROVE  SubsInv'
<1>0. /\ TypeInv /\ ConnInv /\ NumberInv /\ LockInv /\ NewInv /\ EndInv
      /\ Places /\ SlotsInv /\ OpenInv /\ ValueInv
  BY Parts
<1>1. /\ owed[x] > 0 /\ UNCHANGED <<subs, subInFlight, subQueue>>
      /\ computed' = [computed EXCEPT ![x] = ver[x]]
      /\ UNCHANGED <<conn, last, linkUp, closed, subSendMu, sub, opening, ending,
                     rd, sup, ver, srvSubs, kept, owed, missed>>
  BY DEF ServerComputes, table
<1>2. /\ computed' \in [Subs -> 0..NoAnswer] /\ computed'[x] = ver[x]
      /\ \A y \in Subs : y # x => computed'[y] = computed[y]
  BY <1>0, <1>1, Types DEF TypeInv, TypeOK
<1>3. TypeInv'
  BY <1>0, <1>1, <1>2 DEF TypeInv, TypeOK
<1>4. ConnInv'
  <2>1. linkUp
    BY <1>0, <1>1 DEF ConnInv
  <2> QED
    BY <1>0, <1>1, <2>1 DEF ConnInv
<1>5. NumberInv' /\ NewInv' /\ EndInv'
  BY <1>0, <1>1 DEF NumberInv, NewInv, EndInv, Waiting, In
<1>6. /\ Again' = Again /\ Awaiting' = Awaiting /\ Releasing' = Releasing /\ Taken' = Taken
  BY <1>1 DEF Again, Awaiting, Releasing, Taken
<1>7. Places' /\ SlotsInv' /\ Holders' = Holders
      /\ Due' = Due /\ Waiting' = Waiting /\ Written' = Written
  BY <1>0, <1>1, <1>6, Stays
<1>8. LockInv'
  BY <1>0, <1>1, <1>7 DEF LockInv
<1>9. \A y \in Subs : Alive(y)' <=> Alive(y)
  BY <1>1 DEF Alive, Failed
<1>10. OpenInv'
  <2>1. \A y \in Subs : computed'[y] # NoAnswer => owed'[y] > 0
    BY <1>0, <1>1, <1>2 DEF OpenInv
  <2> QED
    BY <1>0, <1>1, <1>6, <1>7, <1>9, <2>1, Types DEF OpenInv
<1>11. ValueInv'
  <2>1. \A y \in Subs : missed[y] \subseteq 1..computed[y] /\ computed[y] # NoAnswer
                        => missed[y] \subseteq 1..computed'[y]
    BY <1>0, <1>2 DEF ValueInv
  <2>2. missed[x] \subseteq 1..computed'[x]
    BY <1>0, <1>2 DEF ValueInv
  <2>3. \A y \in Subs : computed'[y] # NoAnswer => y = x \/ computed[y] # NoAnswer
    BY <1>2
  <2>4. subs \subseteq Subs
    BY <1>0, Types
  <2>5. AskInv'
    BY <1>0, <1>1, <1>6 DEF ValueInv, AskInv, Open, Failed
  <2> QED
    BY <1>0, <1>1, <1>6, <1>7, <1>9, <2>1, <2>2, <2>3, <2>4, <2>5 DEF ValueInv
<1> QED
  BY <1>3, <1>4, <1>5, <1>7, <1>8, <1>10, <1>11, Whole

\* Only the reader goes on, from a step that holds nothing; it has not just
\* failed a subscription that is still alive.
LEMMA ReaderReturns ==
  ASSUME SubsInv, rd' = Idle, rd.pc \notin {"answered", "failed"},
         rd.pc = "fail" => sub[rd.x].closed,
         UNCHANGED <<conn, last, linkUp, closed, subs, subInFlight, subQueue, subSendMu,
                     sub, opening, ending, sup, ver, srvSubs, kept, owed, computed, missed>>
  PROVE  SubsInv'
<1>0. /\ TypeInv /\ ConnInv /\ NumberInv /\ LockInv /\ NewInv /\ EndInv
      /\ Places /\ SlotsInv /\ OpenInv /\ ValueInv
  BY Parts
<1>1. rd'.pc = "read" /\ rd'.aw = NoConn /\ rd' \in ReaderRec
  BY <1>0, Types DEF Idle, ReaderRec, NoConn
<1>2. TypeInv'
  BY <1>0, <1>1 DEF TypeInv, TypeOK, ReaderRec
<1>3. ConnInv' /\ NewInv' /\ EndInv'
  BY <1>0, <1>1 DEF ConnInv, NewInv, EndInv, Waiting, In
<1>4. NumberInv'
  BY <1>0, <1>1, Types DEF NumberInv, NoConn
<1>5. /\ Again' = Again /\ Awaiting' = Awaiting /\ Releasing' = Releasing /\ Taken' = Taken
  BY <1>1 DEF Again, Awaiting, Releasing, Taken
<1>6. Places' /\ SlotsInv' /\ Holders' = Holders
      /\ Due' = Due /\ Waiting' = Waiting /\ Written' = Written
  BY <1>0, <1>5, Stays
<1>7. LockInv'
  BY <1>0, <1>1, <1>6 DEF LockInv
<1>8. \A y \in Subs : Alive(y)' => Alive(y)
  BY <1>1 DEF Alive, Failed
<1>9. OpenInv'
  BY <1>0, <1>5, <1>6, <1>8, Types DEF OpenInv
<1>10. ValueInv'
  <2>1. \A y \in subs : Open(y)' => Open(y)
    BY <1>0, <1>1 DEF Open, Failed, TypeInv
  <2>2. AskInv'
    BY <1>0, <1>5, <2>1 DEF ValueInv, AskInv
  <2> QED
    BY <1>0, <1>5, <1>6, <1>8, <2>2, Types DEF ValueInv
<1> QED
  BY <1>2, <1>3, <1>4, <1>6, <1>7, <1>9, <1>10, Whole

\* The reader goes on when the end it called has returned.
LEMMA endReturnsKeeps ==
  ASSUME SubsInv, endReturns
  PROVE  SubsInv'
BY ReaderReturns DEF endReturns, table, srvVars

\* Only the supervisor goes on.
LEMMA resendDoneKeeps ==
  ASSUME SubsInv, resendDone
  PROVE  SubsInv'
<1>0. /\ TypeInv /\ ConnInv /\ NumberInv /\ LockInv /\ NewInv /\ EndInv
      /\ Places /\ SlotsInv /\ OpenInv /\ ValueInv
  BY Parts
<1>1. /\ sup.pc = "resend" /\ sup.todo = {}
      /\ UNCHANGED <<conn, last, linkUp, closed, subs, subInFlight, subQueue, subSendMu,
                     sub, opening, ending, rd, ver, srvSubs, kept, owed, computed, missed>>
  BY DEF resendDone, table, srvVars
<1>2. /\ sup' \in [pc : {"up", "lose", "resend", "down"}, todo : SUBSET Subs]
      /\ sup'.pc = "up" /\ sup'.todo = {}
  BY <1>0, <1>1, Types DEF resendDone
<1>3. TypeInv'
  BY <1>0, <1>1, <1>2 DEF TypeInv, TypeOK
<1>4. ConnInv'
  BY <1>0, <1>1, <1>2 DEF ConnInv
<1>5. NumberInv' /\ NewInv' /\ EndInv'
  BY <1>0, <1>1, <1>2 DEF NumberInv, NewInv, EndInv, Waiting, In
<1>6. /\ Again' = Again /\ Awaiting' = Awaiting /\ Releasing' = Releasing /\ Taken' = Taken
  BY <1>1, <1>2 DEF Again, Awaiting, Releasing, Taken
<1>7. Places' /\ SlotsInv' /\ Holders' = Holders
      /\ Due' = Due /\ Waiting' = Waiting /\ Written' = Written
  BY <1>0, <1>1, <1>6, Stays
<1>8. LockInv'
  BY <1>0, <1>1, <1>7 DEF LockInv
<1>9. \A y \in Subs : Alive(y)' <=> Alive(y)
  BY <1>1 DEF Alive, Failed
<1>10. OpenInv'
  BY <1>0, <1>1, <1>6, <1>7, <1>9, Types DEF OpenInv
<1>11. ValueInv'
  <2>1. AskInv'
    BY <1>0, <1>1, <1>6 DEF ValueInv, AskInv, Open, Failed
  <2> QED
    BY <1>0, <1>1, <1>2, <1>6, <1>7, <1>9, <2>1, Types DEF ValueInv
<1> QED
  BY <1>3, <1>4, <1>5, <1>7, <1>8, <1>10, <1>11, Whole

\* Close, the end of the context, or a fail.
LEMMA endBeginsKeeps ==
  ASSUME SubsInv, NEW x \in Subs, endBegins(x)
  PROVE  SubsInv'
<1>1. /\ ~sub[x].closed /\ closeWith(x) /\ (opening[x].pc = "done" \/ sub[x].failing)
      /\ UNCHANGED <<conn, last, linkUp, closed, table, subSendMu, opening, rd, sup,
                     ver, srvSubs, kept, owed, computed, missed>>
  BY DEF endBegins, srvVars
<1>2. opening[x].pc # "new"
  BY <1>1, Parts DEF NewInv
<1>3. ver \in [Subs -> 0..MaxVersion] /\ owed \in [Subs -> Nat] /\ computed \in [Subs -> 0..NoAnswer]
      /\ kept \in SUBSET srvSubs
  BY Parts DEF TypeInv, TypeOK
<1>4. \A y \in Subs : ver[y] >= ver[y]
  BY <1>3
<1> QED
  BY <1>1, <1>2, <1>3, <1>4, Closes

\* The reader's fail, after it has released the slot.
LEMMA errorEndsKeeps ==
  ASSUME SubsInv, errorEnds
  PROVE  SubsInv'
<1>1. rd.pc = "fail" /\ rd.x \in Subs
  BY Parts DEF errorEnds, TypeInv
<1>2. UNCHANGED <<conn, last, linkUp, closed, table, subSendMu, opening, sup,
                  ver, srvSubs, kept, owed, computed, missed>>
  BY DEF errorEnds, srvVars
<1>3. CASE sub[rd.x].closed
  BY <1>1, <1>2, <1>3, ReaderReturns DEF errorEnds, table
<1>4. CASE ~sub[rd.x].closed
  <2>1. rd' = [pc |-> "ending", x |-> rd.x, aw |-> NoConn] /\ closeWith(rd.x)
    BY <1>4 DEF errorEnds
  <2>2. opening[rd.x].pc # "new" /\ sup.pc # "lose"
    BY <1>1, Parts DEF NewInv, ConnInv
  <2>3. ver \in [Subs -> 0..MaxVersion] /\ owed \in [Subs -> Nat] /\ computed \in [Subs -> 0..NoAnswer]
        /\ kept \in SUBSET srvSubs
    BY Parts DEF TypeInv, TypeOK
  <2>4. \A y \in Subs : ver[y] >= ver[y]
    BY <2>3
  <2> DEFINE z == rd.x
  <2>5. /\ z \in Subs /\ closeWith(z) /\ ~sub[z].closed /\ opening[z].pc # "new"
        /\ rd' = [pc |-> "ending", x |-> z, aw |-> NoConn] /\ rd.x = z
    BY <1>1, <1>4, <2>1, <2>2
  <2> HIDE DEF z
  <2> QED
    BY <1>1, <1>2, <2>2, <2>3, <2>4, <2>5, Closes
<1> QED
  BY <1>3, <1>4

\* A patch that does not apply.
LEMMA patchFailsKeeps ==
  ASSUME SubsInv, NEW x \in Subs, patchFails(x)
  PROVE  SubsInv'
<1>1. /\ rd.pc = "read" /\ linkUp /\ x \in srvSubs /\ x \in subs /\ ~sub[x].closed
      /\ ver[x] < MaxVersion /\ ver' = [ver EXCEPT ![x] = ver[x] + 1] /\ closeWith(x)
      /\ rd' = [pc |-> "ending", x |-> x, aw |-> NoConn]
      /\ UNCHANGED <<conn, last, linkUp, closed, table, subSendMu, opening, sup,
                     srvSubs, kept, owed, computed, missed>>
  BY DEF patchFails, Meets, Registered
<1>2. opening[x].pc # "new" /\ sup.pc # "lose"
  BY <1>1, Parts DEF NewInv, ConnInv
<1>3. ver \in [Subs -> 0..MaxVersion] /\ owed \in [Subs -> Nat] /\ computed \in [Subs -> 0..NoAnswer]
      /\ kept \in SUBSET srvSubs
  BY Parts DEF TypeInv, TypeOK
<1>4. ver' \in [Subs -> 0..MaxVersion] /\ \A y \in Subs : ver'[y] >= ver[y]
  BY <1>1, <1>3, SubsAssumption
<1> QED
  BY <1>1, <1>2, <1>3, <1>4, Closes

-----------------------------------------------------------------------------
(* Connections come and go.                                                *)

\* The connection breaks: what the server knew is gone.
LEMMA BreakKeeps ==
  ASSUME SubsInv, Break
  PROVE  SubsInv'
<1>0. /\ TypeInv /\ ConnInv /\ NumberInv /\ LockInv /\ NewInv /\ EndInv
      /\ Places /\ SlotsInv /\ OpenInv /\ ValueInv
  BY Parts
<1>1. /\ last < MaxConns /\ linkUp' = FALSE /\ srvSubs' = {} /\ kept' = {} /\ owed' = [x \in Subs |-> 0]
      /\ computed' = [x \in Subs |-> NoAnswer] /\ missed' = [x \in Subs |-> {}]
      /\ UNCHANGED <<conn, last, closed, subs, subInFlight, subQueue, subSendMu, sub, opening,
                     ending, rd, sup, ver>>
  BY DEF Break, table
<1>2. TypeInv'
  <2>1. /\ owed' \in [Subs -> Nat] /\ computed' \in [Subs -> 0..NoAnswer]
        /\ missed' \in [Subs -> SUBSET (1..MaxVersion)] /\ srvSubs' \in SUBSET Subs
    BY <1>1, SubsAssumption DEF NoAnswer
  <2> QED
    BY <1>0, <1>1, <2>1 DEF TypeInv, TypeOK
<1>3. ConnInv'
  BY <1>0, <1>1 DEF ConnInv
<1>4. NumberInv' /\ NewInv' /\ EndInv'
  BY <1>0, <1>1 DEF NumberInv, NewInv, EndInv, Waiting, In
<1>5. /\ Again' = Again /\ Awaiting' = Awaiting /\ Releasing' = Releasing /\ Taken' = Taken
  BY <1>1 DEF Again, Awaiting, Releasing, Taken
<1>6. Places' /\ SlotsInv' /\ Holders' = Holders
  BY <1>0, <1>1, <1>5, Stays
<1>7. LockInv'
  BY <1>0, <1>1, <1>6 DEF LockInv
<1>8. OpenInv'
  BY <1>0, <1>1 DEF OpenInv
<1>9. ValueInv'
  BY <1>0, <1>1, Types DEF ValueInv, AskInv
<1> QED
  BY <1>2, <1>3, <1>4, <1>6, <1>7, <1>8, <1>9, Whole

\* Without a connection there are no places, and a queue only if it was left.
LEMMA NoPlaces ==
  ASSUME SlotsInv, conn' = NoConn,
         subQueue' = <<>> \/ UNCHANGED <<subQueue, subInFlight>>
  PROVE  Places' /\ SlotsInv'
BY DEF Places, SlotsInv, QueuedOnlyWhenFull

\* The supervisor takes the connection away, or finds it gone for good.
LEMMA markDisconnectedKeeps ==
  ASSUME SubsInv, markDisconnected
  PROVE  SubsInv'
<1>0. /\ TypeInv /\ ConnInv /\ NumberInv /\ LockInv /\ NewInv /\ EndInv
      /\ Places /\ SlotsInv /\ OpenInv /\ ValueInv
  BY Parts
<1>1. /\ sup.pc = "up" /\ ~linkUp /\ rd.pc = "read" /\ subSendMu.by # "reader"
      /\ UNCHANGED <<last, linkUp, closed, subs, subSendMu, sub, opening, ending, rd,
                     ver, srvSubs, kept, owed, computed, missed>>
  BY DEF markDisconnected, srvVars
<1>2. /\ conn' = NoConn
      /\ sup' \in [pc : {"up", "lose", "resend", "down"}, todo : SUBSET Subs]
      /\ \/ /\ conn = NoConn /\ sup'.pc = "down" /\ sup'.todo = sup.todo
            /\ subInFlight' = subInFlight /\ subQueue' = subQueue
         \/ /\ conn # NoConn /\ sup'.pc = "lose" /\ sup'.todo = subs
            /\ subInFlight' = 0 /\ subQueue' = <<>>
  <2>1. CASE conn = NoConn
    BY <1>0, <2>1, Types DEF markDisconnected
  <2>2. CASE conn # NoConn
    BY <1>0, <2>2, Types DEF markDisconnected
  <2> QED
    BY <2>1, <2>2
<1>3. Places' /\ SlotsInv'
  BY <1>0, <1>2, NoPlaces
<1>4. TypeInv'
  <2>1. subInFlight' \in 0..maxSubscribesInFlight /\ subQueue' \in Seq(Subs) /\ conn' \in Conns0
    <3>1. subInFlight \in 0..maxSubscribesInFlight /\ 0 \in 0..maxSubscribesInFlight
          /\ subQueue \in Seq(Subs) /\ <<>> \in Seq(Subs) /\ NoConn \in Conns0
      BY <1>0, Types DEF NoConn
    <3> QED
      BY <1>2, <3>1
  <2> QED
    BY <1>0, <1>1, <1>2, <2>1 DEF TypeInv, TypeOK
<1>5. ConnInv'
  <2>1. conn = NoConn => closed
    BY <1>0, <1>1, Types DEF ConnInv, NoConn
  <2>2. Distinct(<<>>)
    BY DEF Distinct
  <2> QED
    BY <1>0, <1>1, <1>2, <2>1, <2>2 DEF ConnInv
<1>6. NumberInv' /\ EndInv'
  BY <1>0, <1>1 DEF NumberInv, EndInv
<1>7. Waiting' \subseteq Waiting
  BY <1>2 DEF Waiting, In
<1>8. NewInv'
  BY <1>0, <1>1, <1>2, <1>7 DEF NewInv, In
<1>9. LockInv'
  BY <1>0, <1>1, <1>2 DEF LockInv
<1>10. OpenInv'
  BY <1>0, <1>1, <1>2 DEF OpenInv
<1>11. ValueInv'
  BY <1>0, <1>1, <1>2, Types DEF ValueInv, AskInv
<1> QED
  BY <1>3, <1>4, <1>5, <1>6, <1>8, <1>9, <1>10, <1>11, Whole

\* A subscription forgets the connection.
LEMMA connLostKeeps ==
  ASSUME SubsInv, NEW x \in Subs, connLost(x)
  PROVE  SubsInv'
<1>0. /\ TypeInv /\ ConnInv /\ NumberInv /\ LockInv /\ NewInv /\ EndInv
      /\ Places /\ SlotsInv /\ OpenInv /\ ValueInv
  BY Parts
<1>1. /\ sup.pc = "lose" /\ x \in sup.todo
      /\ sub' = [sub EXCEPT ![x] = [sub[x] EXCEPT !.current = NoValue, !.awaiting = NoConn,
                                                  !.resend = FALSE]]
      /\ UNCHANGED <<conn, last, linkUp, closed, subs, subInFlight, subQueue, subSendMu,
                     opening, ending, rd, ver, srvSubs, kept, owed, computed, missed>>
  BY <1>0, Types DEF connLost, srvVars, table
<1>2. /\ sup' \in [pc : {"up", "lose", "resend", "down"}, todo : SUBSET Subs]
      /\ sup'.pc = "lose" /\ sup'.todo = sup.todo \ {x}
  BY <1>0, <1>1, Types DEF connLost
<1>3. /\ sub' \in [Subs -> SubRec] /\ \A y \in Subs : y # x => sub'[y] = sub[y]
      /\ sub'[x].current = NoValue /\ sub'[x].awaiting = NoConn /\ ~sub'[x].resend
      /\ sub'[x].closed = sub[x].closed /\ sub'[x].failing = sub[x].failing
  <2> DEFINE s == [sub[x] EXCEPT !.current = NoValue, !.awaiting = NoConn, !.resend = FALSE]
  <2>1. sub[x] \in SubRec /\ NoConn \in Conns0
        /\ NoValue \in [conn : Conns0, has : SUBSET (1..MaxVersion)]
    BY <1>0, Types DEF NoValue, NoConn
  <2>2. /\ s \in SubRec /\ s.current = NoValue /\ s.awaiting = NoConn /\ ~s.resend
        /\ s.closed = sub[x].closed /\ s.failing = sub[x].failing
    BY <2>1 DEF SubRec
  <2> HIDE DEF s
  <2>3. sub' = [sub EXCEPT ![x] = s]
    BY <1>1 DEF s
  <2> QED
    BY <1>0, <2>2, <2>3, Types
<1>4. conn = NoConn /\ conn' = NoConn
  BY <1>0, <1>1 DEF ConnInv
<1>5. Places' /\ SlotsInv'
  BY <1>0, <1>1, <1>4, NoPlaces
<1>6. TypeInv'
  BY <1>0, <1>1, <1>2, <1>3 DEF TypeInv, TypeOK, SubRec
<1>7. ConnInv'
  BY <1>0, <1>1, <1>2 DEF ConnInv
<1>8. NumberInv'
  BY <1>0, <1>1, <1>3, Types DEF NumberInv, NoConn
<1>9. NewInv'
  BY <1>0, <1>1, <1>2, <1>3 DEF NewInv, Waiting, In
<1>10. EndInv'
  BY <1>0, <1>1, <1>3 DEF EndInv
<1>11. LockInv'
  BY <1>0, <1>1, <1>4 DEF LockInv
<1>12. OpenInv'
  BY <1>0, <1>1, <1>4 DEF OpenInv
<1>13. ValueInv'
  <2>1. \A y \in subs : sub'[y].current # NoValue =>
          sub'[y].current.conn = last /\ y \in sup'.todo
    BY <1>0, <1>1, <1>2, <1>3, Types DEF ValueInv
  <2> QED
    BY <1>0, <1>1, <1>2, <1>4, <2>1 DEF ValueInv, AskInv
<1> QED
  BY <1>5, <1>6, <1>7, <1>8, <1>9, <1>10, <1>11, <1>12, <1>13, Whole

\* A new connection: nothing is on it, and every open subscription is due.
LEMMA markConnectedKeeps ==
  ASSUME SubsInv, markConnected
  PROVE  SubsInv'
<1>0. /\ TypeInv /\ ConnInv /\ NumberInv /\ LockInv /\ NewInv /\ EndInv
      /\ Places /\ SlotsInv /\ OpenInv /\ ValueInv
  BY Parts
<1>1. /\ sup.pc = "lose" /\ sup.todo = {} /\ ~closed
      /\ conn' = last + 1 /\ last' = last + 1 /\ linkUp' = TRUE
      /\ subInFlight' = 0 /\ subQueue' = <<>>
      /\ sup' = [pc |-> "resend", todo |-> subs]
      /\ UNCHANGED <<closed, subs, subSendMu, sub, opening, ending, rd,
                     ver, srvSubs, kept, owed, computed, missed>>
  BY DEF markConnected, srvVars
<1>2. /\ conn = NoConn /\ ~linkUp /\ last < MaxConns /\ rd.pc = "read" /\ srvSubs = {}
      /\ subSendMu.by # "reader"
      /\ \A x \in Subs : owed[x] = 0 /\ computed[x] = NoAnswer /\ missed[x] = {}
  BY <1>0, <1>1 DEF ConnInv
<1>3. /\ last \in Nat /\ last + 1 \in Conns0 /\ last + 1 # NoConn /\ 0 \in 0..maxSubscribesInFlight
      /\ sup' \in [pc : {"up", "lose", "resend", "down"}, todo : SUBSET Subs]
      /\ subs \subseteq Subs /\ <<>> \in Seq(Subs)
  BY <1>0, <1>1, <1>2, Types DEF Conns0, NoConn
<1>4. TypeInv'
  BY <1>0, <1>1, <1>3 DEF TypeInv, TypeOK
<1>5. ConnInv'
  BY <1>0, <1>1, <1>2, <1>3 DEF ConnInv, NoConn
<1>6. /\ subSendMu.conn \in Nat /\ rd.aw \in Nat
      /\ \A x \in Subs : sub[x].awaiting \in Nat /\ opening[x].conn \in Nat /\ ending[x].aw \in Nat
  <2>1. Conns0 \subseteq Nat
    BY SubsAssumption DEF Conns0
  <2>2. subSendMu.conn \in Conns0 /\ rd.aw \in Conns0
    BY <1>0, Types DEF LockRec, ReaderRec
  <2>3. \A x \in Subs : sub[x] \in SubRec /\ opening[x] \in OpenRec /\ ending[x] \in EndRec
    BY <1>0, Types
  <2>4. \A x \in Subs : sub[x].awaiting \in Conns0 /\ opening[x].conn \in Conns0
                         /\ ending[x].aw \in Conns0
    BY <2>3 DEF SubRec, OpenRec, EndRec
  <2> QED
    BY <2>1, <2>2, <2>4
<1>7. NumberInv'
  BY <1>0, <1>1, <1>3, <1>6 DEF NumberInv
<1>8. /\ subSendMu.conn # last + 1 /\ rd.aw # last + 1
      /\ \A x \in Subs : sub[x].awaiting # last + 1 /\ opening[x].conn # last + 1
                         /\ ending[x].aw # last + 1
  BY <1>0, <1>3, <1>6 DEF NumberInv
<1>9. /\ Due' = {} /\ Waiting' = {} /\ Written' = {} /\ Awaiting' = {} /\ Taken' = {}
      /\ Releasing' = {} /\ Holders' = {} /\ Again' = subs
  <2>1. Due' = {} /\ Awaiting' = {} /\ Releasing' = {}
    BY <1>1, <1>8 DEF Due, Awaiting, Releasing
  <2>2. Waiting' = {}
    BY <1>1 DEF Waiting, In
  <2>3. Written' = {} /\ Taken' = {} /\ Again' = subs
    BY <1>1, <1>8 DEF Written, Taken, Again
  <2> QED
    BY <2>1, <2>2, <2>3 DEF Holders
<1>10. Places'
  <2>1. Distinct(subQueue)'
    BY <1>1 DEF Distinct
  <2>2. Apart'
    BY <1>9 DEF Apart
  <2>3. Waiting' \subseteq subs' /\ Written' \subseteq subs' /\ subSendMu'.conn # conn'
    BY <1>1, <1>8, <1>9
  <2> QED
    BY <2>1, <2>2, <2>3 DEF Places
<1>11. SlotsInv'
  <2>1. IsFiniteSet({}) /\ Cardinality({}) = 0
    BY FS_EmptySet
  <2> QED
    BY <1>1, <1>9, <2>1 DEF SlotsInv, QueuedOnlyWhenFull
<1>12. LockInv'
  <2>1. conn' # NoConn => \A x \in Subs : x \in srvSubs' \/ owed'[x] > 0 =>
                            sub'[x].awaiting \in {NoConn, conn'}
    BY <1>1, <1>2
  <2> QED
    BY <1>0, <1>1, <1>2, <1>3, <1>9, <2>1 DEF LockInv
<1>13. NewInv'
  BY <1>0, <1>1, <1>2, <1>9 DEF NewInv
<1>14. EndInv'
  BY <1>0, <1>1 DEF EndInv
<1>15. \A x \in subs : sub[x].current = NoValue
  BY <1>0, <1>1 DEF ValueInv, AskInv
<1>16. OpenInv'
  <2>1. \A x \in subs' : /\ x \in Again' /\ x \notin Awaiting' /\ ~(owed'[x] > 0)
                         /\ missed'[x] = {} /\ sub'[x].current = NoValue
    BY <1>1, <1>2, <1>3, <1>9, <1>15
  <2>2. \A x \in Subs : computed'[x] # NoAnswer => owed'[x] > 0
    BY <1>1, <1>2
  <2> QED
    BY <2>1, <2>2 DEF OpenInv
<1>17. ValueInv'
  BY <1>0, <1>1, <1>2, <1>15 DEF ValueInv, AskInv
<1> QED
  BY <1>4, <1>5, <1>7, <1>10, <1>11, <1>12, <1>13, <1>14, <1>16, <1>17, Whole

\* The client is shut down.
LEMMA shutdownKeeps ==
  ASSUME SubsInv, shutdown
  PROVE  SubsInv'
<1>0. /\ TypeInv /\ ConnInv /\ NumberInv /\ LockInv /\ NewInv /\ EndInv
      /\ Places /\ SlotsInv /\ OpenInv /\ ValueInv
  BY Parts
<1>1. /\ closed' = TRUE /\ conn' = NoConn /\ linkUp' = FALSE /\ subs' = {}
      /\ srvSubs' = {} /\ kept' = {} /\ owed' = [x \in Subs |-> 0] /\ computed' = [x \in Subs |-> NoAnswer]
      /\ missed' = [x \in Subs |-> {}]
      /\ sub' = [x \in Subs |-> IF x \in subs THEN [sub[x] EXCEPT !.failing = TRUE] ELSE sub[x]]
      /\ UNCHANGED <<last, subInFlight, subQueue, subSendMu, opening, ending, rd, sup, ver>>
  BY DEF shutdown
<1>2. /\ sub' \in [Subs -> SubRec]
      /\ \A x \in Subs : /\ sub'[x].closed = sub[x].closed /\ sub'[x].current = sub[x].current
                         /\ sub'[x].awaiting = sub[x].awaiting /\ sub'[x].resend = sub[x].resend
                         /\ x \notin subs => sub'[x] = sub[x]
  <2> DEFINE s(x) == [sub[x] EXCEPT !.failing = TRUE]
  <2>1. \A x \in Subs : sub[x] \in SubRec
    BY <1>0, Types
  <2>2. ASSUME NEW x \in Subs
        PROVE  /\ s(x) \in SubRec /\ s(x).closed = sub[x].closed /\ s(x).current = sub[x].current
               /\ s(x).awaiting = sub[x].awaiting /\ s(x).resend = sub[x].resend
    BY <2>1 DEF SubRec
  <2> HIDE DEF s
  <2>3. sub' = [x \in Subs |-> IF x \in subs THEN s(x) ELSE sub[x]]
    BY <1>1 DEF s
  <2> QED
    BY <2>1, <2>2, <2>3
<1>3. Places' /\ SlotsInv'
  BY <1>0, <1>1, NoPlaces
<1>4. TypeInv'
  <2>1. /\ owed' \in [Subs -> Nat] /\ computed' \in [Subs -> 0..NoAnswer]
        /\ missed' \in [Subs -> SUBSET (1..MaxVersion)] /\ srvSubs' \in SUBSET Subs
    BY <1>1, SubsAssumption DEF NoAnswer
  <2>2. conn' \in Conns0 /\ subs' \in SUBSET Subs /\ linkUp' \in BOOLEAN /\ closed' \in BOOLEAN
    BY <1>0, <1>1, Types DEF NoConn
  <2> QED
    BY <1>0, <1>1, <1>2, <2>1, <2>2 DEF TypeInv, TypeOK, SubRec
<1>5. ConnInv'
  <2>1. Distinct(subQueue)
    BY <1>0 DEF Places, ConnInv
  <2> QED
    BY <1>0, <1>1, <2>1 DEF ConnInv
<1>6. NumberInv'
  BY <1>0, <1>1, <1>2 DEF NumberInv
<1>7. NewInv'
  BY <1>0, <1>1, <1>2 DEF NewInv, Waiting, In
<1>8. EndInv'
  BY <1>0, <1>1, <1>2 DEF EndInv
<1>9. LockInv'
  BY <1>0, <1>1 DEF LockInv
<1>10. OpenInv'
  BY <1>0, <1>1 DEF OpenInv
<1>11. ValueInv'
  BY <1>0, <1>1 DEF ValueInv, AskInv
<1> QED
  BY <1>3, <1>4, <1>5, <1>6, <1>7, <1>8, <1>9, <1>10, <1>11, Whole

-----------------------------------------------------------------------------
(* Subscribe frames.                                                       *)

\* Subscribe(x), field by field.
LEMMA SubscribeKeeps ==
  ASSUME SubsInv, NEW x \in Subs, Subscribe(x)
  PROVE  SubsInv'
<1>0. /\ TypeInv /\ ConnInv /\ NumberInv /\ LockInv /\ NewInv /\ EndInv
      /\ Places /\ SlotsInv /\ OpenInv /\ ValueInv
  BY Parts
<1>1. /\ opening[x].pc = "new"
      /\ UNCHANGED <<conn, last, linkUp, closed, subInFlight, subQueue, subSendMu, rd, sup,
                     ver, srvSubs, kept, owed, computed, missed>>
  BY DEF Subscribe, srvVars
<1>2. /\ x \notin subs /\ x \notin srvSubs /\ x \notin sup.todo
      /\ x \notin Waiting /\ x \notin In(subSendMu.todo) /\ ~sub[x].closed /\ ~sub[x].failing
      /\ sub[x].awaiting = NoConn /\ sub[x].current = NoValue /\ ~sub[x].resend
      /\ owed[x] = 0 /\ missed[x] = {} /\ ending[x].pc = "no" /\ (rd.pc = "read" \/ rd.x # x)
  BY <1>0, <1>1 DEF NewInv
<1>3. subs \subseteq Subs /\ sub[x] \in SubRec /\ ending[x] \in EndRec /\ opening[x] \in OpenRec
  BY <1>0, Types
<1>4. CASE closed
  <2>1. conn = NoConn /\ subs = {} /\ ~linkUp
    BY <1>0, <1>4 DEF ConnInv
  <2>2. /\ sub' = [sub EXCEPT ![x] = [sub[x] EXCEPT !.closed = TRUE]]
        /\ opening' = [opening EXCEPT ![x] = [opening[x] EXCEPT !.pc = "done"]]
        /\ ending' = [ending EXCEPT ![x] = [ending[x] EXCEPT !.pc = "done"]]
        /\ subs' = subs
    BY <1>0, <1>4, Types DEF Subscribe
  <2> DEFINE s == [sub[x] EXCEPT !.closed = TRUE]
             o == [opening[x] EXCEPT !.pc = "done"]
             e == [ending[x] EXCEPT !.pc = "done"]
  <2>3. s \in SubRec /\ s.closed /\ s.awaiting = sub[x].awaiting
    BY <1>3 DEF SubRec
  <2>4. o \in OpenRec /\ o.pc = "done" /\ o.conn = opening[x].conn
    BY <1>3 DEF OpenRec
  <2>5. e \in EndRec /\ e.pc = "done" /\ e.aw = ending[x].aw
    BY <1>3 DEF EndRec
  <2> HIDE DEF s, o, e
  <2>6. /\ sub' \in [Subs -> SubRec] /\ opening' \in [Subs -> OpenRec] /\ ending' \in [Subs -> EndRec]
        /\ sub'[x] = s /\ opening'[x] = o /\ ending'[x] = e
        /\ \A y \in Subs : y # x =>
             sub'[y] = sub[y] /\ opening'[y] = opening[y] /\ ending'[y] = ending[y]
    <3>1. /\ sub' = [sub EXCEPT ![x] = s] /\ opening' = [opening EXCEPT ![x] = o]
          /\ ending' = [ending EXCEPT ![x] = e]
      BY <2>2 DEF s, o, e
    <3> QED
      BY <1>0, <2>3, <2>4, <2>5, <3>1, Types
  <2>7. Places' /\ SlotsInv'
    BY <1>0, <1>1, <2>1, NoPlaces
  <2>8. TypeInv'
    BY <1>0, <1>1, <2>2, <2>6 DEF TypeInv, TypeOK, SubRec, OpenRec, EndRec
  <2>9. ConnInv'
    BY <1>0, <1>1, <2>2 DEF ConnInv
  <2>10. NumberInv'
    BY <1>0, <1>1, <2>3, <2>4, <2>5, <2>6 DEF NumberInv
  <2>11. NewInv'
    BY <1>0, <1>1, <2>2, <2>4, <2>6 DEF NewInv, Waiting, In
  <2>12. EndInv'
    BY <1>0, <1>1, <1>2, <2>2, <2>3, <2>5, <2>6 DEF EndInv
  <2>13. LockInv'
    BY <1>0, <1>1, <2>1, <2>5, <2>6 DEF LockInv
  <2>14. OpenInv'
    BY <1>0, <1>1, <2>1 DEF OpenInv
  <2>15. ValueInv'
    BY <1>0, <1>1, <2>1, <2>2 DEF ValueInv, AskInv
  <2> QED
    BY <2>7, <2>8, <2>9, <2>10, <2>11, <2>12, <2>13, <2>14, <2>15, Whole
<1>5. CASE ~closed
  <2> DEFINE o == [pc |-> IF conn = NoConn THEN "done" ELSE "send", conn |-> conn]
  <2>1. /\ subs' = subs \cup {x} /\ opening' = [opening EXCEPT ![x] = o]
        /\ UNCHANGED <<sub, ending>>
    BY <1>5 DEF Subscribe
  <2>2. o \in OpenRec /\ o.pc # "new" /\ o.conn = conn /\ (o.pc = "send" => conn # NoConn)
    BY <1>0, Types DEF OpenRec
  <2> HIDE DEF o
  <2>3. /\ opening' \in [Subs -> OpenRec] /\ opening'[x] = o
        /\ \A y \in Subs : y # x => opening'[y] = opening[y]
    BY <1>0, <2>1, <2>2, Types
  <2>4. TypeInv'
    BY <1>0, <1>1, <1>3, <2>1, <2>3 DEF TypeInv, TypeOK, OpenRec
  <2>5. ConnInv'
    BY <1>0, <1>1, <1>5 DEF ConnInv
  <2>6. NumberInv'
    <3>1. conn <= last
      BY <1>0, Types DEF ConnInv, NoConn
    <3> QED
      BY <1>0, <1>1, <2>1, <2>2, <2>3, <3>1 DEF NumberInv
  <2>7. NewInv'
    BY <1>0, <1>1, <2>1, <2>2, <2>3 DEF NewInv, Waiting, In
  <2>8. EndInv'
    BY <1>0, <1>1, <1>2, <2>1 DEF EndInv
  <2>9. /\ Again' = Again /\ Awaiting' = Awaiting /\ Releasing' = Releasing /\ Taken' = Taken
        /\ Waiting' = Waiting /\ Written' = Written
    BY <1>1, <2>1 DEF Again, Awaiting, Releasing, Taken, Waiting, Written, In
  <2>10. Holders' = Holders
    BY <2>9 DEF Holders
  <2>11. LockInv'
    BY <1>0, <1>1, <2>1, <2>10 DEF LockInv
  <2>12. SlotsInv'
    BY <1>0, <1>1, <2>10 DEF SlotsInv, QueuedOnlyWhenFull
  <2>13. conn # NoConn => /\ x \notin Again /\ x \notin Waiting /\ x \notin Holders
                          /\ Due' = Due \cup {x}
    <3> SUFFICES ASSUME conn # NoConn
                 PROVE  /\ x \notin Again /\ x \notin Waiting /\ x \notin Holders
                        /\ Due' = Due \cup {x}
      OBVIOUS
    <3>1. x \notin Again /\ x \notin Awaiting /\ x \notin Releasing /\ x \notin Taken /\ x \notin Written
      BY <1>2 DEF Again, Awaiting, Releasing, Taken, Written
    <3>2. o.pc = "send"
      BY DEF o
    <3>3. Due' = Due \cup {x}
      BY <1>1, <2>2, <2>3, <3>2 DEF Due
    <3> QED
      BY <1>2, <3>1, <3>3 DEF Holders
  <2>14. Places'
    <3>1. CASE conn = NoConn
      BY <1>1, <3>1 DEF Places
    <3>2. CASE conn # NoConn
      <4>1. Apart /\ Waiting \subseteq subs /\ Written \subseteq subs /\ Distinct(subQueue)
            /\ (subSendMu.conn = conn => Distinct(subSendMu.todo))
        BY <1>0, <3>2 DEF Places
      <4>2. Apart'
        BY <2>9, <2>10, <2>13, <3>2, <4>1 DEF Apart
      <4>3. Waiting' \subseteq subs' /\ Written' \subseteq subs'
        BY <2>1, <2>9, <4>1
      <4>4. Distinct(subQueue)' /\ (subSendMu'.conn = conn' => Distinct(subSendMu'.todo))
        BY <1>1, <4>1 DEF Distinct
      <4> QED
        BY <4>2, <4>3, <4>4 DEF Places
    <3> QED
      BY <3>1, <3>2
  <2>15. \A y \in Subs : y # x => (Alive(y)' <=> Alive(y))
    BY <1>1, <2>1 DEF Alive, Failed
  <2>16. OpenInv'
    <3> SUFFICES ASSUME conn # NoConn, linkUp, NEW y \in subs \cup {x}, Alive(y)'
                 PROVE  /\ y \in srvSubs \cup Due' \cup Again \cup Waiting \cup Written
                        /\ y \in Awaiting => owed[y] > 0
                        /\ owed[y] > 0 => y \in srvSubs
                        /\ y \notin srvSubs => missed[y] = {} /\ sub[y].current = NoValue
      BY <1>0, <1>1, <2>1, <2>9 DEF OpenInv
    <3>1. CASE y # x
      BY <1>0, <1>3, <2>13, <2>15, <3>1 DEF OpenInv
    <3>2. CASE y = x
      <4>1. missed[x] = {}
        BY <1>0, <1>1, <1>2 DEF NewInv
      <4>2. x \notin Awaiting
        BY <2>13 DEF Holders
      <4> QED
        BY <1>2, <2>13, <3>2, <4>1, <4>2
    <3> QED
      BY <3>1, <3>2
  <2>17. ValueInv'
    <3>1. \A y \in subs' \cap Patching \cap srvSubs : Alive(y)' => y \in subs /\ Alive(y)
      BY <1>2, <1>3, <2>1, <2>15
    <3>2. \A y \in subs' : sub[y].current # NoValue => y \in subs
      BY <1>2, <2>1
    <3>3. AskInv'
      <4>1. \A y \in Subs : Open(y)' <=> Open(y)
        BY <1>1, <2>1 DEF Open, Failed
      <4>2. AskInv
        BY <1>0 DEF ValueInv
      <4> QED
        BY <1>1, <1>2, <1>3, <2>1, <2>9, <4>1, <4>2 DEF AskInv
    <3> QED
      BY <1>0, <1>1, <2>1, <2>9, <3>1, <3>2, <3>3 DEF ValueInv
  <2> QED
    BY <2>4, <2>5, <2>6, <2>7, <2>8, <2>11, <2>12, <2>14, <2>16, <2>17, Whole
<1> QED
  BY <1>4, <1>5

\* Subscribe or the supervisor sends x, which is due: it goes to the end of the
\* queue or takes a slot, and nothing happens if it was closed meanwhile or the
\* connection is gone.
LEMMA SendMoves ==
  ASSUME SubsInv, NEW x \in Subs, NEW who \in {"app", "sup"}, NEW c \in Conns0,
         c # NoConn, c <= last, sendSubscribe(who, c, x),
         opening[x].pc # "new",
         UNCHANGED <<conn, last, linkUp, closed, subs, sub, ending, rd,
                     ver, srvSubs, kept, owed, computed, missed>>,
         opening' \in [Subs -> OpenRec],
         \A y \in Subs : /\ opening'[y].conn = opening[y].conn
                         /\ opening'[y].pc = "new" => opening[y].pc = "new"
                         /\ opening'[y].pc = "send" => opening[y].pc = "send",
         sup' \in [pc : {"up", "lose", "resend", "down"}, todo : SUBSET Subs],
         sup'.pc = sup.pc, sup'.todo \subseteq sup.todo,
         sup.pc = "lose" => sup'.todo = sup.todo,
         Due' \subseteq Due, Again' \subseteq Again,
         Due \subseteq Due' \cup {x}, Again \subseteq Again' \cup {x},
         conn # NoConn /\ conn # c => Due' = Due /\ Again' = Again,
         conn = c => x \in Due \cup Again /\ x \notin Due' \cup Again'
  PROVE  SubsInv'
<1>0. /\ TypeInv /\ ConnInv /\ NumberInv /\ LockInv /\ NewInv /\ EndInv
      /\ Places /\ SlotsInv /\ OpenInv /\ ValueInv
  BY Parts
<1>1. /\ subSendMu = Free
      /\ \/ /\ x \notin subs \/ conn # c
            /\ UNCHANGED <<subInFlight, subQueue, subSendMu>>
         \/ /\ x \in subs /\ conn = c /\ subInFlight = maxSubscribesInFlight
            /\ subQueue' = Append(subQueue, x)
            /\ UNCHANGED <<subInFlight, subSendMu>>
         \/ /\ x \in subs /\ conn = c /\ subInFlight < maxSubscribesInFlight
            /\ subInFlight' = subInFlight + 1 /\ subQueue' = subQueue
            /\ subSendMu' \in LockRec /\ subSendMu'.by = who /\ subSendMu'.conn = c
            /\ subSendMu'.todo = <<x>>
  BY <1>0, Sends
<1>2. /\ subQueue \in Seq(Subs) /\ subSendMu \in LockRec /\ subs \subseteq Subs
      /\ subInFlight \in Nat /\ maxSubscribesInFlight \in Nat
      /\ subInFlight <= maxSubscribesInFlight
  BY <1>0, Types
<1>3. Awaiting' = Awaiting /\ Taken' = Taken /\ Releasing' = Releasing
  BY DEF Awaiting, Taken, Releasing
<1>4. EndInv' /\ \A y \in Subs : Alive(y)' <=> Alive(y)
  BY <1>0 DEF EndInv, Alive, Failed
<1>5. Written = {}
  BY <1>1, <1>2 DEF Written, Free, In
<1>6. conn # NoConn => /\ Apart /\ Distinct(subQueue) /\ Waiting \subseteq subs
                       /\ IsFiniteSet(Holders) /\ subInFlight = Cardinality(Holders)
                       /\ QueuedOnlyWhenFull
  BY <1>0 DEF Places, SlotsInv
<1> DEFINE Facts == /\ subInFlight' \in 0..maxSubscribesInFlight /\ subQueue' \in Seq(Subs)
                    /\ subSendMu' \in LockRec
                    /\ subSendMu'.todo = <<>> <=> subSendMu' = Free
                    /\ subSendMu' # Free => /\ subSendMu'.conn = c /\ conn = c /\ c # NoConn
                                            /\ subSendMu'.by # "reader"
                    /\ subSendMu'.conn <= last
                    /\ conn = NoConn => subQueue' = subQueue
                    /\ conn # NoConn =>
                         \A y \in subs : y \in Due \cup Again \cup Waiting \cup Written =>
                                         y \in Due' \cup Again' \cup Waiting' \cup Written'
                    /\ Waiting' \subseteq Waiting \cup {x}
                    /\ In(subSendMu'.todo) \subseteq {x}
                    /\ Places' /\ SlotsInv'
<1>7. Facts
  <2>1. CASE /\ x \notin subs \/ conn # c
             /\ UNCHANGED <<subInFlight, subQueue, subSendMu>>
    <3>1. Waiting' = Waiting /\ Written' = Written /\ In(subSendMu'.todo) = {}
      BY <1>1, <2>1 DEF Waiting, Written, In, Free
    <3>2. Holders' = Holders
      BY <1>3, <3>1 DEF Holders
    <3>3. Places'
      <4>1. conn # NoConn => Apart'
        BY <1>3, <1>6, <3>1, <3>2 DEF Apart
      <4> QED
        BY <1>0, <2>1, <3>1, <4>1 DEF Places, Distinct
    <3>4. SlotsInv'
      BY <1>0, <2>1, <3>2 DEF SlotsInv, QueuedOnlyWhenFull
    <3>5. conn # NoConn => \A y \in subs : y \in Due \cup Again \cup Waiting \cup Written =>
                             y \in Due' \cup Again' \cup Waiting' \cup Written'
      BY <2>1, <3>1
    <3>6. subSendMu'.conn <= last
      BY <1>0, <2>1 DEF NumberInv
    <3>7. subSendMu'.todo = <<>> <=> subSendMu' = Free
      BY <1>0, <2>1 DEF LockInv
    <3> QED
      BY <1>1, <1>2, <2>1, <3>1, <3>3, <3>4, <3>5, <3>6, <3>7
  <2>2. CASE /\ x \in subs /\ conn = c /\ subInFlight = maxSubscribesInFlight
             /\ subQueue' = Append(subQueue, x)
             /\ UNCHANGED <<subInFlight, subSendMu>>
    <3>1. x \notin Waiting /\ x \notin Holders /\ x \notin Due' /\ x \notin Again'
      BY <1>6, <2>2 DEF Apart
    <3>2. subQueue' \in Seq(Subs) /\ Distinct(subQueue') /\ In(subQueue') = In(subQueue) \cup {x}
      BY <1>2, <1>6, <2>2, <3>1, DistinctAppend DEF Waiting
    <3>3. Waiting' = Waiting \cup {x} /\ Written' = Written /\ In(subSendMu'.todo) = {}
      BY <1>1, <2>2, <3>2 DEF Waiting, Written, Free, In
    <3>4. Holders' = Holders
      BY <1>3, <3>3 DEF Holders
    <3>5. Apart'
      BY <1>3, <1>6, <2>2, <3>1, <3>3, <3>4 DEF Apart
    <3>6. Places'
      BY <1>0, <1>5, <1>6, <2>2, <3>2, <3>3, <3>5 DEF Places, Distinct
    <3>7. SlotsInv'
      BY <1>0, <2>2, <3>4 DEF SlotsInv, QueuedOnlyWhenFull
    <3>8. subSendMu'.conn <= last /\ (subSendMu'.todo = <<>> <=> subSendMu' = Free)
      BY <1>0, <2>2 DEF LockInv, NumberInv
    <3>9. \A y \in subs : y \in Due \cup Again \cup Waiting \cup Written =>
                             y \in Due' \cup Again' \cup Waiting' \cup Written'
      BY <3>3
    <3> QED
      BY <1>1, <1>2, <2>2, <3>2, <3>3, <3>6, <3>7, <3>8, <3>9
  <2>3. CASE /\ x \in subs /\ conn = c /\ subInFlight < maxSubscribesInFlight
             /\ subInFlight' = subInFlight + 1 /\ subQueue' = subQueue
             /\ subSendMu' \in LockRec /\ subSendMu'.by = who /\ subSendMu'.conn = c
             /\ subSendMu'.todo = <<x>>
    <3>1. x \notin Waiting /\ x \notin Holders /\ x \notin Due' /\ x \notin Again'
      BY <1>6, <2>3 DEF Apart
    <3>2. In(subSendMu'.todo) = {x} /\ Distinct(subSendMu'.todo) /\ subSendMu'.todo # <<>>
      BY <2>3 DEF In, Distinct
    <3>3. Waiting' = Waiting /\ Written' = {x}
      BY <2>3, <3>2 DEF Waiting, Written, In
    <3>4. Holders' = Holders \cup {x}
      BY <1>3, <1>5, <3>3 DEF Holders
    <3>5. Apart'
      <4>1. x \notin Awaiting \cup Taken \cup Releasing
        BY <3>1 DEF Holders
      <4> QED
        BY <1>3, <1>6, <2>3, <3>1, <3>3, <3>4, <4>1 DEF Apart
    <3>6. Places'
      BY <1>6, <2>3, <3>2, <3>3, <3>5 DEF Places, Distinct, Waiting
    <3>7. SlotsInv'
      <4>1. IsFiniteSet(Holders \cup {x}) /\ Cardinality(Holders \cup {x}) = Cardinality(Holders) + 1
        BY <1>6, <2>3, <3>1, FS_AddElement
      <4>2. subQueue' = <<>>
        BY <1>2, <1>6, <2>3 DEF QueuedOnlyWhenFull
      <4> QED
        BY <1>6, <2>3, <3>4, <4>1, <4>2 DEF SlotsInv, QueuedOnlyWhenFull
    <3>8. \A y \in subs : y \in Due \cup Again \cup Waiting \cup Written =>
                             y \in Due' \cup Again' \cup Waiting' \cup Written'
      BY <1>5, <3>3
    <3>9. subSendMu'.by # "reader" /\ subSendMu' # Free /\ subInFlight' \in 0..maxSubscribesInFlight
      BY <1>2, <2>3, <3>2 DEF Free
    <3> QED
      BY <1>2, <2>3, <3>2, <3>3, <3>6, <3>7, <3>8, <3>9
  <2> QED
    BY <1>1, <2>1, <2>2, <2>3
<1> HIDE DEF Facts
<1>8. TypeInv'
  BY <1>0, <1>7 DEF Facts, TypeInv, TypeOK, LockRec, OpenRec
<1>9. ConnInv'
  <2>1. sup.pc = "lose" => subSendMu'.by # "reader"
    BY <1>0, <1>7 DEF Facts, ConnInv, Free
  <2> QED
    BY <1>0, <1>7, <2>1 DEF Facts, ConnInv
<1>10. NumberInv'
  BY <1>0, <1>7 DEF Facts, NumberInv
<1>11. LockInv'
  <2>1. subSendMu' # Free => subSendMu'.conn = conn /\ subSendMu'.conn # NoConn
    BY <1>7 DEF Facts
  <2>2. subSendMu'.todo = <<>> <=> subSendMu' = Free
    BY <1>7 DEF Facts
  <2> QED
    BY <1>0, <2>1, <2>2 DEF LockInv
<1>12. NewInv'
  <2>1. Waiting' \subseteq Waiting \cup {x} /\ In(subSendMu'.todo) \subseteq {x}
    BY <1>7 DEF Facts
  <2> QED
    BY <1>0, <2>1 DEF NewInv
<1>13. OpenInv'
  <2>1. conn # NoConn => \A y \in subs : y \in Due \cup Again \cup Waiting \cup Written =>
                             y \in Due' \cup Again' \cup Waiting' \cup Written'
    BY <1>7 DEF Facts
  <2> QED
    BY <1>0, <1>2, <1>3, <1>4, <2>1 DEF OpenInv
<1>14. ValueInv'
  <2>1. AskInv'
    BY <1>0, <1>3 DEF ValueInv, AskInv, Open, Failed
  <2> QED
    BY <1>0, <1>2, <1>3, <1>4, <1>5, <2>1 DEF ValueInv
<1> QED
  BY <1>4, <1>7, <1>8, <1>9, <1>10, <1>11, <1>12, <1>13, <1>14, Whole DEF Facts

\* Subscribe sends what it has registered.
LEMMA SubscribeSendsKeeps ==
  ASSUME SubsInv, NEW x \in Subs, SubscribeSends(x)
  PROVE  SubsInv'
<1>0. TypeInv /\ NumberInv /\ Places
  BY Parts
<1> DEFINE c == opening[x].conn
           o == [opening[x] EXCEPT !.pc = "done"]
<1>1. /\ opening[x].pc = "send" /\ sendSubscribe("app", c, x)
      /\ opening' = [opening EXCEPT ![x] = o]
      /\ UNCHANGED <<conn, last, linkUp, closed, subs, sub, ending, rd, sup,
                     ver, srvSubs, kept, owed, computed, missed>>
  BY <1>0, Types DEF SubscribeSends, srvVars
<1>2. opening[x] \in OpenRec /\ opening \in [Subs -> OpenRec]
  BY <1>0, Types
<1>3. c \in Conns0 /\ c # NoConn /\ c <= last
  BY <1>0, <1>1, <1>2 DEF NumberInv, OpenRec
<1>4. o \in OpenRec /\ o.pc = "done" /\ o.conn = c
  BY <1>2 DEF OpenRec
<1> HIDE DEF o
<1>5. /\ opening' \in [Subs -> OpenRec] /\ opening'[x] = o
      /\ \A y \in Subs : y # x => opening'[y] = opening[y]
  BY <1>1, <1>2, <1>4
<1>6. \A y \in Subs : /\ opening'[y].conn = opening[y].conn
                      /\ opening'[y].pc = "new" => opening[y].pc = "new"
                      /\ opening'[y].pc = "send" => opening[y].pc = "send"
  BY <1>4, <1>5
<1>7. Due' = Due \ {x} /\ Again' = Again
  BY <1>1, <1>4, <1>5 DEF Due, Again
<1>8. x \in Due <=> conn = c
  BY <1>1 DEF Due
<1>9. conn = c => x \notin Again
  BY <1>0, <1>3, <1>8 DEF Places, Apart
<1>10. /\ sup' \in [pc : {"up", "lose", "resend", "down"}, todo : SUBSET Subs]
       /\ sup' = sup
  BY <1>0, <1>1, Types
<1> HIDE DEF c
<1>11. /\ conn # NoConn /\ conn # c => Due' = Due /\ Again' = Again
       /\ conn = c => x \in Due \cup Again /\ x \notin Due' \cup Again'
  BY <1>3, <1>7, <1>8, <1>9
<1> QED
  BY <1>1, <1>3, <1>5, <1>6, <1>7, <1>10, <1>11, SendMoves

\* The supervisor sends an open subscription on the new connection.
LEMMA resendKeeps ==
  ASSUME SubsInv, NEW x \in Subs, resend(x)
  PROVE  SubsInv'
<1>0. TypeInv /\ ConnInv /\ NewInv /\ Places
  BY Parts
<1>1. /\ sup.pc = "resend" /\ x \in sup.todo /\ sendSubscribe("sup", last, x)
      /\ sup' = [sup EXCEPT !.todo = sup.todo \ {x}]
      /\ UNCHANGED <<conn, last, linkUp, closed, subs, sub, opening, ending, rd,
                     ver, srvSubs, kept, owed, computed, missed>>
  BY DEF resend, srvVars
<1>2. /\ sup' \in [pc : {"up", "lose", "resend", "down"}, todo : SUBSET Subs]
      /\ sup'.pc = sup.pc /\ sup'.todo = sup.todo \ {x}
  BY <1>0, <1>1, Types
<1>3. last \in Conns0 /\ last # NoConn /\ last <= last /\ (conn # NoConn => conn = last)
  BY <1>0, Types DEF ConnInv
<1>4. opening[x].pc # "new" /\ opening' = opening /\ opening \in [Subs -> OpenRec]
  BY <1>0, <1>1, Types DEF NewInv
<1>5. Due' = Due /\ Again' = Again \ {x} /\ x \in Again
  BY <1>1, <1>2 DEF Due, Again
<1>6. conn = last => x \notin Due
  BY <1>0, <1>3, <1>5 DEF Places, Apart
<1> QED
  BY <1>1, <1>2, <1>3, <1>4, <1>5, <1>6, SendMoves

\* The holder of subSendMu writes a frame: what it had to write now awaits its
\* answer, on the same slot.
LEMMA writeSubscribeKeeps ==
  ASSUME SubsInv, writeSubscribe
  PROVE  SubsInv'
<1>0. /\ TypeInv /\ ConnInv /\ NumberInv /\ LockInv /\ NewInv /\ EndInv
      /\ Places /\ SlotsInv /\ OpenInv /\ ValueInv
  BY Parts
<1> DEFINE x == Head(subSendMu.todo)
           rest == Tail(subSendMu.todo)
           c == subSendMu.conn
           delivered == linkUp /\ conn = c
<1>1. /\ subSendMu.todo # <<>>
      /\ subSendMu' = IF rest = <<>> THEN Free ELSE [subSendMu EXCEPT !.todo = rest]
      /\ \/ /\ sub' = [sub EXCEPT ![x] = [sub[x] EXCEPT !.awaiting = c]]
            /\ srvSubs' = IF delivered THEN srvSubs \cup {x} ELSE srvSubs
            /\ owed' = IF delivered THEN [owed EXCEPT ![x] = owed[x] + 1] ELSE owed
         \/ /\ sub' = [sub EXCEPT ![x] = [sub[x] EXCEPT !.awaiting = c, !.failing = TRUE]]
            /\ UNCHANGED <<srvSubs, owed>>
      /\ UNCHANGED <<conn, last, linkUp, closed, subs, subInFlight, subQueue, opening, ending,
                     rd, sup, ver, kept, computed, missed>>
  <2>1. sub \in [Subs -> SubRec]
    BY <1>0, Types
  <2> QED
    BY <2>1 DEF writeSubscribe, table
<1>2. /\ subSendMu \in LockRec /\ subSendMu.todo \in Seq(Subs) /\ c \in Conns0 /\ c # NoConn
      /\ subSendMu # Free /\ c <= last
  BY <1>0, <1>1, Types DEF LockRec, LockInv, NumberInv
<1>3. x \in Subs /\ x \in In(subSendMu.todo) /\ rest \in Seq(Subs)
      /\ In(rest) \subseteq In(subSendMu.todo)
  <2> DEFINE q == subSendMu.todo
  <2>1. /\ rest \in Seq(Subs) /\ Len(q) \in Nat /\ Len(q) >= 1 /\ Len(rest) = Len(q) - 1
        /\ x = q[1] /\ \A i \in 1..Len(rest) : rest[i] = q[i + 1]
    BY <1>1, <1>2, HeadTailProperties
  <2> HIDE DEF q, rest, x
  <2>2. 1 \in 1..Len(q) /\ \A i \in 1..Len(rest) : i + 1 \in 1..Len(q)
    BY <2>1
  <2>3. x \in In(q) /\ In(rest) \subseteq In(q)
    BY <2>1, <2>2 DEF In
  <2>4. In(q) \subseteq Subs
    BY <1>2 DEF In, q
  <2> QED
    BY <2>1, <2>3, <2>4 DEF q
<1>4. conn = c => /\ In(rest) = Written \ {x} /\ Distinct(rest) /\ x \in Written
  BY <1>0, <1>1, <1>2, DistinctTail DEF Places, Written
<1>5. /\ subSendMu' \in LockRec /\ subSendMu'.todo = rest
      /\ subSendMu'.todo = <<>> <=> subSendMu' = Free
      /\ subSendMu' # Free => subSendMu'.conn = c /\ subSendMu'.by = subSendMu.by
      /\ subSendMu'.by = subSendMu.by \/ subSendMu'.by = "nobody"
      /\ subSendMu'.conn \in {c, NoConn}
  <2> HIDE DEF rest
  <2>1. Free \in LockRec /\ Free.todo = <<>> /\ Free.by = "nobody" /\ Free.conn = NoConn
    BY <1>0, Types DEF Free, LockRec, NoConn
  <2>2. CASE rest = <<>>
    BY <1>1, <2>1, <2>2
  <2>3. CASE rest # <<>>
    <3>1. subSendMu' = [subSendMu EXCEPT !.todo = rest]
      BY <1>1, <2>3
    <3>2. /\ subSendMu' \in LockRec /\ subSendMu'.todo = rest
          /\ subSendMu'.by = subSendMu.by /\ subSendMu'.conn = subSendMu.conn
      BY <1>2, <1>3, <3>1 DEF LockRec
    <3> QED
      BY <2>1, <2>3, <3>2
  <2> QED
    BY <2>2, <2>3
<1>6. sub[x] \in SubRec /\ sub \in [Subs -> SubRec] /\ owed \in [Subs -> Nat] /\ subs \subseteq Subs
  BY <1>0, <1>3, Types DEF TypeInv, TypeOK
<1> HIDE DEF x, rest, c
<1>7. /\ sub' \in [Subs -> SubRec] /\ sub'[x].awaiting = c
      /\ sub'[x].closed = sub[x].closed /\ sub'[x].current = sub[x].current
      /\ sub'[x].resend = sub[x].resend
      /\ \A y \in Subs : y # x => sub'[y] = sub[y]
      /\ ~sub'[x].failing => ~sub[x].failing
      /\ ~sub'[x].failing => /\ delivered => srvSubs' = srvSubs \cup {x} /\ owed'[x] = owed[x] + 1
  <2> DEFINE s == [sub[x] EXCEPT !.awaiting = c]
             t == [sub[x] EXCEPT !.awaiting = c, !.failing = TRUE]
  <2>1. /\ s \in SubRec /\ s.awaiting = c /\ s.closed = sub[x].closed /\ s.current = sub[x].current
        /\ s.resend = sub[x].resend /\ s.failing = sub[x].failing
    BY <1>2, <1>6 DEF SubRec
  <2>2. /\ t \in SubRec /\ t.awaiting = c /\ t.closed = sub[x].closed /\ t.current = sub[x].current
        /\ t.resend = sub[x].resend /\ t.failing
    BY <1>2, <1>6 DEF SubRec
  <2> HIDE DEF s, t
  <2>3. CASE /\ sub' = [sub EXCEPT ![x] = s]
             /\ srvSubs' = IF delivered THEN srvSubs \cup {x} ELSE srvSubs
             /\ owed' = IF delivered THEN [owed EXCEPT ![x] = owed[x] + 1] ELSE owed
    BY <1>3, <1>6, <2>1, <2>3
  <2>4. CASE sub' = [sub EXCEPT ![x] = t]
    BY <1>3, <1>6, <2>2, <2>4
  <2> QED
    BY <1>1, <2>3, <2>4 DEF s, t
<1>8. /\ owed' \in [Subs -> Nat] /\ srvSubs \subseteq srvSubs' /\ srvSubs' \subseteq srvSubs \cup {x}
      /\ \A y \in Subs : y # x => owed'[y] = owed[y]
      /\ owed'[x] >= owed[x]
      /\ ~delivered => owed' = owed /\ srvSubs' = srvSubs
  <2>1. /\ \/ owed' = owed
           \/ owed' = [owed EXCEPT ![x] = owed[x] + 1] /\ delivered
        /\ srvSubs' = srvSubs \/ (srvSubs' = srvSubs \cup {x} /\ delivered)
    BY <1>1
  <2> HIDE DEF delivered
  <2>2. /\ owed' \in [Subs -> Nat] /\ owed'[x] >= owed[x]
        /\ \A y \in Subs : y # x => owed'[y] = owed[y]
    BY <1>3, <1>6, <2>1
  <2> QED
    BY <2>1, <2>2
<1>9. Waiting' = Waiting /\ Due' = Due /\ Again' = Again /\ Taken' = Taken /\ Releasing' = Releasing
  BY <1>1 DEF Waiting, In, Due, Again, Taken, Releasing
<1>10. conn = c => /\ Written' = Written \ {x} /\ Awaiting' = Awaiting \cup {x}
                   /\ Holders' = Holders /\ x \in Written
  <2> SUFFICES ASSUME conn = c
               PROVE  /\ Written' = Written \ {x} /\ Awaiting' = Awaiting \cup {x}
                      /\ Holders' = Holders /\ x \in Written
    OBVIOUS
  <2>1. Written' = Written \ {x}
    <3>1. In(subSendMu'.todo) = Written \ {x}
      BY <1>4, <1>5
    <3>2. CASE subSendMu' = Free
      <4>1. In(subSendMu'.todo) = {}
        BY <3>2 DEF In, Free
      <4> QED
        BY <3>1, <4>1 DEF Written
    <3>3. CASE subSendMu' # Free
      BY <1>1, <1>5, <3>1, <3>3 DEF Written
    <3> QED
      BY <3>2, <3>3
  <2>2. Awaiting' = Awaiting \cup {x}
    BY <1>1, <1>3, <1>7 DEF Awaiting
  <2> QED
    BY <1>4, <1>9, <2>1, <2>2 DEF Holders
<1>11. conn # NoConn /\ conn # c =>
         /\ srvSubs = {} /\ subQueue = <<>> /\ Holders = {} /\ Holders' = {}
         /\ rd.pc = "read" /\ (\A y \in Subs : owed[y] = 0)
         /\ Written' = {} /\ Written = {} /\ Awaiting' = Awaiting
  <2> SUFFICES ASSUME conn # NoConn, conn # c
               PROVE  /\ srvSubs = {} /\ subQueue = <<>> /\ Holders = {} /\ Holders' = {}
                      /\ rd.pc = "read" /\ (\A y \in Subs : owed[y] = 0)
                      /\ Written' = {} /\ Written = {} /\ Awaiting' = Awaiting
    OBVIOUS
  <2>1. /\ srvSubs = {} /\ subQueue = <<>> /\ Holders = {}
        /\ rd.pc = "read" /\ \A y \in Subs : owed[y] = 0
    BY <1>0, <1>2 DEF LockInv, c
  <2>2. Written' = {}
    BY <1>1, <1>5 DEF Written
  <2>3. Awaiting' = Awaiting
    <3>1. x \notin Awaiting
      BY <2>1 DEF Holders
    <3> QED
      BY <1>1, <1>3, <1>7, <3>1 DEF Awaiting
  <2> QED
    BY <1>9, <2>1, <2>2, <2>3 DEF Holders
<1>12. Places'
  <2>1. CASE conn = NoConn
    BY <1>1, <2>1 DEF Places
  <2>2. CASE conn # NoConn /\ conn = c
    <3>1. /\ Apart /\ Distinct(subQueue) /\ Waiting \subseteq subs /\ Written \subseteq subs
      BY <1>0, <2>2 DEF Places
    <3>2. Apart'
      BY <1>9, <1>10, <2>2, <3>1 DEF Apart, Holders
    <3>3. Distinct(subSendMu'.todo) /\ Distinct(subQueue')
      BY <1>1, <1>4, <1>5, <2>2, <3>1 DEF Distinct
    <3> QED
      BY <1>1, <1>9, <1>10, <2>2, <3>1, <3>2, <3>3 DEF Places
  <2>3. CASE conn # NoConn /\ conn # c
    <3>1. /\ Apart /\ Distinct(subQueue) /\ Waiting \subseteq subs
      BY <1>0, <2>3 DEF Places
    <3>2. Apart'
      BY <1>9, <1>11, <2>3, <3>1 DEF Apart, Holders
    <3>3. subSendMu'.conn # conn
      BY <1>5, <2>3
    <3> QED
      BY <1>1, <1>9, <1>11, <2>3, <3>1, <3>2, <3>3 DEF Places, Distinct
  <2> QED
    BY <2>1, <2>2, <2>3
<1>13. SlotsInv'
  BY <1>0, <1>1, <1>10, <1>11 DEF SlotsInv, QueuedOnlyWhenFull
<1>14. TypeInv'
  <2>1. srvSubs' \subseteq Subs
    BY <1>0, <1>3, <1>8, Types
  <2> QED
    BY <1>0, <1>1, <1>5, <1>7, <1>8, <2>1 DEF TypeInv, TypeOK, LockRec, SubRec
<1>15. ConnInv'
  <2>1. sup.pc = "lose" => subSendMu'.by # "reader"
    BY <1>0, <1>5 DEF ConnInv
  <2>2. ~linkUp => srvSubs' = srvSubs /\ owed' = owed
    BY <1>8
  <2> QED
    BY <1>0, <1>1, <2>1, <2>2 DEF ConnInv
<1>16. NumberInv'
  <2>1. subSendMu'.conn <= last
    BY <1>0, <1>2, <1>5, Types DEF NoConn
  <2> QED
    BY <1>0, <1>1, <1>2, <1>7, <2>1 DEF NumberInv
<1>17. LockInv'
  <2>1. conn # NoConn => \A y \in Subs : y \in srvSubs' \/ owed'[y] > 0 =>
                          sub'[y].awaiting \in {NoConn, conn}
    <3>1. CASE conn = c
      BY <1>0, <1>7, <1>8, <3>1 DEF LockInv
    <3>2. CASE conn # c
      BY <1>8, <1>11, <3>2
    <3> QED
      BY <3>1, <3>2
  <2>2. conn # NoConn /\ subSendMu' # Free /\ subSendMu'.conn # conn =>
       /\ srvSubs' = {} /\ subQueue = <<>> /\ Holders' = {}
       /\ rd.pc = "read" /\ \A y \in Subs : owed'[y] = 0
    BY <1>5, <1>8, <1>11
  <2>3. subSendMu' # Free => subSendMu'.conn # NoConn
    BY <1>2, <1>5
  <2> QED
    BY <1>0, <1>1, <1>5, <2>1, <2>2, <2>3 DEF LockInv
<1>18. NewInv'
  <2>1. opening[x].pc # "new"
    BY <1>0, <1>3 DEF NewInv
  <2>2. In(subSendMu'.todo) \subseteq In(subSendMu.todo)
    BY <1>3, <1>5
  <2> QED
    BY <1>0, <1>1, <1>7, <1>8, <1>9, <2>1, <2>2 DEF NewInv
<1>19. EndInv'
  <2>1. delivered => x \in subs
    <3>1. delivered => x \in Written /\ conn # NoConn
      BY <1>2, <1>10
    <3> QED
      BY <1>0, <3>1 DEF Places
  <2> QED
    BY <1>0, <1>1, <1>7, <1>8, <2>1 DEF EndInv
<1>20. \A y \in Subs : Alive(y)' => Alive(y)
  BY <1>1, <1>7 DEF Alive, Failed
<1>21. conn = c /\ conn # NoConn /\ linkUp /\ Alive(x) =>
         /\ x \notin Awaiting /\ owed[x] \in Nat
         /\ x \notin srvSubs => owed[x] = 0 /\ missed[x] = {} /\ sub[x].current = NoValue
  <2>1. conn = c /\ conn # NoConn => x \notin Awaiting /\ x \in subs
    BY <1>0, <1>10 DEF Places, Apart
  <2>2. owed[x] \in Nat
    BY <1>3, <1>6
  <2> QED
    BY <1>0, <2>1, <2>2 DEF OpenInv
<1>22. OpenInv'
  <2>1. \A y \in Subs : computed'[y] # NoAnswer => owed'[y] > 0
    <3>1. \A y \in Subs : owed[y] \in Nat /\ owed'[y] \in Nat
      BY <1>6, <1>8
    <3> QED
      BY <1>0, <1>1, <1>8, <3>1 DEF OpenInv
  <2> SUFFICES ASSUME conn # NoConn, linkUp, NEW y \in subs, Alive(y)'
               PROVE  /\ y \in srvSubs' \cup Due' \cup Again' \cup Waiting' \cup Written'
                      /\ y \in Awaiting' => owed'[y] > 0
                      /\ owed'[y] > 0 => y \in srvSubs'
                      /\ y \notin srvSubs' => missed'[y] = {} /\ sub'[y].current = NoValue
    BY <1>1, <2>1 DEF OpenInv
  <2>2. /\ Alive(y) /\ y \in Subs
    BY <1>6, <1>20
  <2>3. /\ y \in srvSubs \cup Due \cup Again \cup Waiting \cup Written
        /\ y \in Awaiting => owed[y] > 0
        /\ owed[y] > 0 => y \in srvSubs
        /\ y \notin srvSubs => missed[y] = {} /\ sub[y].current = NoValue
    BY <1>0, <2>2 DEF OpenInv
  <2>4. CASE conn = c /\ y = x
    <3>1. delivered /\ ~sub'[x].failing
      BY <2>4 DEF Alive
    <3>2. srvSubs' = srvSubs \cup {x} /\ owed'[x] > 0
      BY <1>7, <1>21, <2>2, <2>4, <3>1
    <3> QED
      BY <1>10, <2>4, <3>2
  <2>5. CASE conn = c /\ y # x
    BY <1>1, <1>7, <1>8, <1>9, <1>10, <2>2, <2>3, <2>5
  <2>6. CASE conn # c
    <3>1. sub'[y].current = sub[y].current /\ owed' = owed /\ srvSubs' = srvSubs
      BY <1>7, <1>8, <2>2, <2>6
    <3> QED
      BY <1>1, <1>9, <1>11, <2>3, <2>6, <3>1
  <2> QED
    BY <2>4, <2>5, <2>6
<1>23. ValueInv'
  <2>0. \A y \in Subs : sub'[y].current = sub[y].current /\ sub'[y].resend = sub[y].resend
                         /\ sub'[y].closed = sub[y].closed
    BY <1>7
  <2>1. AskInv'
    <3> SUFFICES ASSUME conn # NoConn, linkUp, NEW y \in subs \cap Patching \cap srvSubs',
                        Open(y)', sub'[y].current = NoValue
                 PROVE  y \in Awaiting'
      BY <1>1 DEF AskInv
    <3>1. CASE conn # c
      BY <1>8, <1>11, <3>1
    <3>2. CASE conn = c /\ y # x
      <4>1. Open(y)
        BY <1>1, <1>6, <2>0 DEF Open, Failed
      <4> QED
        BY <1>0, <1>6, <1>8, <1>10, <2>0, <3>2, <4>1 DEF ValueInv, AskInv
    <3>3. CASE conn = c /\ y = x
      BY <1>10, <3>3
    <3> QED
      BY <3>1, <3>2, <3>3
  <2>2. ASSUME conn # NoConn, linkUp, NEW y \in subs \cap Patching \cap srvSubs', Alive(y)'
        PROVE  /\ sub'[y].current = NoValue => owed'[y] > 0 /\ (missed'[y] # {} => sub'[y].resend)
               /\ sub'[y].current # NoValue =>
                    /\ \/ missed'[y] \subseteq sub'[y].current.has
                       \/ sub'[y].resend /\ y \in Taken'
                       \/ y \in Awaiting' \/ y \in Written'
                    /\ computed'[y] # NoAnswer => missed'[y] \subseteq 1..computed'[y]
                    /\ sub'[y].resend => y \in Taken'
    <3>1. Alive(y) /\ y \in Subs
      BY <1>6, <1>20, <2>2
    <3>2. CASE conn # c
      BY <1>8, <1>11, <2>2, <3>2
    <3>3. CASE conn = c /\ y # x
      <4>1. y \in srvSubs /\ sub'[y] = sub[y] /\ owed'[y] = owed[y]
        BY <1>7, <1>8, <3>1, <3>3
      <4> QED
        BY <1>0, <1>1, <1>9, <1>10, <2>2, <3>1, <3>3, <4>1 DEF ValueInv
    <3>4. CASE conn = c /\ y = x
      <4>1. delivered /\ ~sub'[x].failing
        BY <2>2, <3>4 DEF Alive
      <4>2. owed'[x] > 0 /\ x \in Awaiting'
        BY <1>7, <1>10, <1>21, <2>2, <3>1, <3>4, <4>1
      <4>3. computed[x] # NoAnswer => x \in srvSubs /\ missed[x] \subseteq 1..computed[x]
        BY <1>0, <1>3, <1>21, <2>2, <3>1, <3>4 DEF OpenInv, ValueInv, AskInv, Alive, Open
      <4>4. sub[x].current = NoValue => missed[x] = {}
        BY <1>0, <1>21, <2>2, <3>1, <3>4 DEF ValueInv, AskInv, Alive, Open
      <4>5. sub[x].current # NoValue /\ sub[x].resend => x \in Taken
        BY <1>0, <1>21, <2>2, <3>1, <3>4 DEF ValueInv
      <4> QED
        BY <1>1, <1>9, <2>0, <3>1, <3>4, <4>2, <4>3, <4>4, <4>5
    <3> QED
      BY <3>2, <3>3, <3>4
  <2>3. \A y \in subs : sub'[y].current # NoValue =>
          sub'[y].current.conn = last /\ (sup.pc = "lose" => y \in sup.todo)
    BY <1>0, <1>6, <2>0 DEF ValueInv
  <2>4. \A y \in Subs : missed'[y] \subseteq 1..ver'[y]
    BY <1>0, <1>1 DEF ValueInv
  <2> QED
    BY <1>1, <2>1, <2>2, <2>3, <2>4 DEF ValueInv
<1> QED
  BY <1>12, <1>13, <1>14, <1>15, <1>16, <1>17, <1>18, <1>19, <1>22, <1>23, Whole

-----------------------------------------------------------------------------
(* The end of a subscription.                                              *)

\* Out of the table and the queue, and unsubscribe.  Nobody is writing.
LEMMA endUnsubscribesKeeps ==
  ASSUME SubsInv, NEW x \in Subs, endUnsubscribes(x)
  PROVE  SubsInv'
<1>0. /\ TypeInv /\ ConnInv /\ NumberInv /\ LockInv /\ NewInv /\ EndInv
      /\ Places /\ SlotsInv /\ OpenInv /\ ValueInv
  BY Parts
<1> DEFINE e == [ending[x] EXCEPT !.pc = "take"]
<1>1. /\ ending[x].pc = "lock" /\ subSendMu = Free
      /\ subs' = subs \ {x} /\ subQueue' = RemoveFirst(subQueue, x)
      /\ srvSubs' = IF conn # NoConn /\ linkUp THEN srvSubs \ {x} ELSE srvSubs
      /\ kept' = IF conn # NoConn /\ linkUp THEN kept \ {x} ELSE kept
      /\ ending' = [ending EXCEPT ![x] = e]
      /\ UNCHANGED <<conn, last, linkUp, closed, subInFlight, subSendMu, sub, opening,
                     rd, sup, ver, owed, computed, missed>>
  BY <1>0, Types DEF endUnsubscribes
<1>2. ending[x] \in EndRec /\ ending \in [Subs -> EndRec] /\ subs \subseteq Subs /\ srvSubs \subseteq Subs
      /\ subQueue \in Seq(Subs)
  BY <1>0, Types
<1>3. e \in EndRec /\ e.pc = "take" /\ e.aw = ending[x].aw
  BY <1>2 DEF EndRec
<1> HIDE DEF e
<1>4. /\ ending' \in [Subs -> EndRec] /\ ending'[x] = e
      /\ \A y \in Subs : y # x => ending'[y] = ending[y]
  BY <1>1, <1>2, <1>3
<1>5. /\ srvSubs' \subseteq srvSubs /\ srvSubs \subseteq srvSubs' \cup {x} /\ x \notin srvSubs'
  <2>1. ~(conn # NoConn /\ linkUp) => srvSubs = {}
    BY <1>0, Types DEF ConnInv
  <2> QED
    BY <1>1, <2>1
<1>6. Distinct(subQueue)
  BY <1>0 DEF Places, ConnInv
<1>7. /\ subQueue' \in Seq(Subs) /\ Distinct(subQueue') /\ In(subQueue') = In(subQueue) \ {x}
      /\ subQueue = <<>> => subQueue' = <<>>
  BY <1>1, <1>2, <1>6, DistinctRemove
<1>8. Waiting' = Waiting \ {x}
  BY <1>7 DEF Waiting
<1>9. /\ Due' = Due /\ Again' = Again /\ Taken' = Taken /\ Awaiting' = Awaiting
      /\ Written' = Written /\ Written = {}
  BY <1>1 DEF Due, Again, Taken, Awaiting, Written, In, Free
<1>10. Releasing' = Releasing
  BY <1>1, <1>3, <1>4 DEF Releasing
<1>11. Holders' = Holders
  BY <1>9, <1>10 DEF Holders
<1>12. Places'
  <2>1. CASE conn = NoConn
    BY <1>1, <2>1 DEF Places
  <2>2. CASE conn # NoConn
    <3>1. Apart /\ Waiting \subseteq subs /\ (subSendMu.conn = conn => Distinct(subSendMu.todo))
      BY <1>0, <2>2 DEF Places
    <3>2. Apart'
      BY <1>8, <1>9, <1>10, <1>11, <3>1 DEF Apart
    <3> QED
      BY <1>1, <1>7, <1>8, <1>9, <3>1, <3>2 DEF Places
  <2> QED
    BY <2>1, <2>2
<1>13. SlotsInv'
  BY <1>0, <1>1, <1>7, <1>11 DEF SlotsInv, QueuedOnlyWhenFull
<1>14. TypeInv'
  <2>1. subs' \in SUBSET Subs /\ srvSubs' \in SUBSET Subs /\ kept' \in SUBSET srvSubs'
    BY <1>0, <1>1, <1>2, <1>5 DEF TypeInv, TypeOK
  <2> QED
    BY <1>0, <1>1, <1>4, <1>7, <2>1, ZenonT(60) DEF TypeInv, TypeOK, EndRec
<1>15. ConnInv'
  BY <1>0, <1>1, <1>5, <1>7 DEF ConnInv
<1>16. NumberInv'
  BY <1>0, <1>1, <1>3, <1>4 DEF NumberInv
<1>17. LockInv'
  <2>1. \A y \in Subs : ending'[y].pc = "release" => ending'[y].aw # NoConn
    BY <1>0, <1>3, <1>4 DEF LockInv
  <2> QED
    BY <1>0, <1>1, <1>5, <2>1 DEF LockInv
<1>18. NewInv'
  <2>1. opening[x].pc # "new"
    BY <1>0, <1>1 DEF NewInv
  <2> QED
    BY <1>0, <1>1, <1>4, <1>5, <1>8, <2>1 DEF NewInv
<1>19. EndInv'
  BY <1>0, <1>1, <1>3, <1>4, <1>5 DEF EndInv
<1>20. \A y \in Subs : Alive(y)' => Alive(y) /\ y # x
  BY <1>1 DEF Alive, Failed
<1>21. OpenInv'
  BY <1>0, <1>1, <1>2, <1>5, <1>8, <1>9, <1>20 DEF OpenInv
<1>22. ValueInv'
  <2>1. AskInv'
    BY <1>0, <1>1, <1>5, <1>9 DEF ValueInv, AskInv, Open, Failed
  <2>2. \A y \in subs' \cap Patching \cap srvSubs' : Alive(y)' =>
          y \in subs \cap Patching \cap srvSubs /\ Alive(y)
    BY <1>1, <1>2, <1>5, <1>20
  <2> QED
    BY <1>0, <1>1, <1>9, <2>1, <2>2 DEF ValueInv
<1> QED
  BY <1>12, <1>13, <1>14, <1>15, <1>16, <1>17, <1>18, <1>19, <1>21, <1>22, Whole

\* The ender takes the slot of an unanswered frame, to release it.
LEMMA endTakesKeeps ==
  ASSUME SubsInv, NEW x \in Subs, endTakes(x)
  PROVE  SubsInv'
<1>0. /\ TypeInv /\ ConnInv /\ NumberInv /\ LockInv /\ NewInv /\ EndInv
      /\ Places /\ SlotsInv /\ OpenInv /\ ValueInv
  BY Parts
<1> DEFINE s == [sub[x] EXCEPT !.awaiting = NoConn]
           e == [pc |-> IF sub[x].awaiting = NoConn THEN "done" ELSE "release", aw |-> sub[x].awaiting]
<1>1. /\ ending[x].pc = "take" /\ sub' = [sub EXCEPT ![x] = s] /\ ending' = [ending EXCEPT ![x] = e]
      /\ UNCHANGED <<conn, last, linkUp, closed, subs, subInFlight, subQueue, subSendMu,
                     opening, rd, sup, ver, srvSubs, kept, owed, computed, missed>>
  BY <1>0, Types DEF endTakes, table, srvVars
<1>2. /\ ending[x] \in EndRec /\ ending \in [Subs -> EndRec] /\ subs \subseteq Subs
      /\ sub[x] \in SubRec /\ sub \in [Subs -> SubRec] /\ NoConn \in Conns0
  BY <1>0, Types DEF NoConn
<1>3. /\ s \in SubRec /\ s.awaiting = NoConn /\ s.closed = sub[x].closed
      /\ s.current = sub[x].current /\ s.resend = sub[x].resend /\ s.failing = sub[x].failing
  BY <1>2 DEF SubRec
<1>4. /\ e \in EndRec /\ e.aw = sub[x].awaiting /\ e.pc \in {"done", "release"}
      /\ e.pc = "release" <=> sub[x].awaiting # NoConn
  BY <1>2 DEF EndRec, SubRec
<1> HIDE DEF s, e
<1>5. /\ ending' \in [Subs -> EndRec] /\ ending'[x] = e /\ sub' \in [Subs -> SubRec] /\ sub'[x] = s
      /\ \A y \in Subs : y # x => ending'[y] = ending[y] /\ sub'[y] = sub[y]
  BY <1>1, <1>2, <1>3, <1>4
<1>6. x \notin subs /\ x \notin srvSubs
  BY <1>0, <1>1 DEF EndInv
<1>7. /\ Due' = Due /\ Again' = Again /\ Waiting' = Waiting /\ Written' = Written /\ Taken' = Taken
  BY <1>1 DEF Due, Again, Waiting, Written, Taken, In
<1>8. conn # NoConn => /\ Awaiting' = Awaiting \ {x}
                       /\ Releasing' = IF x \in Awaiting THEN Releasing \cup {x} ELSE Releasing
                       /\ Holders' = Holders
  <2> SUFFICES ASSUME conn # NoConn
               PROVE  /\ Awaiting' = Awaiting \ {x}
                      /\ Releasing' = IF x \in Awaiting THEN Releasing \cup {x} ELSE Releasing
                      /\ Holders' = Holders
    OBVIOUS
  <2>1. Awaiting' = Awaiting \ {x}
    BY <1>1, <1>3, <1>5 DEF Awaiting
  <2>2. x \notin Releasing /\ (x \in Awaiting <=> sub[x].awaiting = conn)
    BY <1>1 DEF Releasing, Awaiting
  <2>3. \A y \in Subs : y # x => (y \in Releasing' <=> y \in Releasing)
    BY <1>1, <1>5 DEF Releasing
  <2>4. x \in Releasing' <=> x \in Awaiting
    BY <1>1, <1>4, <1>5, <2>2 DEF Releasing
  <2>5. Releasing' \subseteq Subs /\ Releasing \subseteq Subs
    BY DEF Releasing
  <2>6. Releasing' = IF x \in Awaiting THEN Releasing \cup {x} ELSE Releasing
    BY <2>2, <2>3, <2>4, <2>5
  <2> QED
    BY <1>7, <2>1, <2>6 DEF Holders
<1>9. Places'
  <2>1. CASE conn = NoConn
    BY <1>1, <2>1 DEF Places
  <2>2. CASE conn # NoConn
    <3>1. Apart
      BY <1>0, <2>2 DEF Places
    <3>2. Apart'
      BY <1>7, <1>8, <2>2, <3>1 DEF Apart, Holders
    <3> QED
      BY <1>0, <1>1, <1>7, <2>2, <3>2 DEF Places
  <2> QED
    BY <2>1, <2>2
<1>10. SlotsInv'
  BY <1>0, <1>1, <1>8 DEF SlotsInv, QueuedOnlyWhenFull
<1>11. TypeInv'
  BY <1>0, <1>1, <1>5 DEF TypeInv, TypeOK, EndRec, SubRec
<1>12. ConnInv' /\ NewInv'
  BY <1>0, <1>1, <1>5, <1>7 DEF ConnInv, NewInv
<1>13. NumberInv'
  BY <1>0, <1>1, <1>3, <1>4, <1>5, Types DEF NumberInv, NoConn
<1>14. LockInv'
  <2>1. \A y \in Subs : ending'[y].pc = "release" => ending'[y].aw # NoConn
    BY <1>0, <1>4, <1>5 DEF LockInv
  <2>2. conn # NoConn => \A y \in Subs : y \in srvSubs \/ owed[y] > 0 =>
                          sub'[y].awaiting \in {NoConn, conn}
    BY <1>0, <1>3, <1>5 DEF LockInv
  <2> QED
    BY <1>0, <1>1, <1>8, <2>1, <2>2 DEF LockInv
<1>15. EndInv'
  BY <1>0, <1>1, <1>3, <1>4, <1>5, <1>6 DEF EndInv
<1>16. \A y \in subs : y # x /\ sub'[y] = sub[y] /\ (Alive(y)' <=> Alive(y)) /\ (Open(y)' <=> Open(y))
  BY <1>1, <1>2, <1>5, <1>6 DEF Alive, Open, Failed
<1>17. \A y \in subs : conn # NoConn => (y \in Awaiting' <=> y \in Awaiting)
  BY <1>8, <1>16
<1>18. OpenInv'
  BY <1>0, <1>1, <1>7, <1>16, <1>17 DEF OpenInv
<1>19. ValueInv'
  <2>1. AskInv'
    BY <1>0, <1>1, <1>16, <1>17 DEF ValueInv, AskInv
  <2> QED
    BY <1>0, <1>1, <1>7, <1>16, <1>17, <2>1 DEF ValueInv
<1> QED
  BY <1>9, <1>10, <1>11, <1>12, <1>13, <1>14, <1>15, <1>18, <1>19, Whole

-----------------------------------------------------------------------------
(* Releasing a slot.                                                       *)

\* The size of a union of sets that have nothing in common.
LEMMA UnionCard ==
  ASSUME NEW S, IsFiniteSet(S), NEW T, IsFiniteSet(T), S \cap T = {}
  PROVE  /\ IsFiniteSet(S \cup T)
         /\ Cardinality(S \cup T) = Cardinality(S) + Cardinality(T)
         /\ Cardinality(S) \in Nat /\ Cardinality(T) \in Nat
<1>1. /\ IsFiniteSet(S \cup T)
      /\ Cardinality(S \cup T) = Cardinality(S) + Cardinality(T) - Cardinality(S \cap T)
  BY FS_Union
<1>2. Cardinality(S) \in Nat /\ Cardinality(T) \in Nat /\ Cardinality(S \cap T) = 0
  BY FS_CardinalityType, FS_EmptySet
<1> QED
  BY <1>1, <1>2

\* The slot of x is released: those at the front of the queue take what is
\* free.  Nothing happens if the connection is gone.
LEMMA ReleaseMoves ==
  ASSUME SubsInv, NEW x \in Subs, NEW who \in {"ender", "reader"}, NEW c \in Conns0,
         c # NoConn, c <= last, releaseSubSlot(who, c),
         UNCHANGED <<conn, last, linkUp, closed, subs, opening, sup,
                     ver, srvSubs, kept, owed, computed, missed>>,
         sub' \in [Subs -> SubRec],
         \A y \in Subs : /\ sub'[y].closed = sub[y].closed /\ sub'[y].current = sub[y].current
                         /\ sub'[y].awaiting = sub[y].awaiting
                         /\ sub'[y].failing = sub[y].failing
                         /\ sub'[y].resend => sub[y].resend
                         /\ y # x => sub'[y] = sub[y],
         ending' \in [Subs -> EndRec],
         \A y \in Subs : /\ ending'[y].pc = "no" <=> ending[y].pc = "no"
                         /\ ending'[y].pc \in {"take", "release", "done"} =>
                              ending[y].pc \in {"take", "release", "done"}
                         /\ ending'[y].pc = "release" => ending'[y] = ending[y]
                         /\ ending'[y].aw <= last,
         rd' \in ReaderRec,
         rd'.aw <= last,
         rd'.pc # "read" => rd.pc # "read" /\ rd'.x = rd.x,
         rd'.pc \in {"answered", "failed"} => rd' = rd,
         \A y \in Subs : Failed(y)' <=> Failed(y),
         Taken' \subseteq Taken, Taken \subseteq Taken' \cup {x},
         Releasing' \subseteq Releasing, Releasing \subseteq Releasing' \cup {x},
         conn # NoConn /\ conn # c => /\ Taken' = Taken /\ Releasing' = Releasing
                                      /\ sub' = sub,
         conn = c => /\ x \in Taken \cup Releasing /\ x \notin Taken' \cup Releasing'
                     /\ ~Alive(x) \/ ~sub[x].resend
  PROVE  SubsInv'
<1>0. /\ TypeInv /\ ConnInv /\ NumberInv /\ LockInv /\ NewInv /\ EndInv
      /\ Places /\ SlotsInv /\ OpenInv /\ ValueInv
  BY Parts
<1>1. subSendMu = Free
  BY DEF releaseSubSlot
<1>2. /\ subQueue \in Seq(Subs) /\ subSendMu \in LockRec /\ subs \subseteq Subs
      /\ subInFlight \in 0..maxSubscribesInFlight
  BY <1>0, Types
<1>3. Due' = Due /\ Again' = Again /\ Awaiting' = Awaiting
  BY DEF Due, Again, Awaiting
<1>4. \A y \in Subs : (Alive(y)' <=> Alive(y)) /\ (Open(y)' <=> Open(y))
  BY DEF Alive, Open
<1>5. Written = {}
  BY <1>1, <1>2 DEF Written, Free, In
<1>6. conn # NoConn => /\ Apart /\ Distinct(subQueue) /\ Waiting \subseteq subs
                       /\ IsFiniteSet(Holders) /\ subInFlight = Cardinality(Holders)
                       /\ QueuedOnlyWhenFull
  BY <1>0 DEF Places, SlotsInv
<1> DEFINE Facts == /\ subInFlight' \in 0..maxSubscribesInFlight /\ subQueue' \in Seq(Subs)
                    /\ subSendMu' \in LockRec
                    /\ subSendMu'.todo = <<>> <=> subSendMu' = Free
                    /\ subSendMu' # Free => subSendMu'.conn = c /\ conn = c
                    /\ subSendMu'.conn <= last
                    /\ conn = NoConn => subQueue' = subQueue
                    /\ Waiting' \cup In(subSendMu'.todo) \subseteq Waiting
                    /\ conn # NoConn => Waiting \subseteq Waiting' \cup Written'
                    /\ Places' /\ SlotsInv'
<1>7. Facts
  <2>1. CASE conn # c
    <3>1. UNCHANGED <<subInFlight, subQueue, subSendMu>>
      BY <2>1, ReleasesNothing
    <3>2. Waiting' = Waiting /\ Written' = Written /\ In(subSendMu'.todo) = {}
      BY <1>1, <3>1 DEF Waiting, Written, In, Free
    <3>3. conn # NoConn => Holders' = Holders
      BY <1>3, <2>1, <3>2 DEF Holders
    <3>4. Places'
      <4>1. conn # NoConn => Apart'
        BY <1>3, <1>6, <2>1, <3>2, <3>3 DEF Apart
      <4> QED
        BY <1>0, <3>1, <3>2, <4>1 DEF Places
    <3>5. SlotsInv'
      BY <1>0, <3>1, <3>3 DEF SlotsInv, QueuedOnlyWhenFull
    <3>6. subSendMu'.conn <= last /\ (subSendMu'.todo = <<>> <=> subSendMu' = Free)
      BY <1>0, <3>1 DEF NumberInv, LockInv
    <3> QED
      BY <1>1, <1>2, <3>1, <3>2, <3>4, <3>5, <3>6
  <2>2. CASE conn = c
    <3>0. Apart /\ conn # NoConn /\ x \in Holders
      BY <1>6, <2>2 DEF Holders
    <3>1. /\ IsFiniteSet(Holders \ {x}) /\ Cardinality(Holders \ {x}) = subInFlight - 1
          /\ subInFlight - 1 \in Nat
      <4>1. IsFiniteSet(Holders \ {x}) /\ Cardinality(Holders \ {x}) = Cardinality(Holders) - 1
        BY <1>6, <3>0, FS_RemoveElement
      <4>2. Cardinality(Holders \ {x}) \in Nat
        BY <4>1, FS_CardinalityType
      <4> QED
        BY <1>6, <3>0, <4>1, <4>2
    <3>2. /\ subQueue' \in Seq(Subs) /\ Distinct(subQueue')
          /\ subSendMu' \in LockRec /\ Distinct(subSendMu'.todo)
          /\ subSendMu'.todo = <<>> <=> subSendMu' = Free
          /\ subSendMu' # Free => subSendMu'.conn = c /\ subSendMu'.by = who
          /\ In(subQueue') \cup In(subSendMu'.todo) = In(subQueue)
          /\ In(subQueue') \cap In(subSendMu'.todo) = {}
          /\ subInFlight' = subInFlight - 1 + Len(subSendMu'.todo)
          /\ subInFlight' \in 0..maxSubscribesInFlight
          /\ subQueue' # <<>> => subInFlight' = maxSubscribesInFlight
      <4>1. subInFlight > 0
        BY <1>2, <3>1
      <4> QED
        BY <1>0, <2>2, <3>0, <4>1, Releases
    <3> DEFINE N == In(subSendMu'.todo)
    <3>3. Written' = N
      <4>1. CASE subSendMu' = Free
        BY <4>1 DEF Written, In, Free
      <4>2. CASE subSendMu' # Free
        BY <2>2, <3>2, <4>2 DEF Written
      <4> QED
        BY <4>1, <4>2
    <3>4. /\ Waiting' \cup N = Waiting /\ Waiting' \cap N = {} /\ N \subseteq Waiting
      BY <3>2 DEF Waiting
    <3>5. IsFiniteSet(N) /\ Cardinality(N) = Len(subSendMu'.todo)
      <4>1. subSendMu'.todo \in Seq(Subs)
        BY <3>2 DEF LockRec
      <4> QED
        BY <3>2, <4>1, DistinctCard
    <3> HIDE DEF N
    <3>6. Holders' = (Holders \ {x}) \cup N /\ (Holders \ {x}) \cap N = {}
      <4>1. (Awaiting \cup Taken' \cup Releasing') = Holders \ {x}
        <5>1. Holders = Awaiting \cup Taken \cup Releasing
          BY <1>5 DEF Holders
        <5>2. x \notin Awaiting
          BY <2>2, <3>0 DEF Apart
        <5> QED
          BY <2>2, <5>1, <5>2
      <4> QED
        BY <1>3, <3>0, <3>3, <3>4, <4>1 DEF Holders, Apart
    <3>7. SlotsInv'
      <4>1. /\ IsFiniteSet(Holders')
            /\ Cardinality(Holders') = Cardinality(Holders \ {x}) + Cardinality(N)
        <5> DEFINE H == Holders \ {x}
        <5>1. IsFiniteSet(H) /\ H \cap N = {} /\ Holders' = H \cup N
          BY <3>1, <3>6
        <5> HIDE DEF H
        <5>2. IsFiniteSet(H \cup N) /\ Cardinality(H \cup N) = Cardinality(H) + Cardinality(N)
          BY <3>5, <5>1, UnionCard, ZenonT(60)
        <5> QED
          BY <5>1, <5>2 DEF H
      <4>2. subInFlight' = Cardinality(Holders')
        BY <3>1, <3>2, <3>5, <4>1
      <4> QED
        BY <3>2, <4>1, <4>2 DEF SlotsInv, QueuedOnlyWhenFull
    <3>8. Apart'
      <4>1. Taken' \subseteq Taken /\ Releasing' \subseteq Releasing /\ Written' \subseteq Waiting
            /\ Waiting' \subseteq Waiting /\ Holders' \subseteq Holders \cup Waiting
        BY <3>3, <3>4, <3>6
      <4>2. Due' \cap (Again' \cup Waiting' \cup Holders') = {} /\ Again' \cap (Waiting' \cup Holders') = {}
        BY <1>3, <3>0, <4>1 DEF Apart
      <4>3. Waiting' \cap Holders' = {}
        BY <3>0, <3>4, <3>6 DEF Apart
      <4>4. Awaiting' \cap (Taken' \cup Releasing') = {} /\ Taken' \cap Releasing' = {}
        BY <1>3, <3>0, <4>1 DEF Apart
      <4>5. Written' \cap (Awaiting' \cup Taken' \cup Releasing') = {}
        <5>1. Awaiting \cup Taken \cup Releasing \subseteq Holders
          BY DEF Holders
        <5> QED
          BY <1>3, <3>0, <4>1, <5>1 DEF Apart
      <4> QED
        BY <4>2, <4>3, <4>4, <4>5 DEF Apart
    <3>9. Places'
      <4>1. Waiting' \subseteq subs /\ Written' \subseteq subs
        BY <1>6, <3>0, <3>3, <3>4
      <4> QED
        BY <3>2, <3>8, <4>1 DEF Places
    <3>10. subSendMu'.conn <= last
      <4>1. CASE subSendMu' = Free
        BY <1>0, <4>1, Types DEF Free, NoConn
      <4>2. CASE subSendMu' # Free
        BY <3>2, <4>2
      <4> QED
        BY <4>1, <4>2
    <3>11. Waiting' \cup In(subSendMu'.todo) \subseteq Waiting /\ Waiting \subseteq Waiting' \cup Written'
      BY <3>3, <3>4 DEF N
    <3> QED
      BY <2>2, <3>0, <3>2, <3>7, <3>9, <3>10, <3>11
  <2> QED
    BY <2>1, <2>2
<1> HIDE DEF Facts
<1>8. TypeInv'
  <2>1. TypeOK'
    BY <1>0, <1>7 DEF Facts, TypeInv, TypeOK, LockRec, SubRec, EndRec, ReaderRec
  <2> QED
    BY <1>0, <2>1 DEF TypeInv
<1>9. ConnInv'
  <2>1. sup.pc = "lose" => subSendMu'.by # "reader" /\ rd'.pc = "read"
    <3>1. sup.pc = "lose" => conn # c /\ rd.pc = "read"
      BY <1>0 DEF ConnInv
    <3>2. sup.pc = "lose" => subSendMu' = Free
      BY <1>7, <3>1 DEF Facts
    <3> QED
      BY <3>1, <3>2 DEF Free
  <2>2. conn = NoConn => subQueue' = subQueue
    BY <1>7 DEF Facts
  <2> QED
    BY <1>0, <2>1, <2>2 DEF ConnInv
<1>10. NumberInv'
  <2>1. subSendMu'.conn <= last
    BY <1>7 DEF Facts
  <2> QED
    BY <1>0, <2>1 DEF NumberInv
<1>11. LockInv'
  <2>1. subSendMu' # Free => subSendMu'.conn = conn /\ subSendMu'.conn # NoConn
    BY <1>7 DEF Facts
  <2>2. subSendMu'.todo = <<>> <=> subSendMu' = Free
    BY <1>7 DEF Facts
  <2>3. \A y \in Subs : ending'[y].pc = "release" => ending'[y].aw # NoConn
    BY <1>0 DEF LockInv
  <2>4. conn # NoConn => \A y \in Subs : y \in srvSubs \/ owed[y] > 0 =>
                          sub'[y].awaiting \in {NoConn, conn}
    BY <1>0 DEF LockInv
  <2> QED
    BY <1>0, <2>1, <2>2, <2>3, <2>4 DEF LockInv
<1>12. NewInv'
  <2>1. \A y \in Subs : y \notin Waiting => y \notin Waiting' /\ y \notin In(subSendMu'.todo)
    BY <1>7 DEF Facts
  <2> QED
    BY <1>0, <2>1 DEF NewInv
<1>13. EndInv'
  BY <1>0 DEF EndInv
<1>14. OpenInv'
  <2>1. conn # NoConn => Waiting \subseteq Waiting' \cup Written'
    BY <1>7 DEF Facts
  <2> QED
    BY <1>0, <1>2, <1>3, <1>4, <1>5, <2>1 DEF OpenInv
<1>15. ValueInv'
  <2>1. AskInv'
    <3>1. AskInv
      BY <1>0 DEF ValueInv
    <3> QED
      BY <1>2, <1>3, <1>4, <3>1 DEF AskInv
  <2>2. ASSUME conn # NoConn, linkUp, NEW y \in subs \cap Patching \cap srvSubs, Alive(y)'
        PROVE  /\ sub'[y].current = NoValue => owed'[y] > 0 /\ (missed'[y] # {} => sub'[y].resend)
               /\ sub'[y].current # NoValue =>
                    /\ \/ missed'[y] \subseteq sub'[y].current.has
                       \/ sub'[y].resend /\ y \in Taken'
                       \/ y \in Awaiting' \/ y \in Written'
                    /\ computed'[y] # NoAnswer => missed'[y] \subseteq 1..computed'[y]
                    /\ sub'[y].resend => y \in Taken'
    <3>1. Alive(y) /\ y \in Subs
      BY <1>2, <1>4, <2>2
    <3>2. /\ sub[y].current = NoValue => owed[y] > 0 /\ (missed[y] # {} => sub[y].resend)
          /\ sub[y].current # NoValue =>
               /\ missed[y] \subseteq sub[y].current.has \/ (sub[y].resend /\ y \in Taken)
                    \/ y \in Awaiting
               /\ computed[y] # NoAnswer => missed[y] \subseteq 1..computed[y]
               /\ sub[y].resend => y \in Taken
      BY <1>0, <1>5, <2>2, <3>1 DEF ValueInv
    <3>3. CASE conn # c
      BY <1>3, <2>2, <3>2, <3>3
    <3>4. CASE y # x
      <4>1. y \in Taken <=> y \in Taken'
        BY <3>4
      <4>2. sub'[y] = sub[y]
        BY <3>1, <3>4
      <4> QED
        BY <1>3, <3>2, <4>1, <4>2
    <3>5. CASE conn = c /\ y = x
      <4>1. ~sub[x].resend /\ ~sub'[x].resend
        BY <3>1, <3>5
      <4>2. x \notin Awaiting
        BY <1>6, <2>2, <3>5 DEF Apart
      <4>3. sub[x].current # NoValue
        BY <1>0, <2>2, <3>1, <3>5, <4>2 DEF ValueInv, AskInv, Alive, Open
      <4> QED
        BY <3>1, <3>2, <3>5, <4>1, <4>2, <4>3
    <3> QED
      BY <3>3, <3>4, <3>5
  <2>3. \A y \in subs : sub'[y].current # NoValue =>
          sub'[y].current.conn = last /\ (sup.pc = "lose" => y \in sup.todo)
    BY <1>0, <1>2 DEF ValueInv
  <2>4. \A y \in Subs : missed'[y] \subseteq 1..ver'[y]
    BY <1>0 DEF ValueInv
  <2> QED
    BY <2>1, <2>2, <2>3, <2>4 DEF ValueInv
<1> QED
  BY <1>7, <1>8, <1>9, <1>10, <1>11, <1>12, <1>13, <1>14, <1>15, Whole DEF Facts

\* The ender releases the slot it took.
LEMMA endReleasesKeeps ==
  ASSUME SubsInv, NEW x \in Subs, endReleases(x)
  PROVE  SubsInv'
<1>0. /\ TypeInv /\ NumberInv /\ LockInv /\ EndInv /\ Places
  BY Parts
<1> DEFINE c == ending[x].aw
           e == [pc |-> "done", aw |-> NoConn]
<1>1. /\ ending[x].pc = "release" /\ releaseSubSlot("ender", c)
      /\ ending' = [ending EXCEPT ![x] = e]
      /\ UNCHANGED <<conn, last, linkUp, closed, subs, sub, opening, rd, sup,
                     ver, srvSubs, kept, owed, computed, missed>>
  BY DEF endReleases, srvVars
<1>2. /\ ending[x] \in EndRec /\ ending \in [Subs -> EndRec] /\ sub \in [Subs -> SubRec]
      /\ rd \in ReaderRec /\ last \in Nat /\ NoConn = 0 /\ 0 \in Conns0
  BY <1>0, Types
<1>3. c \in Conns0 /\ c # NoConn /\ c <= last
  BY <1>0, <1>1, <1>2 DEF NumberInv, LockInv, EndRec
<1>4. e \in EndRec /\ e.pc = "done" /\ e.aw <= last
  BY <1>2 DEF EndRec
<1> HIDE DEF e
<1>5. /\ ending' \in [Subs -> EndRec] /\ ending'[x] = e
      /\ \A y \in Subs : y # x => ending'[y] = ending[y]
  BY <1>1, <1>2, <1>4
<1>6. \A y \in Subs : /\ ending'[y].pc = "no" <=> ending[y].pc = "no"
                      /\ ending'[y].pc \in {"take", "release", "done"} =>
                           ending[y].pc \in {"take", "release", "done"}
                      /\ ending'[y].pc = "release" => ending'[y] = ending[y]
                      /\ ending'[y].aw <= last
  BY <1>0, <1>1, <1>4, <1>5 DEF NumberInv
<1>7. Taken' = Taken /\ Releasing' = Releasing \ {x}
  <2>1. Taken' = Taken
    BY <1>1 DEF Taken
  <2>2. Releasing' = Releasing \ {x}
    BY <1>1, <1>4, <1>5 DEF Releasing
  <2> QED
    BY <2>1, <2>2
<1>8. x \in Releasing <=> conn = c
  BY <1>1 DEF Releasing
<1>9. conn = c => x \notin Taken
  BY <1>0, <1>3, <1>8 DEF Places, Apart
<1>10. ~Alive(x)
  BY <1>0, <1>1 DEF EndInv, Alive
<1>11. rd'.aw <= last /\ \A y \in Subs : Failed(y)' <=> Failed(y)
  BY <1>0, <1>1 DEF NumberInv, Failed
<1>12. /\ conn # NoConn /\ conn # c => Taken' = Taken /\ Releasing' = Releasing /\ sub' = sub
       /\ conn = c => /\ x \in Taken \cup Releasing /\ x \notin Taken' \cup Releasing'
                      /\ ~Alive(x) \/ ~sub[x].resend
  BY <1>1, <1>7, <1>8, <1>9, <1>10
<1> HIDE DEF c
<1> QED
  BY <1>1, <1>2, <1>3, <1>5, <1>6, <1>7, <1>11, <1>12, ReleaseMoves

\* The reader releases the slot of a subscription that has failed.
LEMMA errorFailsKeeps ==
  ASSUME SubsInv, errorFails
  PROVE  SubsInv'
<1>0. /\ TypeInv /\ NumberInv /\ LockInv /\ EndInv /\ Places
  BY Parts
<1> DEFINE c == rd.aw
           x == rd.x
<1>1. /\ rd.pc = "failed" /\ releaseSubSlot("reader", c)
      /\ rd' = [pc |-> "fail", x |-> x, aw |-> NoConn]
      /\ UNCHANGED <<conn, last, linkUp, closed, subs, sub, opening, ending, sup,
                     ver, srvSubs, kept, owed, computed, missed>>
  BY DEF errorFails, srvVars
<1>2. /\ ending \in [Subs -> EndRec] /\ sub \in [Subs -> SubRec]
      /\ rd \in ReaderRec /\ last \in Nat /\ NoConn = 0 /\ 0 \in Conns0
  BY <1>0, Types
<1>3. x \in Subs /\ c \in Conns0 /\ c # NoConn /\ c <= last /\ (conn # NoConn => c = conn)
  BY <1>0, <1>1, <1>2 DEF NumberInv, LockInv, ReaderRec, TypeInv
<1>4. rd' \in ReaderRec /\ rd'.pc = "fail" /\ rd'.x = x /\ rd'.aw <= last
  BY <1>1, <1>2, <1>3 DEF ReaderRec
<1>5. \A y \in Subs : Failed(y)' <=> Failed(y)
  BY <1>1, <1>4 DEF Failed
<1>6. Taken' = {} /\ Taken \subseteq {x} /\ (conn = c => x \in Taken)
  BY <1>1, <1>4 DEF Taken
<1>7. Releasing' = Releasing
  BY <1>1 DEF Releasing
<1>8. conn = c => x \notin Releasing
  BY <1>0, <1>3, <1>6 DEF Places, Apart
<1>9. ~Alive(x)
  BY <1>1 DEF Alive, Failed
<1>10. \A y \in Subs : ending[y].aw <= last
  BY <1>0 DEF NumberInv
<1>11. /\ conn # NoConn /\ conn # c => Taken' = Taken /\ Releasing' = Releasing /\ sub' = sub
       /\ conn = c => /\ x \in Taken \cup Releasing /\ x \notin Taken' \cup Releasing'
                      /\ ~Alive(x) \/ ~sub[x].resend
  BY <1>3, <1>6, <1>7, <1>8, <1>9
<1>12. x = rd.x
  OBVIOUS
<1> HIDE DEF c, x
<1> QED
  BY <1>1, <1>2, <1>3, <1>4, <1>5, <1>6, <1>7, <1>10, <1>11, <1>12, ReleaseMoves

\* The reader goes on after an answer: a re-send asked for meanwhile keeps the
\* slot, otherwise it is released.
LEMMA answeredKeeps ==
  ASSUME SubsInv, answered
  PROVE  SubsInv'
<1>0. /\ TypeInv /\ ConnInv /\ NumberInv /\ LockInv /\ NewInv /\ EndInv
      /\ Places /\ SlotsInv /\ OpenInv /\ ValueInv
  BY Parts
<1> DEFINE c == rd.aw
           x == rd.x
           s == [sub[x] EXCEPT !.resend = FALSE]
<1>1. /\ rd.pc = "answered" /\ subSendMu = Free /\ rd' = Idle
      /\ sub' = [sub EXCEPT ![x] = s]
      /\ IF sub[x].resend /\ x \in subs /\ conn = c
           THEN /\ subSendMu' = [by |-> "reader", conn |-> c, todo |-> <<x>>]
                /\ UNCHANGED <<subInFlight, subQueue>>
           ELSE releaseSubSlot("reader", c)
      /\ UNCHANGED <<conn, last, linkUp, closed, subs, opening, ending, sup,
                     ver, srvSubs, kept, owed, computed, missed>>
  <2>1. sub \in [Subs -> SubRec]
    BY <1>0, Types
  <2> QED
    BY <2>1 DEF answered, srvVars
<1>2. /\ ending \in [Subs -> EndRec] /\ sub \in [Subs -> SubRec] /\ subs \subseteq Subs
      /\ rd \in ReaderRec /\ last \in Nat /\ NoConn = 0 /\ 0 \in Conns0
  BY <1>0, Types
<1>3. x \in Subs /\ c \in Conns0 /\ c # NoConn /\ c <= last /\ (conn # NoConn => c = conn)
  BY <1>0, <1>1, <1>2 DEF NumberInv, LockInv, ReaderRec, TypeInv
<1>4. /\ rd' \in ReaderRec /\ rd'.pc = "read" /\ rd'.aw <= last
  BY <1>1, <1>2 DEF ReaderRec, Idle
<1>5. /\ s \in SubRec /\ s.closed = sub[x].closed /\ s.current = sub[x].current
      /\ s.awaiting = sub[x].awaiting /\ s.failing = sub[x].failing /\ ~s.resend
  <2>1. sub[x] \in SubRec
    BY <1>2, <1>3
  <2> HIDE DEF x
  <2> QED
    BY <2>1 DEF SubRec
<1> HIDE DEF s
<1>6. /\ sub' \in [Subs -> SubRec] /\ sub'[x] = s
      /\ \A y \in Subs : y # x => sub'[y] = sub[y]
  BY <1>1, <1>2, <1>3, <1>5
<1>7. \A y \in Subs : /\ sub'[y].closed = sub[y].closed /\ sub'[y].current = sub[y].current
                      /\ sub'[y].awaiting = sub[y].awaiting
                      /\ sub'[y].failing = sub[y].failing
                      /\ sub'[y].resend => sub[y].resend
                      /\ y # x => sub'[y] = sub[y]
  BY <1>5, <1>6
<1>8. \A y \in Subs : Failed(y)' <=> Failed(y)
  BY <1>1, <1>4 DEF Failed
<1>9. Taken' = {} /\ Taken \subseteq {x} /\ (conn = c => Taken = {x})
  BY <1>1, <1>4 DEF Taken
<1>10. Releasing' = Releasing
  BY <1>1 DEF Releasing
<1>11. conn = c => x \notin Releasing /\ x \notin Awaiting
  BY <1>0, <1>3, <1>9 DEF Places, Apart
<1>12. CASE ~(sub[x].resend /\ x \in subs /\ conn = c)
  <2>1. releaseSubSlot("reader", c)
    BY <1>1, <1>12
  <2>2. \A y \in Subs : ending[y].aw <= last
    BY <1>0 DEF NumberInv
  <2>3. conn = c => ~Alive(x) \/ ~sub[x].resend
    BY <1>12 DEF Alive
  <2>4. /\ conn # NoConn /\ conn # c => Taken' = Taken /\ Releasing' = Releasing /\ sub' = sub
        /\ conn = c => /\ x \in Taken \cup Releasing /\ x \notin Taken' \cup Releasing'
                       /\ ~Alive(x) \/ ~sub[x].resend
    BY <1>3, <1>9, <1>10, <1>11, <2>3
  <2> HIDE DEF c, x
  <2> QED
    BY <1>1, <1>2, <1>3, <1>4, <1>6, <1>7, <1>8, <1>9, <1>10, <2>1, <2>2, <2>4, ReleaseMoves
<1>13. CASE sub[x].resend /\ x \in subs /\ conn = c
  <2>1. /\ subSendMu' = [by |-> "reader", conn |-> c, todo |-> <<x>>]
        /\ UNCHANGED <<subInFlight, subQueue>> /\ conn # NoConn
    BY <1>1, <1>3, <1>13
  <2>2. rd.pc # "read" /\ sup.pc # "lose" /\ opening[x].pc # "new"
    BY <1>0, <1>1, <1>3 DEF ConnInv, NewInv
  <2> HIDE DEF c, x
  <2>3. /\ subSendMu' \in LockRec /\ subSendMu'.todo = <<x>> /\ subSendMu'.conn = c
        /\ subSendMu'.todo # <<>> /\ subSendMu' # Free
        /\ Distinct(subSendMu'.todo) /\ In(subSendMu'.todo) = {x}
    BY <1>3, <2>1 DEF LockRec, Free, Distinct, In
  <2>4. Written = {} /\ Written' = {x}
    BY <1>1, <1>13, <2>3 DEF Written, Free, In
  <2>5. /\ Due' = Due /\ Again' = Again /\ Waiting' = Waiting /\ Awaiting' = Awaiting
    BY <1>1, <1>7, <2>1 DEF Due, Again, Waiting, Awaiting, In
  <2>6. Holders' = Holders
    BY <1>9, <1>10, <1>13, <2>4, <2>5 DEF Holders
  <2>7. Places'
    <3>1. Apart /\ Distinct(subQueue) /\ Waiting \subseteq subs
      BY <1>0, <2>1 DEF Places
    <3>2. Apart'
      BY <1>9, <1>10, <1>11, <1>13, <2>4, <2>5, <2>6, <3>1 DEF Apart
    <3> QED
      BY <1>1, <1>13, <2>1, <2>3, <2>4, <2>5, <3>1, <3>2 DEF Places
  <2>8. SlotsInv'
    BY <1>0, <1>1, <2>1, <2>6 DEF SlotsInv, QueuedOnlyWhenFull
  <2>9. TypeInv'
    <3>1. TypeOK'
      BY <1>0, <1>1, <1>4, <1>6, <2>1, <2>3 DEF TypeInv, TypeOK, LockRec, SubRec, ReaderRec
    <3> QED
      BY <1>4, <3>1 DEF TypeInv
  <2>10. ConnInv'
    BY <1>0, <1>1, <2>1, <2>2 DEF ConnInv
  <2>11. NumberInv'
    BY <1>0, <1>1, <1>3, <1>4, <1>7, <2>3 DEF NumberInv
  <2>12. LockInv'
    <3>1. conn # NoConn => \A y \in Subs : y \in srvSubs \/ owed[y] > 0 =>
                          sub'[y].awaiting \in {NoConn, conn}
      BY <1>0, <1>7 DEF LockInv
    <3> QED
      BY <1>0, <1>1, <1>3, <1>4, <1>13, <2>3, <3>1 DEF LockInv
  <2>13. NewInv'
    BY <1>0, <1>1, <1>4, <1>7, <2>2, <2>3, <2>5 DEF NewInv
  <2>14. EndInv'
    BY <1>0, <1>1, <1>7 DEF EndInv
  <2>15. \A y \in Subs : (Alive(y)' <=> Alive(y)) /\ (Open(y)' <=> Open(y))
    BY <1>1, <1>7, <1>8 DEF Alive, Open
  <2>16. OpenInv'
    <3>1. conn # NoConn /\ linkUp => \A y \in subs : Alive(y) =>
            y \in srvSubs \cup Due \cup Again \cup Waiting
      BY <1>0, <2>4 DEF OpenInv
    <3> QED
      BY <1>0, <1>1, <1>2, <1>7, <2>5, <2>15, <3>1 DEF OpenInv
  <2>17. ValueInv'
    <3>1. AskInv'
      <4>1. AskInv
        BY <1>0 DEF ValueInv
      <4> QED
        BY <1>1, <1>2, <1>7, <2>5, <2>15, <4>1 DEF AskInv
    <3>2. ASSUME conn # NoConn, linkUp, NEW y \in subs \cap Patching \cap srvSubs, Alive(y)'
          PROVE  /\ sub'[y].current = NoValue => owed'[y] > 0 /\ (missed'[y] # {} => sub'[y].resend)
                 /\ sub'[y].current # NoValue =>
                      /\ \/ missed'[y] \subseteq sub'[y].current.has
                         \/ sub'[y].resend /\ y \in Taken'
                         \/ y \in Awaiting' \/ y \in Written'
                      /\ computed'[y] # NoAnswer => missed'[y] \subseteq 1..computed'[y]
                      /\ sub'[y].resend => y \in Taken'
      <4>1. Alive(y) /\ y \in Subs
        BY <1>2, <2>15, <3>2
      <4>2. /\ sub[y].current = NoValue => owed[y] > 0 /\ (missed[y] # {} => sub[y].resend)
            /\ sub[y].current # NoValue =>
                 /\ missed[y] \subseteq sub[y].current.has \/ (sub[y].resend /\ y \in Taken)
                      \/ y \in Awaiting
                 /\ computed[y] # NoAnswer => missed[y] \subseteq 1..computed[y]
                 /\ sub[y].resend => y \in Taken
        BY <1>0, <2>4, <3>2, <4>1 DEF ValueInv
      <4>3. CASE y = x
        <5>1. sub[y].current # NoValue
          BY <1>0, <1>11, <1>13, <3>2, <4>1, <4>3 DEF ValueInv, AskInv, Alive, Open
        <5> QED
          BY <1>1, <1>5, <1>6, <2>4, <4>2, <4>3, <5>1
      <4>4. CASE y # x
        <5>1. sub'[y] = sub[y] /\ y \notin Taken
          BY <1>6, <1>9, <4>1, <4>4
        <5> QED
          BY <1>1, <2>5, <4>2, <5>1
      <4> QED
        BY <4>3, <4>4
    <3>3. \A y \in subs : sub'[y].current # NoValue =>
            sub'[y].current.conn = last /\ (sup.pc = "lose" => y \in sup.todo)
      BY <1>0, <1>2, <1>7 DEF ValueInv
    <3>4. \A y \in Subs : missed'[y] \subseteq 1..ver'[y]
      BY <1>0, <1>1 DEF ValueInv
    <3> QED
      BY <1>1, <3>1, <3>2, <3>3, <3>4 DEF ValueInv
  <2> QED
    BY <2>7, <2>8, <2>9, <2>10, <2>11, <2>12, <2>13, <2>14, <2>16, <2>17, Whole
<1> QED
  BY <1>12, <1>13

-----------------------------------------------------------------------------
(* What the reader receives.                                               *)

\* An answer, a refresh or an error of x, whatever it does to the value: the
\* slot of an unanswered frame goes to the reader.  The last hypotheses say that
\* x, if it is still alive, has what it asked for.
LEMMA Answers ==
  ASSUME SubsInv, NEW x \in Subs, Meets, opening[x].pc # "new", x \in srvSubs \/ owed[x] > 0,
         UNCHANGED <<conn, last, linkUp, closed, table, subSendMu, opening, ending, sup, missed>>,
         sub' \in [Subs -> SubRec], \A y \in Subs : y # x => sub'[y] = sub[y],
         sub'[x].closed = sub[x].closed, sub'[x].resend = sub[x].resend,
         sub'[x].failing = sub[x].failing,
         rd' \in ReaderRec,
         \/ /\ sub'[x].awaiting = sub[x].awaiting
            /\ rd' = rd
         \/ /\ sub[x].awaiting # NoConn /\ sub'[x].awaiting = NoConn
            /\ rd'.pc \in {"answered", "failed"} /\ rd'.x = x /\ rd'.aw = sub[x].awaiting,
         ver' \in [Subs -> 0..MaxVersion], \A y \in Subs : ver'[y] >= ver[y],
         srvSubs' \subseteq srvSubs, srvSubs \subseteq srvSubs' \cup {x}, kept' \in SUBSET srvSubs',
         owed' \in [Subs -> Nat], computed' \in [Subs -> 0..NoAnswer],
         \A y \in Subs : y # x => owed'[y] = owed[y] /\ computed'[y] = computed[y],
         owed'[x] <= owed[x],
         computed'[x] # NoAnswer => owed'[x] > 0,
         x \in subs /\ sub'[x].current # NoValue => sub'[x].current.conn = last,
         x \in subs \cap Patching \cap srvSubs' /\ Open(x)' => sub'[x].current # NoValue,
         Alive(x)' =>
           /\ x \in srvSubs' /\ sub'[x].awaiting = NoConn
           /\ x \in Patching => /\ \/ missed[x] \subseteq sub'[x].current.has
                                   \/ sub[x].resend /\ rd' # rd
                                   \/ x \in Written
                                /\ sub[x].resend => rd' # rd
                                /\ computed'[x] # NoAnswer => missed[x] \subseteq 1..computed'[x]
  PROVE  SubsInv'
<1>0. /\ TypeInv /\ ConnInv /\ NumberInv /\ LockInv /\ NewInv /\ EndInv
      /\ Places /\ SlotsInv /\ OpenInv /\ ValueInv
  BY Parts
<1>1. /\ UNCHANGED <<subs, subInFlight, subQueue>>
      /\ rd.pc = "read" /\ linkUp /\ conn # NoConn /\ conn = last
  BY <1>0 DEF table, Meets, ConnInv
<1>2. sub[x].awaiting \in {NoConn, conn} /\ (subSendMu # Free => subSendMu.conn = conn)
  BY <1>0, <1>1 DEF LockInv
<1>3. Due' = Due /\ Again' = Again /\ Waiting' = Waiting /\ Written' = Written /\ Releasing' = Releasing
  BY <1>1 DEF Due, Again, Waiting, Written, Releasing, In
<1>4. \/ /\ Awaiting' = Awaiting /\ Taken' = Taken /\ rd' = rd
      \/ /\ Awaiting' = Awaiting \ {x} /\ x \in Awaiting /\ Taken' = {x} /\ Taken = {} /\ rd' # rd
  <2>1. CASE sub'[x].awaiting = sub[x].awaiting /\ rd' = rd
    <3>1. Awaiting' = Awaiting
      BY <2>1 DEF Awaiting
    <3>2. Taken' = Taken
      BY <2>1 DEF Taken
    <3> QED
      BY <2>1, <3>1, <3>2
  <2>2. CASE /\ sub[x].awaiting # NoConn /\ sub'[x].awaiting = NoConn
             /\ rd'.pc \in {"answered", "failed"} /\ rd'.x = x /\ rd'.aw = sub[x].awaiting
    <3>1. sub[x].awaiting = conn
      BY <1>2, <2>2
    <3>2. Awaiting' = Awaiting \ {x} /\ x \in Awaiting
      BY <1>1, <2>2, <3>1 DEF Awaiting
    <3>3. Taken' = {x} /\ Taken = {} /\ rd' # rd
      BY <1>1, <2>2, <3>1 DEF Taken
    <3> QED
      BY <3>2, <3>3
  <2> QED
    BY <2>1, <2>2
<1>5. Holders' = Holders
  BY <1>3, <1>4 DEF Holders
<1>6. Places'
  <2>1. Apart
    BY <1>0, <1>1 DEF Places
  <2>2. Apart'
    <3>1. Due' \cap (Again' \cup Waiting' \cup Holders') = {} /\ Again' \cap (Waiting' \cup Holders') = {}
          /\ Waiting' \cap Holders' = {}
      BY <1>3, <1>5, <2>1 DEF Apart
    <3>2. /\ Written' \cap (Awaiting' \cup Taken' \cup Releasing') = {}
          /\ Awaiting' \cap (Taken' \cup Releasing') = {}
          /\ Taken' \cap Releasing' = {}
      BY <1>3, <1>4, <2>1 DEF Apart
    <3> QED
      BY <3>1, <3>2 DEF Apart
  <2> QED
    BY <1>0, <1>1, <1>3, <2>2 DEF Places
<1>7. SlotsInv'
  BY <1>0, <1>1, <1>5 DEF SlotsInv, QueuedOnlyWhenFull
<1>8. /\ rd'.pc # "read" => rd'.x = x /\ rd'.pc \in {"answered", "failed"}
      /\ rd'.pc \in {"answered", "failed"} => rd'.aw = conn
      /\ rd'.aw <= last
      /\ rd'.pc = "read" => rd' = rd
  BY <1>0, <1>1, <1>2, Types DEF NumberInv
<1>9. TypeInv'
  <2>1. srvSubs' \subseteq Subs
    BY <1>0, Types
  <2>2. TypeOK'
    BY <1>0, <1>1, <2>1 DEF TypeInv, TypeOK, SubRec, ReaderRec
  <2> QED
    BY <1>8, <2>2 DEF TypeInv
<1>10. ConnInv'
  <2>1. sup.pc # "lose"
    BY <1>0, <1>1 DEF ConnInv
  <2> QED
    BY <1>0, <1>1, <2>1 DEF ConnInv
<1>11. NumberInv'
  <2>1. \A y \in Subs : sub'[y].awaiting <= last
    <3>1. NoConn <= last /\ \A y \in Subs : sub[y].awaiting <= last
      BY <1>0, Types DEF NumberInv, NoConn
    <3>2. sub'[x].awaiting = sub[x].awaiting \/ sub'[x].awaiting = NoConn
      OBVIOUS
    <3> QED
      BY <3>1, <3>2
  <2> QED
    BY <1>0, <1>8, <2>1 DEF NumberInv
<1>12. LockInv'
  <2>1. \A y \in Subs : owed'[y] > 0 => owed[y] > 0
    <3>1. owed[x] \in Nat /\ owed'[x] \in Nat
      BY <1>0 DEF TypeInv, TypeOK
    <3>2. owed'[x] > 0 => owed[x] > 0
      BY <3>1
    <3> QED
      BY <3>2
  <2>2. \A y \in Subs : y \in srvSubs' \/ owed'[y] > 0 => sub'[y].awaiting \in {NoConn, conn}
    BY <1>0, <1>1, <1>2, <2>1 DEF LockInv
  <2> QED
    BY <1>0, <1>1, <1>2, <1>8, <2>2 DEF LockInv
<1>13. NewInv'
  BY <1>0, <1>1, <1>3, <1>8 DEF NewInv
<1>14. EndInv'
  BY <1>0, <1>1 DEF EndInv
<1>15. \A y \in Subs : y # x => (Alive(y)' <=> Alive(y)) /\ (Open(y)' <=> Open(y))
  BY <1>1, <1>8 DEF Alive, Open, Failed
<1>16. /\ \A y \in Subs : y # x => (y \in Awaiting' <=> y \in Awaiting) /\ (y \in Taken' <=> y \in Taken)
       /\ Alive(x)' => x \notin Awaiting'
       /\ rd' # rd => x \in Taken'
       /\ subs \subseteq Subs
  <2>1. Alive(x)' => x \notin Awaiting'
    BY <1>1 DEF Awaiting
  <2> QED
    BY <1>0, <1>4, <2>1, Types
<1>17. OpenInv'
  <2>1. \A y \in Subs : computed'[y] # NoAnswer => owed'[y] > 0
    BY <1>0 DEF OpenInv
  <2>2. ASSUME NEW y \in subs, Alive(y)'
        PROVE  /\ y \in srvSubs' \cup Due' \cup Again' \cup Waiting' \cup Written'
               /\ y \in Awaiting' => owed'[y] > 0
               /\ owed'[y] > 0 => y \in srvSubs'
               /\ y \notin srvSubs' => missed'[y] = {} /\ sub'[y].current = NoValue
    <3>1. CASE y = x
      BY <1>16, <2>2, <3>1
    <3>2. CASE y # x
      <4>1. Alive(y) /\ y \in Subs /\ sub'[y] = sub[y] /\ owed'[y] = owed[y]
        BY <1>15, <1>16, <2>2, <3>2
      <4> QED
        BY <1>0, <1>1, <1>3, <1>16, <3>2, <4>1 DEF OpenInv
    <3> QED
      BY <3>1, <3>2
  <2> QED
    BY <1>1, <2>1, <2>2 DEF OpenInv
<1>18. ValueInv'
  <2>1. AskInv'
    <3> SUFFICES ASSUME NEW y \in subs \cap Patching \cap srvSubs', Open(y)', sub'[y].current = NoValue
                 PROVE  y \in Awaiting'
      BY <1>1 DEF AskInv
    <3>1. y # x /\ y \in Subs
      BY <1>16
    <3>2. Open(y) /\ sub'[y] = sub[y]
      BY <1>15, <3>1
    <3> QED
      BY <1>0, <1>1, <1>16, <3>1, <3>2 DEF ValueInv, AskInv
  <2>2. ASSUME NEW y \in subs \cap Patching \cap srvSubs', Alive(y)'
        PROVE  /\ sub'[y].current = NoValue => owed'[y] > 0 /\ (missed'[y] # {} => sub'[y].resend)
               /\ sub'[y].current # NoValue =>
                    /\ \/ missed'[y] \subseteq sub'[y].current.has
                       \/ sub'[y].resend /\ y \in Taken'
                       \/ y \in Awaiting' \/ y \in Written'
                    /\ computed'[y] # NoAnswer => missed'[y] \subseteq 1..computed'[y]
                    /\ sub'[y].resend => y \in Taken'
    <3>1. CASE y = x
      <4>1. sub'[x].current # NoValue
        BY <2>2, <3>1 DEF Alive, Open
      <4> QED
        BY <1>3, <1>16, <2>2, <3>1, <4>1
    <3>2. CASE y # x
      <4>1. Alive(y) /\ y \in Subs /\ sub'[y] = sub[y] /\ owed'[y] = owed[y] /\ computed'[y] = computed[y]
        BY <1>15, <1>16, <2>2, <3>2
      <4> QED
        BY <1>0, <1>1, <1>3, <1>16, <2>2, <3>2, <4>1 DEF ValueInv
    <3> QED
      BY <3>1, <3>2
  <2>3. \A y \in subs : sub'[y].current # NoValue =>
          sub'[y].current.conn = last /\ (sup.pc = "lose" => y \in sup.todo)
    <3>1. sup.pc # "lose"
      BY <1>0, <1>1 DEF ConnInv
    <3> QED
      BY <1>0, <1>16, <3>1 DEF ValueInv
  <2>4. \A y \in Subs : missed'[y] \subseteq 1..ver'[y]
    <3>1. ver \in [Subs -> 0..MaxVersion] /\ \A y \in Subs : missed[y] \subseteq 1..ver[y]
      BY <1>0 DEF ValueInv, TypeInv, TypeOK
    <3>2. \A y \in Subs : 1..ver[y] \subseteq 1..ver'[y]
      BY <3>1
    <3> QED
      BY <3>1, <3>2
  <2> QED
    BY <1>1, <2>1, <2>2, <2>3, <2>4 DEF ValueInv
<1> QED
  BY <1>6, <1>7, <1>9, <1>10, <1>11, <1>12, <1>13, <1>14, <1>17, <1>18, Whole

\* deliver and deliverResult, field by field, for a subscription in the table.
LEMMA DeliveredFields ==
  ASSUME SubsInv, NEW x \in subs, NEW v \in 0..MaxVersion, Delivered(x, v), Meets
  PROVE  /\ sub' \in [Subs -> SubRec] /\ rd' \in ReaderRec
         /\ \A y \in Subs : y # x => sub'[y] = sub[y]
         /\ sub'[x].closed = sub[x].closed /\ sub'[x].resend = sub[x].resend
         /\ sub'[x].failing = sub[x].failing /\ sub'[x].awaiting = NoConn
         /\ sub'[x].current = IF sub[x].closed \/ x \notin Patching THEN sub[x].current
                              ELSE [conn |-> conn, has |-> 1..v]
         /\ \/ sub[x].awaiting = NoConn /\ rd' = rd
            \/ /\ sub[x].awaiting # NoConn
               /\ rd'.pc = "answered" /\ rd'.x = x /\ rd'.aw = sub[x].awaiting
<1>0. TypeInv
  BY Parts
<1>1. x \in Subs /\ sub[x] \in SubRec /\ sub \in [Subs -> SubRec] /\ rd \in ReaderRec
      /\ conn \in Conns0 /\ NoConn \in Conns0 /\ MaxVersion \in Nat
  BY <1>0, Types DEF NoConn
<1> DEFINE val == [conn |-> conn, has |-> 1..v]
           s == [sub[x] EXCEPT !.awaiting = NoConn]
           t == [sub[x] EXCEPT !.current = val, !.awaiting = NoConn]
<1>2. val \in [conn : Conns0, has : SUBSET (1..MaxVersion)]
  BY <1>1
<1>3. /\ s \in SubRec /\ s.awaiting = NoConn /\ s.closed = sub[x].closed
      /\ s.current = sub[x].current /\ s.resend = sub[x].resend /\ s.failing = sub[x].failing
  BY <1>1 DEF SubRec
<1>4. /\ t \in SubRec /\ t.awaiting = NoConn /\ t.closed = sub[x].closed
      /\ t.current = val /\ t.resend = sub[x].resend /\ t.failing = sub[x].failing
  <2> HIDE DEF val
  <2> QED
    BY <1>1, <1>2 DEF SubRec
<1>5. sub' = [publish(x, val) EXCEPT ![x].awaiting = NoConn]
  BY DEF Delivered
<1>6. /\ rd' \in ReaderRec
      /\ \/ sub[x].awaiting = NoConn /\ rd' = rd
         \/ /\ sub[x].awaiting # NoConn
            /\ rd'.pc = "answered" /\ rd'.x = x /\ rd'.aw = sub[x].awaiting
  BY <1>1 DEF Delivered, ReaderRec, SubRec
<1>7. CASE sub[x].closed \/ x \notin Patching
  <2>1. sub' = [sub EXCEPT ![x] = s]
    BY <1>1, <1>5, <1>7 DEF publish
  <2> HIDE DEF s
  <2>2. /\ sub' \in [Subs -> SubRec] /\ sub'[x] = s
        /\ \A y \in Subs : y # x => sub'[y] = sub[y]
    BY <1>1, <1>3, <2>1
  <2> QED
    BY <1>3, <1>6, <1>7, <2>2
<1>8. CASE ~(sub[x].closed \/ x \notin Patching)
  <2> HIDE DEF val
  <2>1. sub' = [sub EXCEPT ![x] = t]
    BY <1>1, <1>5, <1>8 DEF publish
  <2> HIDE DEF t
  <2>2. /\ sub' \in [Subs -> SubRec] /\ sub'[x] = t
        /\ \A y \in Subs : y # x => sub'[y] = sub[y]
    BY <1>1, <1>4, <2>1
  <2>3. sub'[x].current = [conn |-> conn, has |-> 1..v]
    BY <1>4, <2>2 DEF val
  <2> QED
    BY <1>4, <1>6, <1>8, <2>2, <2>3
<1> QED
  BY <1>7, <1>8

\* An answer or a refresh of a subscription that is alive: what it has to be.
LEMMA AliveFacts ==
  ASSUME SubsInv, NEW x \in subs, Alive(x), Meets, x \in srvSubs \/ owed[x] > 0
  PROVE  /\ x \in srvSubs /\ sub[x].awaiting \in {NoConn, conn}
         /\ x \in Patching /\ sub[x].current = NoValue => sub[x].awaiting = conn
         /\ x \in Patching /\ sub[x].current = NoValue /\ missed[x] # {} => sub[x].resend
         /\ x \in Patching /\ sub[x].current # NoValue =>
              /\ computed[x] # NoAnswer => missed[x] \subseteq 1..computed[x]
              /\ ~sub[x].resend
              /\ \/ missed[x] \subseteq sub[x].current.has
                 \/ sub[x].awaiting = conn \/ x \in Written
<1>0. TypeInv /\ LockInv /\ OpenInv /\ ValueInv
  BY Parts
<1>1. rd.pc = "read" /\ linkUp /\ conn # NoConn /\ x \in Subs
  BY <1>0, Types DEF Meets
<1>2. x \in srvSubs
  BY <1>0, <1>1 DEF OpenInv
<1>3. sub[x].awaiting \in {NoConn, conn}
  BY <1>0, <1>1 DEF LockInv
<1>4. x \in Awaiting <=> sub[x].awaiting = conn
  BY <1>1 DEF Awaiting
<1>5. x \in Patching =>
       /\ sub[x].current = NoValue => (missed[x] # {} => sub[x].resend)
       /\ sub[x].current # NoValue =>
            /\ missed[x] \subseteq sub[x].current.has \/ (sub[x].resend /\ x \in Taken)
                 \/ x \in Awaiting \/ x \in Written
            /\ computed[x] # NoAnswer => missed[x] \subseteq 1..computed[x]
            /\ sub[x].resend => x \in Taken
  BY <1>0, <1>1, <1>2 DEF ValueInv
<1>6. x \in Patching /\ sub[x].current = NoValue => x \in Awaiting
  BY <1>0, <1>1, <1>2 DEF ValueInv, AskInv, Alive, Open
<1>7. x \notin Taken
  BY <1>1 DEF Taken
<1> QED
  BY <1>2, <1>3, <1>4, <1>5, <1>6, <1>7

\* The answer to a frame takes one off what the server owes.
LEMMA AnswerCounts ==
  ASSUME SubsInv, NEW x \in Subs, computed[x] # NoAnswer,
         computed' = [computed EXCEPT ![x] = NoAnswer],
         owed' = [owed EXCEPT ![x] = @ - 1]
  PROVE  /\ owed' \in [Subs -> Nat] /\ computed' \in [Subs -> 0..NoAnswer]
         /\ \A y \in Subs : y # x => owed'[y] = owed[y] /\ computed'[y] = computed[y]
         /\ owed'[x] = owed[x] - 1 /\ owed[x] > 0 /\ owed'[x] <= owed[x]
         /\ computed'[x] = NoAnswer /\ computed[x] \in 0..MaxVersion
         /\ opening[x].pc # "new"
         /\ ver \in [Subs -> 0..MaxVersion] /\ \A y \in Subs : ver[y] >= ver[y]
<1>1. /\ owed \in [Subs -> Nat] /\ computed \in [Subs -> 0..NoAnswer]
      /\ ver \in [Subs -> 0..MaxVersion] /\ NoAnswer = MaxVersion + 1 /\ MaxVersion \in Nat
  BY Parts, Types DEF TypeInv, TypeOK
<1>2. owed[x] > 0
  BY Parts DEF OpenInv
<1>3. opening[x].pc # "new"
  BY <1>2, Parts DEF NewInv
<1>4. owed[x] \in Nat /\ computed[x] \in 0..MaxVersion
  BY <1>1
<1>5. owed' \in [Subs -> Nat] /\ owed'[x] = owed[x] - 1 /\ owed'[x] <= owed[x]
  BY <1>1, <1>2, <1>4
<1>6. computed' \in [Subs -> 0..NoAnswer] /\ computed'[x] = NoAnswer
  BY <1>1
<1>7. \A y \in Subs : y # x => owed'[y] = owed[y] /\ computed'[y] = computed[y]
  BY <1>1
<1>8. \A y \in Subs : ver[y] >= ver[y]
  BY <1>1
<1> QED
  BY <1>1, <1>2, <1>3, <1>4, <1>5, <1>6, <1>7, <1>8

\* The value a result leaves is of this connection.
LEMMA DeliveredValue ==
  ASSUME SubsInv, NEW x \in subs, NEW v \in 0..MaxVersion, Delivered(x, v), Meets
  PROVE  /\ sub'[x].current # NoValue => sub'[x].current.conn = last
         /\ x \in Patching /\ ~sub[x].closed => sub'[x].current # NoValue /\ sub'[x].current.has = 1..v
<1>1. sub'[x].current = IF sub[x].closed \/ x \notin Patching THEN sub[x].current
                        ELSE [conn |-> conn, has |-> 1..v]
  BY DeliveredFields
<1>2. conn # NoConn /\ conn = last
  BY Parts DEF Meets, ConnInv
<1>3. sub[x].current # NoValue => sub[x].current.conn = last
  BY Parts DEF ValueInv
<1>4. CASE sub[x].closed \/ x \notin Patching
  BY <1>1, <1>3, <1>4
<1>5. CASE ~(sub[x].closed \/ x \notin Patching)
  <2>1. sub'[x].current.conn = conn /\ sub'[x].current.has = 1..v
    BY <1>1, <1>5
  <2>2. NoValue.conn = NoConn
    BY DEF NoValue
  <2> QED
    BY <1>2, <2>1, <2>2
<1> QED
  BY <1>4, <1>5

\* The answer to a subscribe frame.
LEMMA deliverAnswerKeeps ==
  ASSUME SubsInv, NEW x \in Subs, deliverAnswer(x)
  PROVE  SubsInv'
<1>1. /\ Meets /\ computed[x] # NoAnswer /\ Delivered(x, computed[x])
      /\ computed' = [computed EXCEPT ![x] = NoAnswer]
      /\ owed' = [owed EXCEPT ![x] = @ - 1]
      /\ kept' \in SUBSET srvSubs'
      /\ UNCHANGED <<conn, last, linkUp, closed, table, subSendMu, opening, ending, sup, ver,
                     srvSubs, missed>>
  BY Parts DEF deliverAnswer, ServerAnswers, TypeInv, TypeOK
<1>2. /\ owed' \in [Subs -> Nat] /\ computed' \in [Subs -> 0..NoAnswer]
      /\ \A y \in Subs : y # x => owed'[y] = owed[y] /\ computed'[y] = computed[y]
      /\ owed'[x] = owed[x] - 1 /\ owed[x] > 0 /\ owed'[x] <= owed[x]
      /\ computed'[x] = NoAnswer /\ computed[x] \in 0..MaxVersion
      /\ opening[x].pc # "new"
      /\ ver \in [Subs -> 0..MaxVersion] /\ \A y \in Subs : ver[y] >= ver[y]
  BY <1>1, AnswerCounts
<1>3. CASE x \notin subs
  <2>1. sub' = sub /\ rd' = rd /\ sub \in [Subs -> SubRec] /\ rd \in ReaderRec
    BY <1>1, <1>3, Parts, Types DEF Delivered
  <2>2. ~Alive(x)'
    BY <1>1, <1>3 DEF Alive, table
  <2> QED
    BY <1>1, <1>2, <1>3, <2>1, <2>2, Answers
<1>4. CASE x \in subs
  <2>1. /\ sub' \in [Subs -> SubRec] /\ rd' \in ReaderRec
        /\ \A y \in Subs : y # x => sub'[y] = sub[y]
        /\ sub'[x].closed = sub[x].closed /\ sub'[x].resend = sub[x].resend
        /\ sub'[x].failing = sub[x].failing /\ sub'[x].awaiting = NoConn
        /\ \/ sub[x].awaiting = NoConn /\ rd' = rd
           \/ /\ sub[x].awaiting # NoConn
              /\ rd'.pc = "answered" /\ rd'.x = x /\ rd'.aw = sub[x].awaiting
    BY <1>1, <1>2, <1>4, DeliveredFields
  <2>2. /\ sub'[x].current # NoValue => sub'[x].current.conn = last
        /\ x \in Patching /\ ~sub[x].closed =>
             sub'[x].current # NoValue /\ sub'[x].current.has = 1..computed[x]
    BY <1>1, <1>2, <1>4, DeliveredValue
  <2>3. x \in Patching /\ Open(x)' => sub'[x].current # NoValue
    BY <2>1, <2>2 DEF Open
  <2>4. Alive(x)' =>
           /\ x \in srvSubs'
           /\ x \in Patching => /\ \/ missed[x] \subseteq sub'[x].current.has
                                   \/ sub[x].resend /\ rd' # rd
                                /\ sub[x].resend => rd' # rd
    <3> SUFFICES ASSUME Alive(x)'
                 PROVE  /\ x \in srvSubs'
                        /\ x \in Patching => /\ \/ missed[x] \subseteq sub'[x].current.has
                                                \/ sub[x].resend /\ rd' # rd
                                             /\ sub[x].resend => rd' # rd
      OBVIOUS
    <3>1. Alive(x)
      BY <1>1, <1>4, <2>1 DEF Alive, Failed, Meets
    <3>2. /\ x \in srvSubs
          /\ x \in Patching /\ sub[x].current = NoValue => sub[x].awaiting = conn
          /\ x \in Patching /\ sub[x].current = NoValue /\ missed[x] # {} => sub[x].resend
          /\ x \in Patching /\ sub[x].current # NoValue =>
               missed[x] \subseteq 1..computed[x] /\ ~sub[x].resend
      BY <1>1, <1>2, <1>4, <3>1, AliveFacts
    <3>3. rd.pc = "read" /\ conn # NoConn
      BY <1>1 DEF Meets
    <3>4. sub[x].awaiting = conn => rd' # rd
      BY <2>1, <3>3
    <3>5. x \in Patching => sub'[x].current.has = 1..computed[x]
      BY <2>2, <3>1 DEF Alive
    <3> QED
      BY <1>1, <3>2, <3>4, <3>5
  <2> QED
    BY <1>1, <1>2, <1>4, <2>1, <2>2, <2>3, <2>4, Answers
<1> QED
  BY <1>3, <1>4

\* The result of a refresh.
LEMMA deliverRefreshKeeps ==
  ASSUME SubsInv, KeptInv, NEW x \in Subs, deliverRefresh(x)
  PROVE  SubsInv'
<1>1. /\ Meets /\ x \in srvSubs /\ x \in kept /\ kept \in SUBSET srvSubs /\ ver[x] < MaxVersion
      /\ ver' = [ver EXCEPT ![x] = ver[x] + 1] /\ Delivered(x, ver[x] + 1)
      /\ UNCHANGED <<conn, last, linkUp, closed, table, subSendMu, opening, ending, sup,
                     srvSubs, kept, owed, computed, missed>>
  BY Parts DEF deliverRefresh, TypeInv, TypeOK
<1>2. ver \in [Subs -> 0..MaxVersion] /\ owed \in [Subs -> Nat] /\ computed \in [Subs -> 0..NoAnswer]
      /\ owed[x] <= owed[x] /\ MaxVersion \in Nat
  <2>1. ver \in [Subs -> 0..MaxVersion] /\ owed \in [Subs -> Nat] /\ computed \in [Subs -> 0..NoAnswer]
    BY Parts DEF TypeInv, TypeOK
  <2> QED
    BY <2>1, SubsAssumption
<1>3. /\ ver' \in [Subs -> 0..MaxVersion] /\ ver[x] + 1 \in 0..MaxVersion
      /\ \A y \in Subs : ver'[y] >= ver[y]
  BY <1>1, <1>2
<1>4. opening[x].pc # "new" /\ (computed[x] # NoAnswer => owed[x] > 0)
      /\ missed[x] \subseteq 1..ver[x]
  BY <1>1, Parts DEF NewInv, OpenInv, ValueInv
<1>5. CASE x \notin subs
  <2>1. sub' = sub /\ rd' = rd /\ sub \in [Subs -> SubRec] /\ rd \in ReaderRec
    BY <1>1, <1>5, Parts, Types DEF Delivered
  <2>2. ~Alive(x)'
    BY <1>1, <1>5 DEF Alive, table
  <2> QED
    BY <1>1, <1>2, <1>3, <1>4, <1>5, <2>1, <2>2, Answers
<1>6. CASE x \in subs
  <2>1. /\ sub' \in [Subs -> SubRec] /\ rd' \in ReaderRec
        /\ \A y \in Subs : y # x => sub'[y] = sub[y]
        /\ sub'[x].closed = sub[x].closed /\ sub'[x].resend = sub[x].resend
        /\ sub'[x].failing = sub[x].failing /\ sub'[x].awaiting = NoConn
        /\ \/ sub[x].awaiting = NoConn /\ rd' = rd
           \/ /\ sub[x].awaiting # NoConn
              /\ rd'.pc = "answered" /\ rd'.x = x /\ rd'.aw = sub[x].awaiting
    BY <1>1, <1>3, <1>6, DeliveredFields
  <2>2. /\ sub'[x].current # NoValue => sub'[x].current.conn = last
        /\ x \in Patching /\ ~sub[x].closed =>
             sub'[x].current # NoValue /\ sub'[x].current.has = 1..(ver[x] + 1)
    BY <1>1, <1>3, <1>6, DeliveredValue
  <2>3. x \in Patching /\ Open(x)' => sub'[x].current # NoValue
    BY <2>1, <2>2 DEF Open
  <2>4. Alive(x)' /\ x \in Patching =>
          /\ missed[x] \subseteq sub'[x].current.has /\ ~sub[x].resend
          /\ computed[x] # NoAnswer => missed[x] \subseteq 1..computed[x]
    <3> SUFFICES ASSUME Alive(x)', x \in Patching
                 PROVE  /\ missed[x] \subseteq sub'[x].current.has /\ ~sub[x].resend
                        /\ computed[x] # NoAnswer => missed[x] \subseteq 1..computed[x]
      OBVIOUS
    <3>1. Alive(x)
      BY <1>1, <1>6, <2>1 DEF Alive, Failed, Meets
    <3>2. sub[x].current # NoValue
      BY <1>1, <1>6, <3>1 DEF KeptInv, Alive
    <3>3. ~sub[x].resend /\ (computed[x] # NoAnswer => missed[x] \subseteq 1..computed[x])
      BY <1>1, <1>6, <3>1, <3>2, AliveFacts
    <3>4. sub'[x].current.has = 1..(ver[x] + 1)
      BY <2>2, <3>1 DEF Alive
    <3>5. 1..ver[x] \subseteq 1..(ver[x] + 1)
      BY <1>2
    <3> QED
      BY <1>4, <3>3, <3>4, <3>5
  <2> QED
    BY <1>1, <1>2, <1>3, <1>4, <1>6, <2>1, <2>2, <2>3, <2>4, Answers
<1> QED
  BY <1>5, <1>6

\* A result of x that does not decode, be it the answer or that of a refresh.
LEMMA UndecodableKeeps ==
  ASSUME SubsInv, NEW x \in subs, Meets, Undecodable(x), x \in srvSubs \/ owed[x] > 0,
         UNCHANGED <<conn, last, linkUp, closed, table, subSendMu, opening, sup, ver,
                     srvSubs, missed>>,
         kept' \in SUBSET srvSubs,
         owed' \in [Subs -> Nat], computed' \in [Subs -> 0..NoAnswer],
         \A y \in Subs : y # x => owed'[y] = owed[y] /\ computed'[y] = computed[y],
         owed'[x] = owed[x] \/ owed[x] > 0, owed'[x] <= owed[x],
         (computed'[x] = computed[x] /\ owed'[x] = owed[x]) \/ computed'[x] = NoAnswer
  PROVE  SubsInv'
<1>1. /\ x \in Subs /\ opening[x].pc # "new" /\ 0 \in 0..MaxVersion
      /\ ver \in [Subs -> 0..MaxVersion] /\ \A y \in Subs : ver[y] >= ver[y]
  <2>1. x \in Subs /\ ver \in [Subs -> 0..MaxVersion] /\ MaxVersion \in Nat
    BY Parts, Types DEF TypeInv, TypeOK
  <2> QED
    BY <2>1, Parts DEF NewInv
<1>2. CASE sub[x].closed
  <2>0. Delivered(x, 0) /\ UNCHANGED ending
    BY <1>2 DEF Undecodable
  <2>1. /\ sub' \in [Subs -> SubRec] /\ rd' \in ReaderRec
        /\ \A y \in Subs : y # x => sub'[y] = sub[y]
        /\ sub'[x].closed = sub[x].closed /\ sub'[x].resend = sub[x].resend
        /\ sub'[x].failing = sub[x].failing /\ sub'[x].awaiting = NoConn
        /\ \/ sub[x].awaiting = NoConn /\ rd' = rd
           \/ /\ sub[x].awaiting # NoConn
              /\ rd'.pc = "answered" /\ rd'.x = x /\ rd'.aw = sub[x].awaiting
    BY <1>1, <2>0, DeliveredFields
  <2>2. sub'[x].current # NoValue => sub'[x].current.conn = last
    BY <1>1, <2>0, DeliveredValue
  <2>3. ~Open(x)' /\ ~Alive(x)'
    BY <1>2, <2>1 DEF Open, Alive
  <2>4. computed'[x] # NoAnswer => owed'[x] > 0
    BY <1>1, Parts DEF OpenInv
  <2> QED
    BY <1>1, <2>0, <2>1, <2>2, <2>3, <2>4, Answers
<1>3. CASE ~sub[x].closed
  <2>1. closeWith(x) /\ rd' = [pc |-> "ending", x |-> x, aw |-> NoConn]
    BY <1>3 DEF Undecodable
  <2>2. rd.pc = "read" /\ sup.pc # "lose"
    BY Parts DEF Meets, ConnInv
  <2> QED
    BY <1>1, <1>3, <2>1, <2>2, Closes
<1> QED
  BY <1>2, <1>3

\* The answer does not decode.
LEMMA deliverUndecodableKeeps ==
  ASSUME SubsInv, NEW x \in Subs, deliverUndecodable(x)
  PROVE  SubsInv'
<1>1. /\ Meets /\ computed[x] # NoAnswer /\ x \in subs
      /\ computed' = [computed EXCEPT ![x] = NoAnswer]
      /\ owed' = [owed EXCEPT ![x] = @ - 1]
      /\ kept' \in SUBSET srvSubs
      /\ Undecodable(x)
      /\ UNCHANGED <<conn, last, linkUp, closed, table, subSendMu, opening, sup, ver,
                     srvSubs, missed>>
  BY Parts DEF deliverUndecodable, ServerAnswers, TypeInv, TypeOK
<1>2. /\ owed' \in [Subs -> Nat] /\ computed' \in [Subs -> 0..NoAnswer]
      /\ \A y \in Subs : y # x => owed'[y] = owed[y] /\ computed'[y] = computed[y]
      /\ owed[x] > 0 /\ owed'[x] <= owed[x] /\ computed'[x] = NoAnswer
  BY <1>1, AnswerCounts
<1> QED
  BY <1>1, <1>2, UndecodableKeeps

\* The result of a refresh does not decode.
LEMMA refreshUndecodableKeeps ==
  ASSUME SubsInv, NEW x \in Subs, refreshUndecodable(x)
  PROVE  SubsInv'
<1>1. /\ Meets /\ x \in subs /\ x \in srvSubs /\ kept \in SUBSET srvSubs
      /\ Undecodable(x)
      /\ UNCHANGED <<conn, last, linkUp, closed, table, subSendMu, opening, sup, ver,
                     srvSubs, kept, owed, computed, missed>>
  BY Parts DEF refreshUndecodable, srvVars, TypeInv, TypeOK
<1>2. owed \in [Subs -> Nat] /\ computed \in [Subs -> 0..NoAnswer]
  BY Parts DEF TypeInv, TypeOK
<1>3. owed[x] <= owed[x]
  BY <1>2
<1> QED
  BY <1>1, <1>2, <1>3, UndecodableKeeps

\* takeAwaiting for an error: the reader has the slot, and x has failed.
LEMMA FailFields ==
  ASSUME SubsInv, NEW x \in Subs, sub[x].awaiting # NoConn,
         rd' = [pc |-> "failed", x |-> x, aw |-> sub[x].awaiting],
         sub' = [sub EXCEPT ![x].awaiting = NoConn]
  PROVE  /\ sub' \in [Subs -> SubRec] /\ rd' \in ReaderRec
         /\ \A y \in Subs : y # x => sub'[y] = sub[y]
         /\ sub'[x].closed = sub[x].closed /\ sub'[x].resend = sub[x].resend
         /\ sub'[x].failing = sub[x].failing /\ sub'[x].current = sub[x].current
         /\ sub'[x].awaiting = NoConn
         /\ rd'.pc = "failed" /\ rd'.x = x /\ rd'.aw = sub[x].awaiting
         /\ ~Open(x)' /\ ~Alive(x)'
<1>1. sub[x] \in SubRec /\ sub \in [Subs -> SubRec] /\ NoConn \in Conns0
  BY Parts, Types DEF NoConn
<1> DEFINE s == [sub[x] EXCEPT !.awaiting = NoConn]
<1>2. sub' = [sub EXCEPT ![x] = s]
  BY <1>1
<1>3. /\ s \in SubRec /\ s.awaiting = NoConn /\ s.closed = sub[x].closed
      /\ s.current = sub[x].current /\ s.resend = sub[x].resend /\ s.failing = sub[x].failing
  BY <1>1 DEF SubRec
<1> HIDE DEF s
<1>4. sub' \in [Subs -> SubRec] /\ sub'[x] = s /\ \A y \in Subs : y # x => sub'[y] = sub[y]
  BY <1>1, <1>2, <1>3
<1>5. rd' \in ReaderRec /\ rd'.pc = "failed" /\ rd'.x = x /\ rd'.aw = sub[x].awaiting
  BY <1>1 DEF ReaderRec, SubRec
<1>6. ~Open(x)' /\ ~Alive(x)'
  BY <1>5 DEF Open, Alive, Failed
<1> QED
  BY <1>3, <1>4, <1>5, <1>6

\* An error that answers a subscribe frame.
LEMMA errorAnswersKeeps ==
  ASSUME SubsInv, FirstInv, KeptInv, NEW x \in Subs, errorAnswers(x)
  PROVE  SubsInv'
<1>1. /\ Meets /\ computed[x] # NoAnswer
      /\ computed' = [computed EXCEPT ![x] = NoAnswer]
      /\ owed' = [owed EXCEPT ![x] = @ - 1]
      /\ srvSubs' = srvSubs \ ({x} \ kept) /\ kept' = kept
      /\ IF x \in subs /\ sub[x].awaiting # NoConn
           THEN /\ rd' = [pc |-> "failed", x |-> x, aw |-> sub[x].awaiting]
                /\ sub' = [sub EXCEPT ![x].awaiting = NoConn]
           ELSE UNCHANGED <<rd, sub>>
      /\ UNCHANGED <<conn, last, linkUp, closed, table, subSendMu, opening, ending, sup, ver, missed>>
  BY DEF errorAnswers
<1>2. /\ owed' \in [Subs -> Nat] /\ computed' \in [Subs -> 0..NoAnswer]
      /\ \A y \in Subs : y # x => owed'[y] = owed[y] /\ computed'[y] = computed[y]
      /\ owed'[x] = owed[x] - 1 /\ owed[x] > 0 /\ owed'[x] <= owed[x]
      /\ computed'[x] = NoAnswer
      /\ opening[x].pc # "new"
      /\ ver \in [Subs -> 0..MaxVersion] /\ \A y \in Subs : ver[y] >= ver[y]
  BY <1>1, AnswerCounts
<1>3. x \in subs /\ sub[x].current # NoValue => sub[x].current.conn = last
  BY Parts DEF ValueInv
<1>4. /\ srvSubs' \subseteq srvSubs /\ srvSubs \subseteq srvSubs' \cup {x}
      /\ kept' \in SUBSET srvSubs' /\ kept \subseteq srvSubs'
  <2>1. kept \subseteq srvSubs
    BY Parts DEF TypeInv, TypeOK
  <2> QED
    BY <1>1, <2>1
<1>5. CASE x \in subs /\ sub[x].awaiting # NoConn
  <2>1. /\ sub' \in [Subs -> SubRec] /\ rd' \in ReaderRec
        /\ \A y \in Subs : y # x => sub'[y] = sub[y]
        /\ sub'[x].closed = sub[x].closed /\ sub'[x].resend = sub[x].resend
        /\ sub'[x].failing = sub[x].failing /\ sub'[x].current = sub[x].current
        /\ sub'[x].awaiting = NoConn
        /\ rd'.pc = "failed" /\ rd'.x = x /\ rd'.aw = sub[x].awaiting
        /\ ~Open(x)' /\ ~Alive(x)'
    BY <1>1, <1>5, FailFields
  <2> QED
    BY <1>1, <1>2, <1>3, <1>4, <1>5, <2>1, Answers
<1>6. CASE ~(x \in subs /\ sub[x].awaiting # NoConn)
  <2>1. sub' = sub /\ rd' = rd /\ sub \in [Subs -> SubRec] /\ rd \in ReaderRec
    BY <1>1, <1>6, Parts, Types
  <2>2. ASSUME x \in subs \cap Patching \cap srvSubs', Open(x)'
        PROVE  sub'[x].current # NoValue
    <3>1. Open(x) /\ linkUp /\ conn # NoConn
      BY <1>1, <2>1, <2>2 DEF Open, Failed, Meets
    <3>2. sub[x].current = NoValue => x \in Awaiting
      BY <1>4, <2>2, <3>1, Parts DEF ValueInv, AskInv
    <3> QED
      BY <1>6, <2>1, <2>2, <3>1, <3>2 DEF Awaiting
  <2>3. ASSUME Alive(x)'
        PROVE  /\ x \in srvSubs' /\ sub'[x].awaiting = NoConn
               /\ x \in Patching => /\ missed[x] \subseteq sub'[x].current.has \/ x \in Written
                                    /\ ~sub[x].resend
    <3>1. Alive(x) /\ x \in subs /\ conn # NoConn
      BY <1>1, <2>1, <2>3 DEF Alive, Failed, table, Meets
    <3>2. x \in kept
      BY <1>2, <1>6, <3>1 DEF FirstInv
    <3>3. x \in Patching => sub[x].current # NoValue
      BY <3>1, <3>2 DEF KeptInv, Alive
    <3>4. x \in Patching =>
            /\ missed[x] \subseteq sub[x].current.has \/ sub[x].awaiting = conn \/ x \in Written
            /\ ~sub[x].resend
      BY <1>1, <1>2, <3>1, <3>3, AliveFacts
    <3> QED
      BY <1>4, <1>6, <2>1, <3>1, <3>2, <3>4
  <2> QED
    BY <1>1, <1>2, <1>3, <1>4, <2>1, <2>2, <2>3, Answers
<1> QED
  BY <1>5, <1>6

\* An error of a refresh that comes while an answer is due.
LEMMA errorRefreshKeeps ==
  ASSUME SubsInv, NEW x \in Subs, errorRefresh(x)
  PROVE  SubsInv'
<1>1. /\ Meets /\ x \in srvSubs /\ kept \in SUBSET srvSubs /\ x \in subs /\ sub[x].awaiting # NoConn
      /\ rd' = [pc |-> "failed", x |-> x, aw |-> sub[x].awaiting]
      /\ sub' = [sub EXCEPT ![x].awaiting = NoConn]
      /\ UNCHANGED <<conn, last, linkUp, closed, table, subSendMu, opening, ending, sup,
                     ver, srvSubs, kept, owed, computed, missed>>
  BY Parts DEF errorRefresh, srvVars, TypeInv, TypeOK
<1>2. ver \in [Subs -> 0..MaxVersion] /\ owed \in [Subs -> Nat] /\ computed \in [Subs -> 0..NoAnswer]
  BY Parts DEF TypeInv, TypeOK
<1>3. (\A y \in Subs : ver[y] >= ver[y]) /\ owed[x] <= owed[x]
  BY <1>2
<1>4. /\ x \in subs /\ sub[x].current # NoValue => sub[x].current.conn = last
      /\ opening[x].pc # "new" /\ (computed[x] # NoAnswer => owed[x] > 0)
  BY <1>1, Parts DEF ValueInv, NewInv, OpenInv
<1>5. /\ sub' \in [Subs -> SubRec] /\ rd' \in ReaderRec
      /\ \A y \in Subs : y # x => sub'[y] = sub[y]
      /\ sub'[x].closed = sub[x].closed /\ sub'[x].resend = sub[x].resend
      /\ sub'[x].failing = sub[x].failing /\ sub'[x].current = sub[x].current
      /\ sub'[x].awaiting = NoConn
      /\ rd'.pc = "failed" /\ rd'.x = x /\ rd'.aw = sub[x].awaiting
      /\ ~Open(x)' /\ ~Alive(x)'
  BY <1>1, FailFields
<1> QED
  BY <1>1, <1>2, <1>3, <1>4, <1>5, Answers

\* A patch: it is dropped, applied to the value, or makes the reader ask again
\* after the answer that is due.
LEMMA patchKeeps ==
  ASSUME SubsInv, NEW x \in Subs, patch(x)
  PROVE  SubsInv'
<1>0. /\ TypeInv /\ ConnInv /\ NumberInv /\ LockInv /\ NewInv /\ EndInv
      /\ Places /\ SlotsInv /\ OpenInv /\ ValueInv
  BY Parts
<1>1. /\ Meets /\ x \in srvSubs /\ x \in Patching /\ ver[x] < MaxVersion
      /\ ver' = [ver EXCEPT ![x] = ver[x] + 1]
      /\ UNCHANGED <<conn, last, linkUp, closed, subs, opening, ending, rd, sup,
                     srvSubs, kept, owed, computed>>
  BY DEF patch, Registered
<1>2. /\ rd.pc = "read" /\ linkUp /\ conn # NoConn /\ conn = last /\ sup.pc # "lose"
      /\ opening[x].pc # "new"
  BY <1>0, <1>1 DEF Meets, ConnInv, NewInv
<1>3. /\ ver \in [Subs -> 0..MaxVersion] /\ missed \in [Subs -> SUBSET (1..MaxVersion)]
      /\ sub \in [Subs -> SubRec] /\ sub[x] \in SubRec /\ subs \subseteq Subs /\ MaxVersion \in Nat
  BY <1>0, Types DEF TypeInv, TypeOK
<1>4. /\ ver' \in [Subs -> 0..MaxVersion] /\ \A y \in Subs : ver'[y] >= ver[y]
      /\ ver'[x] = ver[x] + 1 /\ ver[x] + 1 \in 1..MaxVersion
  BY <1>1, <1>3
<1>5. /\ UNCHANGED <<subInFlight, subQueue, subSendMu>>
      /\ \/ /\ x \notin subs \/ sub[x].closed
            /\ UNCHANGED <<sub, missed>>
         \/ /\ x \in subs /\ ~sub[x].closed /\ sub[x].current # NoValue
            /\ sub' = [sub EXCEPT ![x].current.has = @ \cup {ver[x] + 1}]
            /\ UNCHANGED missed
         \/ /\ x \in subs /\ ~sub[x].closed /\ sub[x].current = NoValue /\ sub[x].awaiting = conn
            /\ sub' = [sub EXCEPT ![x].resend = TRUE]
            /\ missed' = [missed EXCEPT ![x] = @ \cup {ver[x] + 1}]
  <2>1. CASE x \notin subs \/ sub[x].closed \/ sub[x].current # NoValue
    BY <2>1 DEF patch
  <2>2. CASE x \in subs /\ ~sub[x].closed /\ sub[x].current = NoValue
    <3>1. x \in Awaiting
      <4>1. Open(x)
        BY <1>2, <2>2 DEF Open, Failed
      <4> QED
        BY <1>0, <1>1, <1>2, <2>2, <4>1 DEF ValueInv, AskInv
    <3>2. sub[x].awaiting = conn
      BY <3>1 DEF Awaiting
    <3> QED
      BY <2>2, <3>2 DEF patch, resubscribe
  <2> QED
    BY <2>1, <2>2
<1>6. /\ sub' \in [Subs -> SubRec] /\ \A y \in Subs : y # x => sub'[y] = sub[y]
      /\ sub'[x].closed = sub[x].closed /\ sub'[x].failing = sub[x].failing
      /\ sub'[x].awaiting = sub[x].awaiting
      /\ sub'[x].current.conn = sub[x].current.conn
      /\ sub'[x].current = NoValue <=> sub[x].current = NoValue
      /\ missed' \in [Subs -> SUBSET (1..MaxVersion)]
      /\ \A y \in Subs : y # x => missed'[y] = missed[y]
      /\ missed'[x] \subseteq 1..ver'[x]
      /\ \/ /\ missed'[x] = missed[x] /\ sub'[x].resend = sub[x].resend
            /\ sub[x].current.has \subseteq sub'[x].current.has
         \/ sub[x].current = NoValue /\ sub'[x].resend
         \/ sub[x].closed
         \/ x \notin subs
  <2>0. missed[x] \subseteq 1..ver[x] /\ 1..ver[x] \subseteq 1..ver'[x] /\ ver'[x] \in 1..ver'[x]
    BY <1>0, <1>3, <1>4 DEF ValueInv
  <2>1. CASE (x \notin subs \/ sub[x].closed) /\ UNCHANGED <<sub, missed>>
    BY <1>3, <2>0, <2>1
  <2>2. CASE /\ x \in subs /\ ~sub[x].closed /\ sub[x].current # NoValue
             /\ sub' = [sub EXCEPT ![x].current.has = @ \cup {ver[x] + 1}]
             /\ UNCHANGED missed
    <3> DEFINE v == [sub[x].current EXCEPT !.has = sub[x].current.has \cup {ver[x] + 1}]
               s == [sub[x] EXCEPT !.current = v]
    <3>1. sub' = [sub EXCEPT ![x] = s]
      BY <1>3, <2>2 DEF SubRec
    <3>2. /\ v \in [conn : Conns0, has : SUBSET (1..MaxVersion)] /\ v.conn = sub[x].current.conn
          /\ sub[x].current.has \subseteq v.has
      BY <1>3, <1>4 DEF SubRec
    <3> HIDE DEF v
    <3>3. /\ s \in SubRec /\ s.closed = sub[x].closed /\ s.failing = sub[x].failing
          /\ s.awaiting = sub[x].awaiting /\ s.resend = sub[x].resend /\ s.current = v
      BY <1>3, <3>2 DEF SubRec
    <3> HIDE DEF s
    <3>4. sub' \in [Subs -> SubRec] /\ sub'[x] = s /\ \A y \in Subs : y # x => sub'[y] = sub[y]
      BY <1>3, <3>1, <3>3
    <3>5. v # NoValue
      <4>1. v.conn = last /\ last # NoConn
        BY <1>0, <1>2, <2>2, <3>2 DEF ValueInv
      <4> QED
        BY <4>1 DEF NoValue
    <3> QED
      BY <1>3, <2>0, <2>2, <3>2, <3>3, <3>4, <3>5
  <2>3. CASE /\ x \in subs /\ ~sub[x].closed /\ sub[x].current = NoValue /\ sub[x].awaiting = conn
             /\ sub' = [sub EXCEPT ![x].resend = TRUE]
             /\ missed' = [missed EXCEPT ![x] = @ \cup {ver[x] + 1}]
    <3> DEFINE s == [sub[x] EXCEPT !.resend = TRUE]
               m == missed[x] \cup {ver[x] + 1}
    <3>1. sub' = [sub EXCEPT ![x] = s] /\ missed' = [missed EXCEPT ![x] = m]
      BY <1>3, <2>3
    <3>2. m \subseteq 1..MaxVersion /\ m \subseteq 1..ver'[x]
      BY <1>3, <1>4, <2>0
    <3>3. /\ s \in SubRec /\ s.closed = sub[x].closed /\ s.failing = sub[x].failing
          /\ s.awaiting = sub[x].awaiting /\ s.resend /\ s.current = sub[x].current
      BY <1>3 DEF SubRec
    <3> HIDE DEF s, m
    <3>4. sub' \in [Subs -> SubRec] /\ sub'[x] = s /\ \A y \in Subs : y # x => sub'[y] = sub[y]
      BY <1>3, <3>1, <3>3
    <3>5. /\ missed' \in [Subs -> SUBSET (1..MaxVersion)] /\ missed'[x] = m
          /\ \A y \in Subs : y # x => missed'[y] = missed[y]
      BY <1>3, <3>1, <3>2
    <3> QED
      BY <2>3, <3>2, <3>3, <3>4, <3>5
  <2> QED
    BY <1>5, <2>1, <2>2, <2>3
<1>7. /\ Again' = Again /\ Awaiting' = Awaiting /\ Releasing' = Releasing /\ Taken' = Taken
  <2>1. \A y \in Subs : sub'[y].awaiting = sub[y].awaiting
    BY <1>6
  <2> QED
    BY <1>1, <2>1 DEF Again, Awaiting, Releasing, Taken
<1>8. Places' /\ SlotsInv' /\ Holders' = Holders
      /\ Due' = Due /\ Waiting' = Waiting /\ Written' = Written
  BY <1>0, <1>1, <1>5, <1>7, Stays
<1>9. TypeInv'
  BY <1>0, <1>1, <1>4, <1>5, <1>6 DEF TypeInv, TypeOK, SubRec
<1>10. ConnInv'
  BY <1>0, <1>1, <1>2, <1>5 DEF ConnInv
<1>11. NumberInv' /\ EndInv'
  BY <1>0, <1>1, <1>5, <1>6 DEF NumberInv, EndInv
<1>12. NewInv'
  BY <1>0, <1>1, <1>2, <1>5, <1>6, <1>8 DEF NewInv
<1>13. LockInv'
  <2>1. \A y \in Subs : sub'[y].awaiting = sub[y].awaiting
    BY <1>6
  <2> QED
    BY <1>0, <1>1, <1>5, <1>8, <2>1 DEF LockInv
<1>14. \A y \in Subs : (Alive(y)' <=> Alive(y)) /\ (Open(y)' <=> Open(y))
  BY <1>1, <1>6 DEF Alive, Open, Failed
<1>15. OpenInv'
  <2>1. \A y \in Subs : y \notin srvSubs => missed'[y] = missed[y] /\ sub'[y] = sub[y]
    BY <1>1, <1>6
  <2> QED
    BY <1>0, <1>1, <1>3, <1>7, <1>8, <1>14, <2>1 DEF OpenInv
<1>16. ValueInv'
  <2>1. AskInv'
    <3>1. AskInv /\ \A y \in Subs : sub'[y].current = NoValue <=> sub[y].current = NoValue
      BY <1>0, <1>6 DEF ValueInv
    <3> QED
      BY <1>1, <1>3, <1>7, <1>14, <3>1 DEF AskInv
  <2>2. ASSUME NEW y \in subs \cap Patching \cap srvSubs, Alive(y)'
        PROVE  /\ sub'[y].current = NoValue => owed'[y] > 0 /\ (missed'[y] # {} => sub'[y].resend)
               /\ sub'[y].current # NoValue =>
                    /\ \/ missed'[y] \subseteq sub'[y].current.has
                       \/ sub'[y].resend /\ y \in Taken'
                       \/ y \in Awaiting' \/ y \in Written'
                    /\ computed'[y] # NoAnswer => missed'[y] \subseteq 1..computed'[y]
                    /\ sub'[y].resend => y \in Taken'
    <3>1. Alive(y) /\ y \in Subs /\ ~sub[y].closed /\ y \in subs
      BY <1>3, <1>14, <2>2 DEF Alive
    <3>2. /\ sub[y].current = NoValue => owed[y] > 0 /\ (missed[y] # {} => sub[y].resend)
          /\ sub[y].current # NoValue =>
               /\ missed[y] \subseteq sub[y].current.has \/ (sub[y].resend /\ y \in Taken)
                    \/ y \in Awaiting \/ y \in Written
               /\ computed[y] # NoAnswer => missed[y] \subseteq 1..computed[y]
               /\ sub[y].resend => y \in Taken
      BY <1>0, <1>2, <2>2, <3>1 DEF ValueInv
    <3>3. CASE y # x
      BY <1>1, <1>6, <1>7, <1>8, <3>1, <3>2, <3>3
    <3>4. CASE y = x
      BY <1>1, <1>6, <1>7, <1>8, <3>1, <3>2, <3>4
    <3> QED
      BY <3>3, <3>4
  <2>3. \A y \in subs : sub'[y].current # NoValue =>
          sub'[y].current.conn = last /\ (sup.pc = "lose" => y \in sup.todo)
    BY <1>0, <1>2, <1>3, <1>6 DEF ValueInv
  <2>4. \A y \in Subs : missed'[y] \subseteq 1..ver'[y]
    <3>1. \A y \in Subs : y # x => ver'[y] = ver[y]
      BY <1>1, <1>3
    <3> QED
      BY <1>0, <1>6, <3>1 DEF ValueInv
  <2> QED
    BY <1>1, <2>1, <2>2, <2>3, <2>4 DEF ValueInv
<1> QED
  BY <1>8, <1>9, <1>10, <1>11, <1>12, <1>13, <1>15, <1>16, Whole

-----------------------------------------------------------------------------
(* The invariant, and what it gives.                                       *)

\* Initially there is a connection and no subscription.
LEMMA InitHolds ==
  ASSUME Init
  PROVE  SubsInv
<1>0. MaxVersion \in Nat /\ MaxConns \in Nat \ {0} /\ maxSubscribesInFlight \in Nat \ {0}
  BY SubsAssumption
<1>1. /\ conn = 1 /\ last = 1 /\ linkUp = TRUE /\ closed = FALSE /\ subs = {} /\ subInFlight = 0
      /\ subQueue = <<>> /\ subSendMu = Free /\ rd = Idle /\ sup = [pc |-> "up", todo |-> {}]
      /\ srvSubs = {} /\ kept = {}
  BY DEF Init
<1>2. /\ \A x \in Subs : /\ ~sub[x].closed /\ sub[x].current = NoValue /\ sub[x].awaiting = NoConn
                         /\ ~sub[x].resend /\ ~sub[x].failing
                         /\ opening[x] = [pc |-> "new", conn |-> NoConn]
                         /\ ending[x] = [pc |-> "no", aw |-> NoConn]
                         /\ owed[x] = 0 /\ computed[x] = NoAnswer /\ missed[x] = {}
  BY DEF Init
<1>3. Free.by = "nobody" /\ Free.conn = 0 /\ Free.todo = <<>> /\ Idle.pc = "read" /\ Idle.aw = 0
      /\ NoConn = 0 /\ In(<<>>) = {} /\ Distinct(<<>>)
  BY DEF Free, Idle, NoConn, In, Distinct
<1>4. TypeInv
  <2>1. 0 \in Conns0 /\ 1 \in Conns0 /\ NoAnswer \in 0..NoAnswer
    BY <1>0 DEF Conns0, NoAnswer
  <2>2. NoValue \in [conn : Conns0, has : SUBSET (1..MaxVersion)]
    BY <2>1 DEF NoValue, NoConn
  <2>3. sub \in [Subs -> SubRec] /\ opening \in [Subs -> OpenRec] /\ ending \in [Subs -> EndRec]
    BY <2>1, <2>2 DEF Init, SubRec, OpenRec, EndRec, NoConn
  <2>4. Free \in LockRec /\ Idle \in ReaderRec
    BY <2>1 DEF Free, LockRec, Idle, ReaderRec, NoConn
  <2>5. /\ ver \in [Subs -> 0..MaxVersion] /\ owed \in [Subs -> Nat]
        /\ computed \in [Subs -> 0..NoAnswer] /\ missed \in [Subs -> SUBSET (1..MaxVersion)]
    BY <1>0, <2>1 DEF Init
  <2>6. sup \in [pc : {"up", "lose", "resend", "down"}, todo : SUBSET Subs]
    BY <1>1
  <2>7. subInFlight \in 0..maxSubscribesInFlight /\ subQueue \in Seq(Subs)
    BY <1>0, <1>1
  <2>8. TypeOK
    BY <1>1, <1>3, <2>1, <2>3, <2>4, <2>5, <2>6, <2>7
    DEF TypeOK, SubRec, OpenRec, EndRec, LockRec
  <2> QED
    BY <1>1, <1>3, <2>4, <2>8 DEF TypeInv
<1>5. ConnInv /\ NumberInv
  BY <1>1, <1>2, <1>3 DEF ConnInv, NumberInv
<1>6. Due = {} /\ Again = {} /\ Waiting = {} /\ Written = {} /\ Awaiting = {} /\ Taken = {} /\ Releasing = {}
  BY <1>1, <1>2, <1>3 DEF Due, Again, Waiting, Written, Awaiting, Taken, Releasing
<1>7. Holders = {}
  BY <1>6 DEF Holders
<1>8. Places /\ SlotsInv
  <2>1. IsFiniteSet({}) /\ Cardinality({}) = 0
    BY FS_EmptySet
  <2> QED
    BY <1>1, <1>3, <1>6, <1>7, <2>1 DEF Places, Apart, SlotsInv, QueuedOnlyWhenFull
<1>9. LockInv /\ EndInv
  BY <1>1, <1>2, <1>3 DEF LockInv, EndInv
<1>10. NewInv
  BY <1>1, <1>2, <1>3, <1>6 DEF NewInv
<1>11. OpenInv /\ ValueInv
  BY <1>1, <1>2 DEF OpenInv, ValueInv, AskInv
<1> QED
  BY <1>4, <1>5, <1>8, <1>9, <1>10, <1>11 DEF SubsInv, BaseInv, PlaceInv

\* A step that changes nothing.
LEMMA StuttersKeep ==
  ASSUME SubsInv, UNCHANGED vars
  PROVE  SubsInv'
<1>0. /\ TypeInv /\ ConnInv /\ NumberInv /\ LockInv /\ NewInv /\ EndInv
      /\ Places /\ SlotsInv /\ OpenInv /\ ValueInv
  BY Parts
<1>1. UNCHANGED <<conn, last, linkUp, closed, subs, subInFlight, subQueue, subSendMu, sub, opening,
                  ending, rd, sup, ver, srvSubs, kept, owed, computed, missed>>
  BY DEF vars
<1>2. /\ Again' = Again /\ Awaiting' = Awaiting /\ Releasing' = Releasing /\ Taken' = Taken
  BY <1>1 DEF Again, Awaiting, Releasing, Taken
<1>3. Places' /\ SlotsInv' /\ Holders' = Holders
      /\ Due' = Due /\ Waiting' = Waiting /\ Written' = Written
  BY <1>0, <1>1, <1>2, Stays
<1>4. TypeInv'
  BY <1>0, <1>1 DEF TypeInv, TypeOK
<1>5. ConnInv' /\ NumberInv' /\ EndInv'
  BY <1>0, <1>1 DEF ConnInv, NumberInv, EndInv
<1>6. NewInv' /\ LockInv'
  BY <1>0, <1>1, <1>3 DEF NewInv, LockInv
<1>7. \A y \in Subs : (Alive(y)' <=> Alive(y)) /\ (Open(y)' <=> Open(y))
  BY <1>1 DEF Alive, Open, Failed
<1>8. subs \subseteq Subs
  BY <1>0, Types
<1>9. OpenInv'
  BY <1>0, <1>1, <1>2, <1>3, <1>7, <1>8 DEF OpenInv
<1>10. AskInv'
  BY <1>0, <1>1, <1>2, <1>7, <1>8 DEF ValueInv, AskInv
<1>11. ValueInv'
  BY <1>0, <1>1, <1>2, <1>3, <1>7, <1>8, <1>10 DEF ValueInv
<1> QED
  BY <1>3, <1>4, <1>5, <1>6, <1>9, <1>11, Whole

-----------------------------------------------------------------------------
(* The frames that are owed an answer.                                     *)

\* Only x moves.
LEMMA OneMoves ==
  ASSUME FirstInv, KeptInv, NEW x \in Subs, subs \subseteq Subs,
         subs' \subseteq subs \cup {x}, conn' = conn, kept' \ {x} \subseteq kept,
         kept \subseteq kept' \cup {x},
         \A y \in Subs : y # x => sub'[y] = sub[y] /\ owed'[y] = owed[y],
         x \in subs' /\ owed'[x] > 0 /\ x \notin kept' => owed'[x] = 1 /\ sub'[x].awaiting = conn,
         x \in subs' /\ x \in Patching /\ x \in kept' => sub'[x].closed \/ sub'[x].current # NoValue
  PROVE  FirstInv' /\ KeptInv'
<1>1. ASSUME NEW y \in subs', owed'[y] > 0, y \notin kept'
      PROVE  owed'[y] = 1 /\ sub'[y].awaiting = conn
  BY <1>1 DEF FirstInv
<1>2. ASSUME NEW y \in subs' \cap Patching \cap kept'
      PROVE  sub'[y].closed \/ sub'[y].current # NoValue
  BY <1>2 DEF KeptInv
<1> QED
  BY <1>1, <1>2 DEF FirstInv, KeptInv

\* Nobody moves.
LEMMA NobodyMoves ==
  ASSUME FirstInv, KeptInv, UNCHANGED <<subs, conn, kept, sub, owed>>
  PROVE  FirstInv' /\ KeptInv'
BY DEF FirstInv, KeptInv

\* Nothing is owed, on a connection that is new or down.
LEMMA NothingOwed ==
  ASSUME subs' \subseteq Subs, \A y \in Subs : owed'[y] = 0, kept' = {}
  PROVE  FirstInv' /\ KeptInv'
BY DEF FirstInv, KeptInv

\* A connection that is down has nothing.
LEMMA DownOwesNothing ==
  ASSUME SubsInv, ~linkUp
  PROVE  (\A y \in Subs : owed[y] = 0) /\ kept = {}
BY Parts DEF ConnInv, TypeInv, TypeOK

\* closeWith.
LEMMA CloseMoves ==
  ASSUME SubsInv, FirstInv, KeptInv, NEW x \in Subs, closeWith(x),
         UNCHANGED <<subs, conn>>, kept' \ {x} \subseteq kept, kept \subseteq kept' \cup {x},
         \A y \in Subs : y # x => owed'[y] = owed[y],
         x \in subs /\ owed'[x] > 0 /\ x \notin kept' => owed'[x] = owed[x] /\ x \notin kept
  PROVE  FirstInv' /\ KeptInv'
<1>1. /\ \A y \in Subs : y # x => sub'[y] = sub[y]
      /\ sub'[x].closed /\ sub'[x].awaiting = sub[x].awaiting /\ subs \subseteq Subs
  BY Parts, CloseFields, Types
<1>2. x \in subs' /\ owed'[x] > 0 /\ x \notin kept' => owed'[x] = 1 /\ sub'[x].awaiting = conn
  BY <1>1 DEF FirstInv
<1> QED
  BY <1>1, <1>2, OneMoves

\* What a result of a refresh, or an answer, does to x.
LEMMA DeliveredMoves ==
  ASSUME SubsInv, FirstInv, KeptInv, NEW x \in Subs, NEW v \in 0..MaxVersion, Delivered(x, v), Meets,
         UNCHANGED <<table, conn>>, kept' \ {x} \subseteq kept, kept \subseteq kept' \cup {x},
         \A y \in Subs : y # x => owed'[y] = owed[y],
         x \in subs => owed'[x] = 0 \/ x \in kept'
  PROVE  FirstInv' /\ KeptInv'
<1>0. subs' = subs /\ subs \subseteq Subs
  BY Parts, Types DEF table
<1>1. CASE x \notin subs
  <2>1. sub' = sub
    BY <1>1 DEF Delivered
  <2> QED
    BY <1>0, <1>1, <2>1, OneMoves
<1>2. CASE x \in subs
  <2>1. \A y \in Subs : y # x => sub'[y] = sub[y]
    BY <1>2, DeliveredFields
  <2>2. sub'[x].closed = sub[x].closed
    BY <1>2, DeliveredFields
  <2>3. x \in Patching /\ ~sub[x].closed => sub'[x].current # NoValue
    BY <1>2, DeliveredValue
  <2>4. ~(owed'[x] > 0 /\ x \notin kept')
    BY <1>2
  <2> QED
    BY <1>0, <2>1, <2>2, <2>3, <2>4, OneMoves
<1> QED
  BY <1>1, <1>2

\* An answer to the only frame of x that is owed one, or to a frame of a
\* subscription the server keeps.
LEMMA AnswerMoves ==
  ASSUME SubsInv, FirstInv, NEW x \in Subs, ServerAnswers(x)
  PROVE  /\ kept' \ {x} \subseteq kept /\ kept \subseteq kept' \cup {x}
         /\ \A y \in Subs : y # x => owed'[y] = owed[y]
         /\ x \in subs => owed'[x] = 0 \/ x \in kept'
<1>1. /\ \A y \in Subs : y # x => owed'[y] = owed[y]
      /\ owed'[x] = owed[x] - 1 /\ owed[x] > 0
  BY AnswerCounts DEF ServerAnswers
<1>2. x \in subs => owed[x] = 1 \/ x \in kept
  BY <1>1 DEF FirstInv
<1> QED
  BY <1>1, <1>2 DEF ServerAnswers

\* A result that does not decode.
LEMMA UndecodableMoves ==
  ASSUME SubsInv, FirstInv, KeptInv, NEW x \in subs, Undecodable(x), Meets,
         UNCHANGED <<table, conn>>, kept' \ {x} \subseteq kept, kept \subseteq kept' \cup {x},
         \A y \in Subs : y # x => owed'[y] = owed[y],
         owed'[x] = 0 \/ x \in kept'
  PROVE  FirstInv' /\ KeptInv'
<1>0. x \in Subs /\ 0 \in 0..MaxVersion /\ subs' = subs
  BY Parts, Types DEF table
<1>1. CASE sub[x].closed
  BY <1>0, <1>1, DeliveredMoves DEF Undecodable
<1>2. CASE ~sub[x].closed
  <2>1. closeWith(x)
    BY <1>2 DEF Undecodable
  <2>2. ~(owed'[x] > 0 /\ x \notin kept')
    OBVIOUS
  <2> QED
    BY <1>0, <2>1, <2>2, CloseMoves
<1> QED
  BY <1>1, <1>2

\* The write of a frame.
LEMMA WriteMoves ==
  ASSUME SubsInv, FirstInv, KeptInv, writeSubscribe
  PROVE  FirstInv' /\ KeptInv'
<1>0. TypeInv /\ ConnInv /\ LockInv /\ Places
  BY Parts
<1> DEFINE x == Head(subSendMu.todo)
           c == subSendMu.conn
<1>1. /\ subSendMu.todo # <<>>
      /\ \E f \in BOOLEAN : sub' = [sub EXCEPT ![x] = [sub[x] EXCEPT !.awaiting = c, !.failing = f]]
      /\ \/ owed' = owed
         \/ linkUp /\ conn = c /\ owed' = [owed EXCEPT ![x] = owed[x] + 1]
      /\ UNCHANGED <<conn, subs, kept>>
  <2>1. sub \in [Subs -> SubRec]
    BY <1>0, Types
  <2>2. subSendMu.todo \in Seq(Subs) /\ subSendMu.todo # <<>>
    BY <1>0, Types DEF writeSubscribe, LockRec
  <2>3. x \in Subs /\ sub[x] \in SubRec
    BY <2>1, <2>2
  <2>4. [sub[x] EXCEPT !.awaiting = c] = [sub[x] EXCEPT !.awaiting = c, !.failing = sub[x].failing]
    BY <2>3 DEF SubRec
  <2>5. sub[x].failing \in BOOLEAN /\ TRUE \in BOOLEAN
    BY <2>3 DEF SubRec
  <2>6. \/ sub' = [sub EXCEPT ![x] = [sub[x] EXCEPT !.awaiting = c]]
        \/ sub' = [sub EXCEPT ![x] = [sub[x] EXCEPT !.awaiting = c, !.failing = TRUE]]
    BY <2>1 DEF writeSubscribe
  <2> QED
    BY <2>2, <2>4, <2>5, <2>6 DEF writeSubscribe, table
<1>2. /\ subSendMu.todo \in Seq(Subs) /\ x \in In(subSendMu.todo) /\ x \in Subs /\ c # NoConn
      /\ subs \subseteq Subs /\ subSendMu # Free
  <2>1. /\ subSendMu.todo \in Seq(Subs) /\ subs \subseteq Subs
    BY <1>0, Types DEF LockRec
  <2>2. 1 \in 1..Len(subSendMu.todo) /\ x = subSendMu.todo[1] /\ x \in Subs
    BY <1>1, <2>1
  <2> QED
    BY <1>0, <1>1, <2>1, <2>2 DEF In, LockInv
<1>3. /\ sub'[x].awaiting = c /\ sub'[x].closed = sub[x].closed /\ sub'[x].current = sub[x].current
      /\ \A y \in Subs : y # x => sub'[y] = sub[y]
      /\ \A y \in Subs : y # x => owed'[y] = owed[y]
      /\ owed \in [Subs -> Nat]
      /\ owed'[x] = owed[x] \/ (linkUp /\ conn = c /\ owed'[x] = owed[x] + 1)
  <2>1. sub \in [Subs -> SubRec] /\ owed \in [Subs -> Nat]
    BY <1>0, Types DEF TypeInv, TypeOK
  <2>2. PICK f \in BOOLEAN : sub' = [sub EXCEPT ![x] = [sub[x] EXCEPT !.awaiting = c, !.failing = f]]
    BY <1>1
  <2> DEFINE s == [sub[x] EXCEPT !.awaiting = c, !.failing = f]
  <2>3. sub[x] \in SubRec
    BY <1>2, <2>1
  <2>4. s.awaiting = c /\ s.closed = sub[x].closed /\ s.current = sub[x].current
    BY <2>3 DEF SubRec
  <2> HIDE DEF s, x, c
  <2>5. sub'[x] = s /\ \A y \in Subs : y # x => sub'[y] = sub[y]
    BY <1>2, <2>1, <2>2 DEF s
  <2> QED
    BY <1>1, <1>2, <2>1, <2>4, <2>5
<1> HIDE DEF x, c
<1>4. CASE conn = c
  <2>1. x \notin Awaiting
    BY <1>0, <1>2, <1>4 DEF Places, Apart, Written, c
  <2>2. x \in subs /\ x \notin kept => owed[x] = 0
    <3>1. sub[x].awaiting # conn /\ owed[x] \in Nat
      BY <1>2, <1>3, <2>1 DEF Awaiting
    <3> QED
      BY <3>1 DEF FirstInv
  <2>3. x \in subs /\ x \notin kept /\ owed'[x] > 0 => owed'[x] = 1
    BY <1>3, <2>2
  <2>4. x \in subs /\ x \in Patching /\ x \in kept => sub'[x].closed \/ sub'[x].current # NoValue
    BY <1>3 DEF KeptInv
  <2> QED
    BY <1>1, <1>2, <1>3, <1>4, <2>3, <2>4, OneMoves
<1>5. CASE conn # c
  <2>1. owed' = owed
    BY <1>1, <1>5
  <2>2. (\A y \in Subs : owed[y] = 0) /\ kept = {}
    <3>1. CASE conn = NoConn
      BY <1>0, <3>1, DownOwesNothing DEF ConnInv
    <3>2. CASE conn # NoConn
      BY <1>0, <1>2, <1>5, <3>2 DEF LockInv, TypeInv, TypeOK, c
    <3> QED
      BY <3>1, <3>2
  <2> QED
    BY <1>1, <1>2, <2>1, <2>2, NothingOwed
<1> QED
  BY <1>4, <1>5

\* The supervisor's steps, and the end of a connection.
LEMMA ConnMoves ==
  ASSUME SubsInv, FirstInv, KeptInv,
         \/ Break \/ markDisconnected \/ markConnected \/ resendDone \/ shutdown
         \/ \E x \in Subs : connLost(x)
  PROVE  FirstInv' /\ KeptInv'
<1>0. subs \subseteq Subs /\ (sup.pc = "lose" => ~linkUp)
  BY Parts, Types DEF ConnInv
<1>1. CASE Break \/ shutdown
  <2>1. subs' \subseteq subs /\ (\A y \in Subs : owed'[y] = 0) /\ kept' = {}
    BY <1>1 DEF Break, shutdown, table
  <2> QED
    BY <1>0, <2>1, NothingOwed
<1>2. CASE markDisconnected \/ markConnected \/ \E x \in Subs : connLost(x)
  <2>1. ~linkUp /\ UNCHANGED <<subs, owed, kept>>
    BY <1>0, <1>2 DEF markDisconnected, markConnected, connLost, table, srvVars
  <2> QED
    BY <1>0, <2>1, DownOwesNothing, NothingOwed
<1>3. CASE resendDone
  BY <1>3, NobodyMoves DEF resendDone, table, srvVars
<1> QED
  BY <1>1, <1>2, <1>3

\* Subscribe and the steps of end.
LEMMA ApplicationMoves ==
  ASSUME SubsInv, FirstInv, KeptInv, NEW x \in Subs,
         \/ Subscribe(x) \/ SubscribeSends(x)
         \/ endBegins(x) \/ endUnsubscribes(x) \/ endTakes(x) \/ endReleases(x)
  PROVE  FirstInv' /\ KeptInv'
<1>0. /\ subs \subseteq Subs /\ sub \in [Subs -> SubRec] /\ owed \in [Subs -> Nat]
      /\ kept \subseteq srvSubs
  BY Parts, Types DEF TypeInv, TypeOK
<1>1. CASE Subscribe(x)
  <2>1. owed[x] = 0 /\ x \notin kept
    BY <1>0, <1>1, Parts DEF Subscribe, NewInv
  <2>2. /\ subs' \subseteq subs \cup {x} /\ UNCHANGED <<conn, kept, owed>>
        /\ \A y \in Subs : y # x => sub'[y] = sub[y]
    BY <1>0, <1>1 DEF Subscribe, srvVars
  <2> QED
    BY <1>0, <2>1, <2>2, OneMoves
<1>2. CASE SubscribeSends(x) \/ endReleases(x)
  BY <1>2, NobodyMoves DEF SubscribeSends, endReleases, srvVars
<1>3. CASE endBegins(x)
  BY <1>3, CloseMoves DEF endBegins, table, srvVars
<1>4. CASE endUnsubscribes(x)
  <2>1. /\ subs' = subs \ {x} /\ UNCHANGED <<conn, sub, owed>>
        /\ kept' \subseteq kept /\ kept \subseteq kept' \cup {x}
    BY <1>4 DEF endUnsubscribes
  <2> QED
    BY <1>0, <2>1, OneMoves
<1>5. CASE endTakes(x)
  <2>1. x \notin subs
    BY <1>5, Parts DEF endTakes, EndInv
  <2>2. /\ UNCHANGED <<subs, conn, kept, owed>> /\ \A y \in Subs : y # x => sub'[y] = sub[y]
    BY <1>0, <1>5 DEF endTakes, table, srvVars
  <2> QED
    BY <1>0, <2>1, <2>2, OneMoves
<1> QED
  BY <1>1, <1>2, <1>3, <1>4, <1>5

\* What the reader receives.
LEMMA ReaderMoves ==
  ASSUME SubsInv, FirstInv, KeptInv, NEW x \in Subs,
         \/ deliverAnswer(x) \/ deliverRefresh(x) \/ deliverUndecodable(x)
         \/ refreshUndecodable(x) \/ errorAnswers(x) \/ errorRefresh(x)
  PROVE  FirstInv' /\ KeptInv'
<1>0. /\ subs \subseteq Subs /\ sub \in [Subs -> SubRec] /\ owed \in [Subs -> Nat]
      /\ computed \in [Subs -> 0..NoAnswer] /\ ver \in [Subs -> 0..MaxVersion]
      /\ NoAnswer = MaxVersion + 1 /\ MaxVersion \in Nat
  BY Parts, Types DEF TypeInv, TypeOK
<1>1. CASE deliverAnswer(x)
  <2>1. computed[x] \in 0..MaxVersion
    BY <1>0, <1>1 DEF deliverAnswer, ServerAnswers
  <2> QED
    BY <1>1, <2>1, AnswerMoves, DeliveredMoves DEF deliverAnswer
<1>2. CASE deliverRefresh(x)
  <2>1. ver[x] + 1 \in 0..MaxVersion
    BY <1>0, <1>2 DEF deliverRefresh
  <2> QED
    BY <1>2, <2>1, DeliveredMoves DEF deliverRefresh
<1>3. CASE deliverUndecodable(x)
  BY <1>3, AnswerMoves, UndecodableMoves DEF deliverUndecodable
<1>4. CASE refreshUndecodable(x)
  BY <1>4, UndecodableMoves DEF refreshUndecodable, srvVars
<1>5. CASE errorAnswers(x) \/ errorRefresh(x)
  <2>1. /\ UNCHANGED <<subs, conn, kept>> /\ \A y \in Subs : y # x => sub'[y] = sub[y]
        /\ sub'[x].closed = sub[x].closed /\ sub'[x].current = sub[x].current
    <3>1. sub' = sub \/ sub' = [sub EXCEPT ![x] = [sub[x] EXCEPT !.awaiting = NoConn]]
      BY <1>0, <1>5 DEF errorAnswers, errorRefresh
    <3>2. sub[x] \in SubRec
      BY <1>0
    <3> DEFINE s == [sub[x] EXCEPT !.awaiting = NoConn]
    <3>3. s.closed = sub[x].closed /\ s.current = sub[x].current
      BY <3>2 DEF SubRec
    <3> HIDE DEF s
    <3>4. sub' = sub \/ sub' = [sub EXCEPT ![x] = s]
      BY <3>1 DEF s
    <3> QED
      BY <1>0, <1>5, <3>3, <3>4 DEF errorAnswers, errorRefresh, table, srvVars
  <2>2. /\ \A y \in Subs : y # x => owed'[y] = owed[y]
        /\ x \in subs => owed'[x] = 0 \/ x \in kept
    <3>1. CASE errorAnswers(x)
      <4>1. /\ \A y \in Subs : y # x => owed'[y] = owed[y]
            /\ owed'[x] = owed[x] - 1 /\ owed[x] > 0
        BY <3>1, AnswerCounts DEF errorAnswers
      <4> QED
        BY <4>1 DEF FirstInv
    <3>2. CASE errorRefresh(x)
      BY <3>2 DEF errorRefresh, srvVars
    <3> QED
      BY <1>5, <3>1, <3>2
  <2>3. x \in subs /\ x \in Patching /\ x \in kept => sub'[x].closed \/ sub'[x].current # NoValue
    BY <2>1 DEF KeptInv
  <2>4. x \in subs => ~(owed'[x] > 0 /\ x \notin kept)
    BY <2>2
  <2> QED
    BY <1>0, <2>1, <2>2, <2>3, <2>4, OneMoves
<1> QED
  BY <1>1, <1>2, <1>3, <1>4, <1>5

\* A patch moves nothing: the value stays one.
LEMMA PatchMoves ==
  ASSUME SubsInv, FirstInv, KeptInv, NEW x \in Subs, patch(x) \/ patchFails(x)
  PROVE  FirstInv' /\ KeptInv'
<1>0. TypeInv /\ ConnInv /\ ValueInv /\ sub \in [Subs -> SubRec] /\ subs \subseteq Subs /\ sub[x] \in SubRec
  BY Parts, Types
<1>1. CASE patchFails(x)
  BY <1>1, CloseMoves DEF patchFails, table
<1>2. CASE patch(x)
  <2>1. UNCHANGED <<subs, conn, kept, owed>>
    BY <1>2 DEF patch
  <2>2. CASE sub' = sub
    BY <2>1, <2>2, NobodyMoves
  <2>3. CASE sub' = [sub EXCEPT ![x].resend = TRUE]
    <3> DEFINE s == [sub[x] EXCEPT !.resend = TRUE]
    <3>1. sub' = [sub EXCEPT ![x] = s]
      BY <1>0, <2>3
    <3>2. s.awaiting = sub[x].awaiting /\ s.closed = sub[x].closed /\ s.current = sub[x].current
      BY <1>0 DEF SubRec
    <3> HIDE DEF s
    <3>3. sub'[x] = s /\ \A y \in Subs : y # x => sub'[y] = sub[y]
      BY <1>0, <3>1
    <3>4. x \in subs /\ owed[x] > 0 /\ x \notin kept => owed[x] = 1 /\ sub'[x].awaiting = conn
      BY <3>2, <3>3 DEF FirstInv
    <3>5. x \in subs /\ x \in Patching /\ x \in kept => sub'[x].closed \/ sub'[x].current # NoValue
      BY <3>2, <3>3 DEF KeptInv
    <3> QED
      BY <1>0, <2>1, <3>3, <3>4, <3>5, OneMoves
  <2>4. CASE /\ x \in subs /\ sub[x].current # NoValue
             /\ sub' = [sub EXCEPT ![x].current.has = @ \cup {ver[x] + 1}]
    <3> DEFINE v == [sub[x].current EXCEPT !.has = @ \cup {ver[x] + 1}]
               s == [sub[x] EXCEPT !.current = v]
    <3>1. sub' = [sub EXCEPT ![x] = s]
      BY <1>0, <2>4 DEF SubRec
    <3>2. v.conn = sub[x].current.conn /\ sub[x].current.conn = last /\ last >= 1 /\ last \in Nat
      BY <1>0, <2>4, Types DEF SubRec, ValueInv, ConnInv
    <3>3. v # NoValue
      BY <3>2 DEF NoValue, NoConn
    <3> HIDE DEF v
    <3>4. s.awaiting = sub[x].awaiting /\ s.current = v
      BY <1>0 DEF SubRec
    <3> HIDE DEF s
    <3>5. sub'[x] = s /\ \A y \in Subs : y # x => sub'[y] = sub[y]
      BY <1>0, <3>1
    <3>6. x \in subs /\ owed[x] > 0 /\ x \notin kept => owed[x] = 1 /\ sub'[x].awaiting = conn
      BY <3>4, <3>5 DEF FirstInv
    <3> QED
      BY <1>0, <2>1, <3>3, <3>4, <3>5, <3>6, OneMoves
  <2>5. CASE x \in subs /\ ~sub[x].closed /\ sub[x].current = NoValue /\ sub[x].awaiting # conn
    BY <1>2, <2>2, <2>5 DEF patch, resubscribe
  <2> QED
    BY <1>2, <2>2, <2>3, <2>4, <2>5 DEF patch, resubscribe
<1> QED
  BY <1>1, <1>2

\* What the reader does next.
LEMMA HandlerMoves ==
  ASSUME SubsInv, FirstInv, KeptInv, endReturns \/ answered \/ errorFails \/ errorEnds
  PROVE  FirstInv' /\ KeptInv'
<1>0. TypeInv /\ sub \in [Subs -> SubRec] /\ subs \subseteq Subs
  BY Parts, Types
<1>1. CASE endReturns \/ errorFails
  BY <1>1, NobodyMoves DEF endReturns, errorFails, table, srvVars
<1>2. CASE errorEnds
  <2>1. rd.x \in Subs /\ UNCHANGED <<subs, conn, kept, owed>>
    BY <1>0, <1>2 DEF errorEnds, TypeInv, table, srvVars
  <2>2. CASE sub' = sub
    BY <2>1, <2>2, NobodyMoves
  <2>3. CASE closeWith(rd.x)
    BY <2>1, <2>3, CloseMoves
  <2> QED
    BY <1>2, <2>2, <2>3 DEF errorEnds
<1>3. CASE answered
  <2> DEFINE x == rd.x
             s == [sub[x] EXCEPT !.resend = FALSE]
  <2>1. x \in Subs /\ UNCHANGED <<subs, conn, kept, owed>> /\ sub' = [sub EXCEPT ![x] = s]
    BY <1>0, <1>3 DEF answered, TypeInv, srvVars
  <2>2. sub[x] \in SubRec
    BY <1>0, <2>1
  <2> HIDE DEF x
  <2>3. s.awaiting = sub[x].awaiting /\ s.closed = sub[x].closed /\ s.current = sub[x].current
    BY <2>2 DEF SubRec
  <2> HIDE DEF s
  <2>4. sub'[x] = s /\ \A y \in Subs : y # x => sub'[y] = sub[y]
    BY <1>0, <2>1
  <2>5. x \in subs /\ owed[x] > 0 /\ x \notin kept => owed[x] = 1 /\ sub'[x].awaiting = conn
    BY <2>3, <2>4 DEF FirstInv
  <2>6. x \in subs /\ x \in Patching /\ x \in kept => sub'[x].closed \/ sub'[x].current # NoValue
    BY <2>3, <2>4 DEF KeptInv
  <2> QED
    BY <1>0, <2>1, <2>4, <2>5, <2>6, OneMoves
<1> QED
  BY <1>1, <1>2, <1>3

\* Every step keeps it.
LEMMA FirstKeeps ==
  ASSUME SubsInv, FirstInv, KeptInv, [Next]_vars
  PROVE  FirstInv' /\ KeptInv'
<1>1. CASE UNCHANGED vars
  BY <1>1, NobodyMoves DEF vars
<1>2. CASE writeSubscribe \/ endReturns \/ answered \/ errorFails \/ errorEnds
  BY <1>2, WriteMoves, HandlerMoves
<1>3. CASE Break \/ markDisconnected \/ markConnected \/ resendDone \/ shutdown
  BY <1>3, ConnMoves
<1>4. ASSUME NEW x \in Subs,
             \/ Subscribe(x) \/ SubscribeSends(x)
             \/ endBegins(x) \/ endUnsubscribes(x) \/ endTakes(x) \/ endReleases(x)
      PROVE  FirstInv' /\ KeptInv'
  BY <1>4, ApplicationMoves
<1>5. ASSUME NEW x \in Subs,
             \/ deliverAnswer(x) \/ deliverRefresh(x) \/ deliverUndecodable(x)
             \/ refreshUndecodable(x) \/ errorAnswers(x) \/ errorRefresh(x)
      PROVE  FirstInv' /\ KeptInv'
  BY <1>5, ReaderMoves
<1>6. ASSUME NEW x \in Subs, ServerComputes(x) \/ patch(x) \/ patchFails(x) \/ connLost(x) \/ resend(x)
      PROVE  FirstInv' /\ KeptInv'
  <2>1. CASE ServerComputes(x) \/ resend(x)
    BY <2>1, NobodyMoves DEF ServerComputes, resend, table, srvVars
  <2> QED
    BY <1>6, <2>1, PatchMoves, ConnMoves
<1> QED
  BY <1>1, <1>2, <1>3, <1>4, <1>5, <1>6 DEF Next

\* Every step keeps the invariant.
LEMMA NextKeeps ==
  ASSUME SubsInv, FirstInv, KeptInv, [Next]_vars
  PROVE  SubsInv'
<1>1. CASE UNCHANGED vars
  BY <1>1, StuttersKeep
<1>2. CASE writeSubscribe \/ endReturns \/ answered \/ errorFails \/ errorEnds
  BY <1>2, writeSubscribeKeeps, endReturnsKeeps, answeredKeeps, errorFailsKeeps, errorEndsKeeps
<1>3. CASE Break \/ markDisconnected \/ markConnected \/ resendDone \/ shutdown
  BY <1>3, BreakKeeps, markDisconnectedKeeps, markConnectedKeeps, resendDoneKeeps, shutdownKeeps
<1>4. ASSUME NEW x \in Subs,
             \/ Subscribe(x) \/ SubscribeSends(x)
             \/ endBegins(x) \/ endUnsubscribes(x) \/ endTakes(x) \/ endReleases(x)
      PROVE  SubsInv'
  BY <1>4, SubscribeKeeps, SubscribeSendsKeeps, endBeginsKeeps, endUnsubscribesKeeps,
     endTakesKeeps, endReleasesKeeps
<1>5. ASSUME NEW x \in Subs,
             \/ ServerComputes(x) \/ deliverAnswer(x) \/ deliverRefresh(x)
             \/ deliverUndecodable(x) \/ refreshUndecodable(x)
             \/ errorAnswers(x) \/ errorRefresh(x)
      PROVE  SubsInv'
  BY <1>5, ServerComputesKeeps, deliverAnswerKeeps, deliverRefreshKeeps, deliverUndecodableKeeps,
     refreshUndecodableKeeps, errorAnswersKeeps, errorRefreshKeeps
<1>6. ASSUME NEW x \in Subs, patch(x) \/ patchFails(x) \/ connLost(x) \/ resend(x)
      PROVE  SubsInv'
  BY <1>6, patchKeeps, patchFailsKeeps, connLostKeeps, resendKeeps
<1> QED
  BY <1>1, <1>2, <1>3, <1>4, <1>5, <1>6 DEF Next

\* The inductive invariant: on the current connection a subscription is in one
\* place, every place that holds a slot is counted, and what the server knows,
\* owes and has sent agrees with it.  While a subscription awaits an answer the
\* server owes it one; the converse holds of its first frame on a connection
\* only, since a refresh's result may take the slot of a later one.
THEOREM SubsInvariant == Spec => [](SubsInv /\ FirstInv /\ KeptInv)
<1>1. Init => SubsInv /\ FirstInv /\ KeptInv
  BY InitHolds DEF Init, FirstInv, KeptInv
<1>2. (SubsInv /\ FirstInv /\ KeptInv) /\ [Next]_vars => (SubsInv /\ FirstInv /\ KeptInv)'
  BY NextKeeps, FirstKeeps
<1> QED
  BY <1>1, <1>2, PTL DEF Spec

\* The slots are neither exceeded nor leaked: their count is the number of
\* subscriptions whose awaiting is set, that are being written or are in the
\* hands of a goroutine that will release them (subscription.go:25), nobody
\* queues while a slot is free, and no more first frames than there are slots
\* wait for an answer.  Frames that are sent again are not bounded by it: a
\* refresh's result may release their slot early.
THEOREM SlotsAlwaysSound == Spec => []SlotsSound
<1>1. ASSUME SubsInv, FirstInv PROVE SlotsSound
  <2>0. TypeInv /\ Places /\ SlotsInv
    BY <1>1, Parts
  <2>1. TypeOK /\ QueuedOnlyWhenFull
    BY <2>0 DEF TypeInv, SlotsInv
  <2>2. SlotsAccounted
    <3> SUFFICES ASSUME conn # NoConn
                 PROVE  subInFlight = Cardinality(Awaiting) + Cardinality(Releasing)
                          + (IF rd.pc \in {"answered", "failed"} /\ rd.aw = conn THEN 1 ELSE 0)
                          + (IF subSendMu.conn = conn THEN Len(subSendMu.todo) ELSE 0)
      BY DEF SlotsAccounted, Awaiting, Releasing
    <3>1. Apart /\ IsFiniteSet(Holders) /\ subInFlight = Cardinality(Holders)
      BY <2>0 DEF Places, SlotsInv
    <3>2. IsFiniteSet(Awaiting) /\ IsFiniteSet(Releasing)
      <4>1. Awaiting \subseteq Holders /\ Releasing \subseteq Holders
        BY DEF Holders
      <4> QED
        BY <3>1, <4>1, FS_Subset
    <3>3. /\ IsFiniteSet(Taken)
          /\ Cardinality(Taken) = IF rd.pc \in {"answered", "failed"} /\ rd.aw = conn THEN 1 ELSE 0
      BY FS_EmptySet, FS_Singleton DEF Taken
    <3>4. /\ IsFiniteSet(Written)
          /\ Cardinality(Written) = IF subSendMu.conn = conn THEN Len(subSendMu.todo) ELSE 0
      <4>1. subSendMu.todo \in Seq(Subs)
        BY <2>0, Types DEF LockRec
      <4>2. CASE subSendMu.conn = conn
        BY <2>0, <4>1, <4>2, DistinctCard DEF Places, Written
      <4>3. CASE subSendMu.conn # conn
        BY <4>3, FS_EmptySet DEF Written
      <4> QED
        BY <4>2, <4>3
    <3>5. Awaiting \cap Releasing = {} /\ (Awaiting \cup Releasing) \cap Taken = {}
          /\ (Awaiting \cup Releasing \cup Taken) \cap Written = {}
      BY <3>1 DEF Apart
    <3> DEFINE A == Awaiting \cup Releasing
               B == A \cup Taken
    <3>6. IsFiniteSet(A) /\ Cardinality(A) = Cardinality(Awaiting) + Cardinality(Releasing)
          /\ Cardinality(Awaiting) \in Nat /\ Cardinality(Releasing) \in Nat
      BY <3>2, <3>5, UnionCard
    <3>7. IsFiniteSet(B) /\ Cardinality(B) = Cardinality(A) + Cardinality(Taken)
          /\ Cardinality(Taken) \in Nat
      BY <3>3, <3>5, <3>6, UnionCard
    <3>8. Cardinality(B \cup Written) = Cardinality(B) + Cardinality(Written)
          /\ Cardinality(Written) \in Nat
      BY <3>4, <3>5, <3>7, UnionCard
    <3>9. Holders = B \cup Written
      BY DEF Holders
    <3> HIDE DEF A, B
    <3> QED
      BY <3>1, <3>3, <3>4, <3>6, <3>7, <3>8, <3>9
  <2>3. FirstFramesCapped
    <3> DEFINE F == {x \in subs : owed[x] > 0 /\ x \notin kept}
    <3>1. CASE linkUp
      <4>1. conn # NoConn
        BY <1>1, <3>1, Parts, Types DEF ConnInv
      <4>2. IsFiniteSet(Holders) /\ subInFlight = Cardinality(Holders)
        BY <2>0, <4>1 DEF SlotsInv
      <4>3. F \subseteq Holders
        BY <1>1, <2>0, Types DEF FirstInv, Holders, Awaiting
      <4>4. Cardinality(F) <= Cardinality(Holders)
        BY <4>2, <4>3, FS_Subset
      <4>5. IsFiniteSet(F)
        BY <4>2, <4>3, FS_Subset
      <4>6. Cardinality(F) \in Nat /\ subInFlight \in Nat /\ subInFlight <= maxSubscribesInFlight
            /\ maxSubscribesInFlight \in Nat
        BY <2>0, <4>5, FS_CardinalityType, Types
      <4> QED
        BY <4>2, <4>4, <4>6 DEF FirstFramesCapped
    <3>2. CASE ~linkUp
      <4>1. F = {}
        BY <1>1, <2>0, <3>2, DownOwesNothing, Types
      <4> QED
        BY <4>1, FS_EmptySet, SubsAssumption DEF FirstFramesCapped
    <3> QED
      BY <3>1, <3>2
  <2> QED
    BY <2>1, <2>2, <2>3 DEF SlotsSound
<1> QED
  BY <1>1, SubsInvariant, PTL

\* Exactly one side sends each subscribe frame (client.go:581): an open
\* subscription is known to the server of the current connection or due to be
\* sent to it, it is queued at most once, and not while its frame is on the way.
THEOREM EachIsSentOnce == Spec => []EachSubscribeSent
<1>1. ASSUME SubsInv PROVE EachSubscribeSent
  <2>0. TypeInv /\ ConnInv /\ Places /\ OpenInv
    BY <1>1, Parts
  <2>1. subs \subseteq Subs /\ subQueue \in Seq(Subs) /\ Len(subQueue) \in Nat
    BY <2>0, Types
  <2>2. OpenIsKnownOrDue
    <3> SUFFICES ASSUME conn # NoConn, linkUp, NEW x \in subs, Alive(x)
                 PROVE  \/ x \in srvSubs \/ Queued(x)
                        \/ opening[x].pc = "send" /\ opening[x].conn = conn
                        \/ sup.pc = "resend" /\ x \in sup.todo
                        \/ \E i \in 1..Len(subSendMu.todo) : subSendMu.todo[i] = x
      BY DEF OpenIsKnownOrDue, Alive, Failed
    <3>1. x \in srvSubs \cup Due \cup Again \cup Waiting \cup Written
      BY <2>0 DEF OpenInv
    <3>2. x \in Waiting => Queued(x)
      BY DEF Waiting, In, Queued
    <3>3. x \in Written => \E i \in 1..Len(subSendMu.todo) : subSendMu.todo[i] = x
      BY DEF Written, In
    <3>4. x \in Due => opening[x].pc = "send" /\ opening[x].conn = conn
      BY DEF Due
    <3>5. x \in Again => sup.pc = "resend" /\ x \in sup.todo
      BY DEF Again
    <3> QED
      BY <3>1, <3>2, <3>3, <3>4, <3>5
  <2>3. QueuedOnce
    <3> SUFFICES ASSUME NEW x \in subs, Queued(x)
                 PROVE  /\ Cardinality({i \in 1..Len(subQueue) : subQueue[i] = x}) = 1
                        /\ sub[x].awaiting # conn
      BY DEF QueuedOnce
    <3>1. PICK k \in 1..Len(subQueue) : subQueue[k] = x
      BY DEF Queued
    <3>2. conn # NoConn
      BY <2>0, <3>1 DEF ConnInv
    <3>3. Distinct(subQueue) /\ Waiting \cap Awaiting = {}
      BY <2>0, <3>2 DEF Places, Apart, Holders
    <3>4. {i \in 1..Len(subQueue) : subQueue[i] = x} = {k}
      BY <3>1, <3>3 DEF Distinct
    <3>5. x \in Waiting
      BY <3>1 DEF Waiting, In
    <3>6. sub[x].awaiting # conn
      BY <2>1, <3>3, <3>5 DEF Awaiting
    <3> QED
      BY <3>4, <3>6, FS_Singleton
  <2> QED
    BY <2>2, <2>3 DEF EachSubscribeSent
<1> QED
  BY <1>1, SubsInvariant, PTL

\* Once end has sent unsubscribe, the server does not have the subscription and
\* no goroutine will still subscribe it on this connection (client.go:198).
THEOREM ClosedStaysForgotten == Spec => []ClosedIsForgotten
<1>1. ASSUME SubsInv PROVE ClosedIsForgotten
  <2>0. LockInv /\ EndInv /\ Places
    BY <1>1, Parts
  <2> SUFFICES ASSUME NEW x \in Subs, ending[x].pc \in {"take", "release", "done"}
               PROVE  /\ x \notin srvSubs
                      /\ \A i \in 1..Len(subSendMu.todo) :
                           subSendMu.todo[i] = x => subSendMu.conn # conn
    BY DEF ClosedIsForgotten
  <2>1. x \notin subs /\ x \notin srvSubs
    BY <2>0 DEF EndInv
  <2>2. ASSUME NEW i \in 1..Len(subSendMu.todo), subSendMu.todo[i] = x, subSendMu.conn = conn
        PROVE  FALSE
    <3>1. subSendMu.todo # <<>>
      BY <2>2
    <3>2. conn # NoConn
      BY <2>0, <2>2, <3>1 DEF LockInv
    <3>3. x \in Written
      BY <2>2 DEF Written, In
    <3> QED
      BY <2>0, <2>1, <3>2, <3>3 DEF Places
  <2> QED
    BY <2>1, <2>2
<1> QED
  BY <1>1, SubsInvariant, PTL

\* A patch that came before there was a value of this connection to apply it to
\* is not lost, nor applied to a value of an older one (client.go:957): when
\* nothing is on its way, a patching subscription has a value of this
\* connection with every such patch in it.
THEOREM PatchesAreRefetched == Spec => []MissedPatchRefetched
<1>1. ASSUME SubsInv PROVE MissedPatchRefetched
  <2>0. TypeInv /\ ConnInv /\ OpenInv /\ ValueInv
    BY <1>1, Parts
  <2> SUFFICES ASSUME conn # NoConn, linkUp, rd.pc = "read",
                      NEW x \in subs \cap Patching \cap srvSubs,
                      ~(owed[x] > 0), ~sub[x].closed, ~sub[x].failing,
                      ~ \E i \in 1..Len(subSendMu.todo) : subSendMu.todo[i] = x
               PROVE  sub[x].current.conn = conn /\ missed[x] \subseteq sub[x].current.has
    BY DEF MissedPatchRefetched
  <2>1. Alive(x) /\ x \notin Taken
    BY DEF Alive, Failed, Taken
  <2>2. x \notin Written
    BY DEF Written, In
  <2>3. sub[x].current # NoValue
    BY <2>0, <2>1 DEF ValueInv
  <2>4. sub[x].current.conn = conn
    BY <2>0, <2>3 DEF ValueInv, ConnInv
  <2>5. x \notin Awaiting
    BY <2>0, <2>1 DEF OpenInv
  <2>6. missed[x] \subseteq sub[x].current.has
    BY <2>0, <2>1, <2>2, <2>3, <2>5 DEF ValueInv
  <2> QED
    BY <2>4, <2>6
<1> QED
  BY <1>1, SubsInvariant, PTL
=============================================================================
