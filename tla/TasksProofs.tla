---------------------------- MODULE TasksProofs ----------------------------
(***************************************************************************)
(* What the tasks package promises of a task and its sub-tasks, proved of  *)
(* Tasks for any number of sub-tasks, goroutines, calls and cancels.       *)
(*                                                                         *)
(* The goroutines' unfinished calls are the heart of the invariant.  Todo  *)
(* is the set of the sections somebody has still to run.  An end that has  *)
(* not reached the middleware yet is a signal in Todo (EndInv), and agrees *)
(* with the status that clients are shown (AgreeInv).  A sub-task that a   *)
(* failure of the task has not reached yet has a mark in Todo, or a list   *)
(* in Todo at a node above it (CoverInv); above means along a path of      *)
(* children, and there is one from the task to every sub-task (TreeInv).   *)
(***************************************************************************)
EXTENDS Tasks, FiniteSetTheorems, SequenceTheorems, TLAPS

-----------------------------------------------------------------------------
(* The inductive invariant. *)

Failures == {"error", "canceled"}
Ends == {"ok"} \cup Failures
Args == Ends \cup {"running", "completed", None} \cup SUBSET Nodes

(* A section with the node and the argument it can have. *)
Section ==
    {s \in [op : Sections, n : Nodes, x : Args] :
       /\ s.op = "set" => s.x \in {"running", "completed"}
       /\ s.op \in {"fail", "failTop", "list", "mark"} => s.x \in Failures
       /\ s.op = "signal" => s.x \in Ends
       /\ s.op = "drop" => s.x \in SUBSET Nodes
       /\ s.op \in {"running", "completeTop", "failTop"} => s.n = Top
       /\ s.op = "mark" => s.n \in Kids}

TypeInv == TypeOK /\ thread \in [Threads -> Seq(Section)]

(* The sections still to be run, by whomever. *)
Todo == {s \in Section : \E a \in Threads : \E i \in 1..Len(thread[a]) : thread[a][i] = s}

Exists(n) == node[n].status # "absent"

(* A section that is the last of its goroutine's call. *)
Final(s) ==
    \/ s.op \in {"completeTop", "failTop", "fail"}
    \/ s.op = "set" /\ s.x = "completed"
    \/ s.op = "signal" /\ s.n = Top

(* Which sections a goroutine may have to run, and in which order. *)
InOrder(q, a) ==
    \A i \in 1..Len(q) :
      /\ Final(q[i]) => i = Len(q)
      /\ q[i].op \in {"managed", "ready"} => \A j \in i+1..Len(q) : q[j].op = "body"
      /\ q[i].op = "running" => a = Handler /\ i = 1
      /\ q[i].op \in {"managed", "ready", "scoped"} => a \in Callables

Fitting(s) ==
    /\ s.op \in {"set", "fail"} /\ s.n = Top => ~Shared
    /\ s.op \in {"running", "completeTop", "failTop"} => Shared
    /\ s.op = "scoped" /\ s.n = Top => Shared
    /\ s.op = "ready" => mid[s.n].pc # "none"
    /\ s.op # "flush" => Exists(s.n)

ThreadInv ==
    /\ \A a \in Threads : InOrder(thread[a], a)
    /\ \A s \in Todo : Fitting(s)

(* A handle is of a node that exists; a request's task has middleware. *)
Held(n) == Exists(n) /\ (n = Top /\ ~Shared => mid[n].pc # "none")

(* Before the task is started there is nothing. *)
StartInv ==
    /\ phase = "new" =>
         /\ \A a \in Threads : thread[a] = <<>>
         /\ \A n \in Nodes : ~Exists(n) /\ timers[n] = 0
         /\ sleeping = 0
    /\ phase # "new" => Exists(Top)
    /\ \A n \in Nodes : holder[n] # None => Held(n)
    /\ tasks => Shared

(* The middleware: a recorded end is in the channel while next waits. *)
MidInv ==
    \A n \in Nodes :
      /\ mid[n].pc # "none" => mid[n].open
      /\ mid[n].done # <<>> => mid[n].ended # "none" /\ mid[n].done = <<mid[n].ended>>
      /\ mid[n].pc = "wait" /\ mid[n].ended # "none" => mid[n].done # <<>>
      /\ mid[n].pc = "returned" => mid[n].ended # "none" /\ mid[n].got = mid[n].ended

(* An end is recorded or on its way to be. *)
EndInv ==
    \A n \in Nodes : Ended(n) =>
      \/ mid[n].ended # "none"
      \/ \E s \in Todo : s.op = "signal" /\ s.n = n

(* x is how n ended. *)
Agrees(n, x) ==
    \/ node[n].status = "completed" /\ x = "ok"
    \/ node[n].status = "failed" /\ x = node[n].error

AgreeInv ==
    \A n \in Nodes : ~(n = Top /\ revived) =>
      /\ mid[n].ended # "none" => Agrees(n, mid[n].ended)
      /\ \A s \in Todo : s.op = "signal" /\ s.n = n => Agrees(n, s.x)

(* The task ends once, or twice if it was revived, and each end starts one *)
(* removal.                                                                *)
Signallers ==
    {a \in Threads : \E i \in 1..Len(thread[a]) :
                        thread[a][i].op = "signal" /\ thread[a][i].n = Top}
Starting == phase = "new" \/ \E s \in Todo : s.op = "running"
EndsSoFar ==
    IF Starting THEN IF Ended(Top) THEN 1 ELSE 0
    ELSE IF Ended(Top) THEN 2 ELSE 1
CountInv ==
    /\ ~Shared => sleeping = 0
    /\ Shared => IsFiniteSet(Signallers) /\ sleeping + Cardinality(Signallers) <= EndsSoFar

RemovalInv ==
    tasks /\ Ended(Top) => sleeping > 0 \/ \E s \in Todo : s.op = "signal" /\ s.n = Top

ThrottleInv ==
    \A n \in Nodes : throttle[n] # None =>
      (throttle[n].pending \/ throttle[n].timer =>
         timers[n] > 0 \/ \E s \in Todo : s.op = "flush" /\ s.n = n)

(* p is a path of children from m to n. *)
Paths == Seq(Nodes)
Child(m, n) == \E i \in 1..Len(kids[m]) : kids[m][i] = n
Leads(p, m, n) ==
    /\ Len(p) > 0 /\ p[1] = m /\ p[Len(p)] = n
    /\ \A i \in 1..Len(p) - 1 : Child(p[i], p[i + 1])
Above(m, n) == \E p \in Paths : Len(p) > 1 /\ Leads(p, m, n)

TreeInv ==
    /\ \A k \in Kids : Exists(k) => Above(Top, k)
    /\ \A m, n \in Nodes : Child(m, n) => Exists(n)

(* The cascade of a failure has reached k or will. *)
Covered(k) ==
    \/ Ended(k)
    \/ \E s \in Todo : s.op = "mark" /\ s.n = k
    \/ \E s \in Todo : s.op = "list" /\ Above(s.n, k)
CoverInv ==
    Shared /\ node[Top].status = "failed" =>
      \A k \in Kids : Exists(k) /\ k \notin late => Covered(k)

BaseInv == TypeInv /\ ThreadInv /\ StartInv
TasksInv ==
    /\ BaseInv /\ MidInv /\ EndInv /\ AgreeInv /\ CountInv /\ RemovalInv
    /\ ThrottleInv /\ TreeInv /\ CoverInv

-----------------------------------------------------------------------------
(* What a goroutine's step does to the sections still to be run. *)

(* The head of a has run and called secs. *)
LEMMA ThenFacts ==
    ASSUME TypeInv, NEW a \in Threads, thread[a] # <<>>,
           NEW secs \in Seq(Section), Then(a, secs)
    PROVE  /\ thread' \in [Threads -> Seq(Section)]
           /\ Len(thread[a]) \in Nat /\ Len(thread[a]) >= 1 /\ Len(secs) \in Nat
           /\ The(a) = thread[a][1] /\ The(a) \in Section
           /\ \A b \in Threads : b # a => thread'[b] = thread[b]
           /\ Len(thread'[a]) = Len(secs) + Len(thread[a]) - 1
           /\ \A i \in 1..Len(secs) : thread'[a][i] = secs[i]
           /\ \A i \in 2..Len(thread[a]) : thread'[a][Len(secs) + i - 1] = thread[a][i]
           /\ \A i \in Len(secs) + 1..Len(thread'[a]) :
                 /\ i - Len(secs) + 1 \in 2..Len(thread[a])
                 /\ thread'[a][i] = thread[a][i - Len(secs) + 1]
<1> DEFINE q == thread[a]
<1>1. q \in Seq(Section) /\ thread \in [Threads -> Seq(Section)]
  BY DEF TypeInv
<1>2. Len(q) \in Nat /\ q \in [1..Len(q) -> Section]
  BY <1>1, LenProperties
<1>3. Len(q) >= 1
  BY <1>1, <1>2, EmptySeq
<1>4. /\ Tail(q) \in Seq(Section) /\ Len(Tail(q)) = Len(q) - 1
      /\ \A i \in 1..Len(Tail(q)) : Tail(q)[i] = q[i + 1]
  BY <1>1, HeadTailProperties
<1>5. Head(q) = q[1]
  BY <1>1, <1>3
<1>6. Len(secs) \in Nat
  BY LenProperties
<1>7. /\ secs \o Tail(q) \in Seq(Section)
      /\ Len(secs \o Tail(q)) = Len(secs) + Len(Tail(q))
      /\ \A i \in 1..Len(secs) + Len(Tail(q)) :
            (secs \o Tail(q))[i] = IF i <= Len(secs) THEN secs[i] ELSE Tail(q)[i - Len(secs)]
  BY <1>4, ConcatProperties
<1>8. thread' = [thread EXCEPT ![a] = secs \o Tail(q)]
  BY DEF Then
<1>9. thread'[a] = secs \o Tail(q)
  BY <1>1, <1>8
<1>10. thread' \in [Threads -> Seq(Section)] /\ \A b \in Threads : b # a => thread'[b] = thread[b]
  BY <1>1, <1>7, <1>8
<1> HIDE DEF q
<1>11. \A i \in 1..Len(secs) : thread'[a][i] = secs[i]
  BY <1>4, <1>6, <1>7, <1>9, <1>2
<1>12. \A i \in 2..Len(q) : thread'[a][Len(secs) + i - 1] = q[i]
  <2> TAKE i \in 2..Len(q)
  <2>1. Len(secs) + i - 1 \in 1..Len(secs) + Len(Tail(q)) /\ ~(Len(secs) + i - 1 <= Len(secs))
    BY <1>2, <1>4, <1>6
  <2>2. thread'[a][Len(secs) + i - 1] = Tail(q)[Len(secs) + i - 1 - Len(secs)]
    BY <1>7, <1>9, <2>1
  <2>3. Len(secs) + i - 1 - Len(secs) = i - 1 /\ i - 1 \in 1..Len(Tail(q))
    BY <1>2, <1>4, <1>6
  <2>4. Tail(q)[i - 1] = q[(i - 1) + 1]
    BY <1>4, <2>3
  <2> QED
    BY <2>2, <2>3, <2>4
<1>13. Len(thread'[a]) = Len(secs) + Len(q) - 1
  BY <1>2, <1>4, <1>6, <1>7, <1>9
<1>14. \A i \in Len(secs) + 1..Len(thread'[a]) :
         /\ i - Len(secs) + 1 \in 2..Len(q)
         /\ thread'[a][i] = q[i - Len(secs) + 1]
  <2> TAKE i \in Len(secs) + 1..Len(thread'[a])
  <2>1. i - Len(secs) + 1 \in 2..Len(q)
    BY <1>2, <1>6, <1>13
  <2>2. Len(secs) + (i - Len(secs) + 1) - 1 = i
    BY <1>6
  <2> QED
    BY <1>12, <2>1, <2>2
<1>15. q[1] \in Section
  BY <1>2, <1>3
<1> QED
  BY <1>2, <1>3, <1>5, <1>6, <1>10, <1>11, <1>12, <1>13, <1>14, <1>15 DEF q, The

(* So only the head leaves Todo, and only secs is added. *)
LEMMA ThenTodo ==
    ASSUME TypeInv, NEW a \in Threads, thread[a] # <<>>,
           NEW secs \in Seq(Section), Then(a, secs)
    PROVE  /\ The(a) \in Todo
           /\ \A s \in Todo : s = The(a) \/ s \in Todo'
           /\ \A i \in 1..Len(secs) : secs[i] \in Todo'
           /\ \A s \in Todo' : s \in Todo \/ \E i \in 1..Len(secs) : secs[i] = s
<1>1. The(a) \in Todo
  BY ThenFacts DEF Todo
<1>2. ASSUME NEW s \in Todo, s # The(a) PROVE s \in Todo'
  <2>a. PICK b \in Threads : \E i \in 1..Len(thread[b]) : thread[b][i] = s
    BY <1>2 DEF Todo
  <2>1. PICK i \in 1..Len(thread[b]) : thread[b][i] = s
    BY <2>a
  <2>2. CASE b # a
    BY <2>1, <2>2, ThenFacts DEF Todo
  <2>3. CASE b = a
    <3>1. i \in 2..Len(thread[a])
      BY <1>2, <2>1, <2>3, ThenFacts
    <3>2. Len(secs) + i - 1 \in 1..Len(thread'[a])
      BY <3>1, ThenFacts
    <3>3. thread'[a][Len(secs) + i - 1] = s
      BY <2>1, <2>3, <3>1, ThenFacts
    <3> QED
      BY <1>2, <3>2, <3>3 DEF Todo
  <2> QED
    BY <2>2, <2>3
<1>3. ASSUME NEW i \in 1..Len(secs) PROVE secs[i] \in Todo'
  <2>1. secs[i] \in Section
    BY ElementOfSeq
  <2>2. i \in 1..Len(thread'[a]) /\ thread'[a][i] = secs[i]
    BY ThenFacts
  <2> QED
    BY <2>1, <2>2 DEF Todo
<1>4. ASSUME NEW s \in Todo' PROVE s \in Todo \/ \E i \in 1..Len(secs) : secs[i] = s
  <2>a. PICK b \in Threads : \E i \in 1..Len(thread'[b]) : thread'[b][i] = s
    BY <1>4 DEF Todo
  <2>1. PICK i \in 1..Len(thread'[b]) : thread'[b][i] = s
    BY <2>a
  <2>0. s \in Section
    BY <1>4 DEF Todo
  <2>2. CASE b # a
    BY <2>0, <2>1, <2>2, ThenFacts DEF Todo
  <2>3. CASE b = a
    <3>1. CASE i \in 1..Len(secs)
      BY <2>1, <2>3, <3>1, ThenFacts
    <3>2. CASE i \notin 1..Len(secs)
      <4>1. i \in Len(secs) + 1..Len(thread'[a])
        BY <2>3, <3>2, ThenFacts
      <4>2. i - Len(secs) + 1 \in 2..Len(thread[a]) /\ s = thread[a][i - Len(secs) + 1]
        BY <2>1, <2>3, <4>1, ThenFacts
      <4>3. i - Len(secs) + 1 \in 1..Len(thread[a])
        BY <4>2, ThenFacts
      <4> QED
        BY <2>0, <4>2, <4>3 DEF Todo
    <3> QED
      BY <3>1, <3>2
  <2> QED
    BY <2>2, <2>3
<1> QED
  BY <1>1, <1>2, <1>3, <1>4

(* An idle goroutine starts the call secs. *)
Put(a, secs) == thread' = [thread EXCEPT ![a] = secs]

(* Nothing leaves Todo, and only secs is added. *)
LEMMA PutTodo ==
    ASSUME TypeInv, NEW a \in Threads, thread[a] = <<>>,
           NEW secs \in Seq(Section), Put(a, secs)
    PROVE  /\ thread' \in [Threads -> Seq(Section)]
           /\ thread'[a] = secs /\ \A b \in Threads : b # a => thread'[b] = thread[b]
           /\ \A s \in Todo : s \in Todo'
           /\ \A i \in 1..Len(secs) : secs[i] \in Todo'
           /\ \A s \in Todo' : s \in Todo \/ \E i \in 1..Len(secs) : secs[i] = s
<1>0. thread \in [Threads -> Seq(Section)]
  BY DEF TypeInv
<1>1. /\ thread' \in [Threads -> Seq(Section)]
      /\ thread'[a] = secs /\ \A b \in Threads : b # a => thread'[b] = thread[b]
  BY <1>0 DEF Put
<1>2. Len(thread[a]) = 0
  BY EmptySeq
<1>3. ASSUME NEW s \in Todo PROVE s \in Todo'
  <2>a. PICK b \in Threads : \E i \in 1..Len(thread[b]) : thread[b][i] = s
    BY DEF Todo
  <2>1. PICK i \in 1..Len(thread[b]) : thread[b][i] = s
    BY <2>a
  <2>2. b # a
    BY <1>2, <2>1
  <2>3. s \in Section
    BY DEF Todo
  <2> QED
    BY <1>1, <2>1, <2>2, <2>3 DEF Todo
<1>4. ASSUME NEW i \in 1..Len(secs) PROVE secs[i] \in Todo'
  <2>1. secs[i] \in Section
    BY ElementOfSeq
  <2> QED
    BY <1>1, <2>1 DEF Todo
<1>5. ASSUME NEW s \in Todo' PROVE s \in Todo \/ \E i \in 1..Len(secs) : secs[i] = s
  <2>a. PICK b \in Threads : \E i \in 1..Len(thread'[b]) : thread'[b][i] = s
    BY <1>5 DEF Todo
  <2>1. PICK i \in 1..Len(thread'[b]) : thread'[b][i] = s
    BY <2>a
  <2>2. s \in Section
    BY <1>5 DEF Todo
  <2> QED
    BY <1>1, <2>1, <2>2 DEF Todo
<1> QED
  BY <1>1, <1>3, <1>4, <1>5

(* If nobody runs anything, nothing changes. *)
LEMMA SameTodo ==
    ASSUME UNCHANGED thread PROVE Todo' = Todo
BY DEF Todo

(* Sequences of one, two and three sections. *)
LEMMA Short ==
    /\ <<>> \in Seq(Section) /\ Len(<<>>) = 0
    /\ \A s \in Section : <<s>> \in Seq(Section) /\ Len(<<s>>) = 1 /\ <<s>>[1] = s
    /\ \A s, t \in Section :
         /\ <<s, t>> \in Seq(Section) /\ Len(<<s, t>>) = 2
         /\ <<s, t>>[1] = s /\ <<s, t>>[2] = t
    /\ \A s, t, u \in Section :
         /\ <<s, t, u>> \in Seq(Section) /\ Len(<<s, t, u>>) = 3
         /\ <<s, t, u>>[1] = s /\ <<s, t, u>>[2] = t /\ <<s, t, u>>[3] = u
         /\ <<s, t>> \o <<u>> = <<s, t, u>>
<1>1. \A s, t, u \in Section : <<s, t>> \o <<u>> = <<s, t, u>>
  <2> TAKE s, t, u \in Section
  <2>1. <<s, t>> \in Seq(Section) /\ <<u>> \in Seq(Section) /\ <<s, t, u>> \in Seq(Section)
    OBVIOUS
  <2>2. /\ <<s, t>> \o <<u>> \in Seq(Section)
        /\ Len(<<s, t>> \o <<u>>) = Len(<<s, t>>) + Len(<<u>>)
        /\ \A i \in 1..Len(<<s, t>>) + Len(<<u>>) : (<<s, t>> \o <<u>>)[i] =
             IF i <= Len(<<s, t>>) THEN <<s, t>>[i] ELSE <<u>>[i - Len(<<s, t>>)]
    BY <2>1, ConcatProperties
  <2> DEFINE q == <<s, t>> \o <<u>>
  <2>3. Len(<<s, t>>) = 2 /\ Len(<<u>>) = 1 /\ Len(<<s, t, u>>) = 3
    OBVIOUS
  <2>4. q[1] = s /\ q[2] = t /\ q[3] = u /\ Len(q) = 3 /\ q \in Seq(Section)
    BY <2>2, <2>3
  <2> HIDE DEF q
  <2>5. \A i \in 1..3 : q[i] = <<s, t, u>>[i]
    BY <2>4
  <2>6. q = <<s, t, u>>
    BY <2>1, <2>3, <2>4, <2>5, SeqEqual
  <2> QED
    BY <2>6 DEF q
<1>2. <<>> \in Seq(Section) /\ Len(<<>>) = 0
  OBVIOUS
<1>3. \A s \in Section : <<s>> \in Seq(Section) /\ Len(<<s>>) = 1 /\ <<s>>[1] = s
  OBVIOUS
<1>4. \A s, t \in Section :
         /\ <<s, t>> \in Seq(Section) /\ Len(<<s, t>>) = 2
         /\ <<s, t>>[1] = s /\ <<s, t>>[2] = t
  OBVIOUS
<1>5. \A s, t, u \in Section :
         /\ <<s, t, u>> \in Seq(Section) /\ Len(<<s, t, u>>) = 3
         /\ <<s, t, u>>[1] = s /\ <<s, t, u>>[2] = t /\ <<s, t, u>>[3] = u
  OBVIOUS
<1> QED
  BY <1>1, <1>2, <1>3, <1>4, <1>5

(* Sections stay in order when a goroutine goes on. *)
LEMMA ThenOrder ==
    ASSUME TypeInv, ThreadInv, NEW a \in Threads, thread[a] # <<>>,
           NEW secs \in Seq(Section), Then(a, secs),
           \/ Len(thread[a]) = 1 /\ InOrder(secs, a)
           \/ \A i \in 1..Len(secs) :
                ~Final(secs[i]) /\ secs[i].op \notin {"managed", "ready", "running", "scoped"}
           \/ /\ The(a).op = "managed" /\ Len(secs) = 1
              /\ secs[1].op = "ready"
    PROVE  \A b \in Threads : InOrder(thread'[b], b)
<1>1. SUFFICES InOrder(thread'[a], a)
  BY ThenFacts DEF ThreadInv
<1> DEFINE q == thread[a]
           r == thread'[a]
           L == Len(secs)
<1>2. /\ Len(q) \in Nat /\ Len(q) >= 1 /\ L \in Nat /\ The(a) = q[1]
      /\ Len(r) = L + Len(q) - 1
      /\ \A i \in 1..L : r[i] = secs[i]
      /\ \A i \in L + 1..Len(r) : i - L + 1 \in 2..Len(q) /\ r[i] = q[i - L + 1]
  BY ThenFacts
<1>3. InOrder(q, a)
  BY DEF ThreadInv
<1>4. CASE Len(q) = 1 /\ InOrder(secs, a)
  <2>1. Len(r) = L /\ \A i \in 1..L : r[i] = secs[i]
    BY <1>2, <1>4
  <2> HIDE DEF r
  <2>2. InOrder(r, a)
    BY <1>2, <1>4, <2>1 DEF InOrder
  <2> QED
    BY <2>2 DEF r
<1>5. CASE \A i \in 1..L :
             ~Final(secs[i]) /\ secs[i].op \notin {"managed", "ready", "running", "scoped"}
  <2> HIDE DEF q, r, L
  <2>1. ASSUME NEW i \in 1..Len(r), Final(r[i]) PROVE i = Len(r)
    <3>1. i \in L + 1..Len(r)
      BY <1>2, <1>5, <2>1 DEF L
    <3>2. i - L + 1 = Len(q)
      BY <1>2, <1>3, <2>1, <3>1 DEF InOrder
    <3> QED
      BY <1>2, <3>1, <3>2
  <2>2. ASSUME NEW i \in 1..Len(r), r[i].op \in {"managed", "ready"},
               NEW j \in i+1..Len(r)
        PROVE  r[j].op = "body"
    <3>0. i \notin 1..L
      BY <1>2, <1>5, <2>2
    <3>1. i \in L + 1..Len(r) /\ j \in L + 1..Len(r)
      BY <1>2, <2>2, <3>0
    <3>2. i - L + 1 \in 1..Len(q) /\ j - L + 1 \in (i - L + 1) + 1..Len(q)
      BY <1>2, <3>1
    <3>3. r[i] = q[i - L + 1] /\ r[j] = q[j - L + 1]
      BY <1>2, <3>1
    <3> QED
      BY <1>3, <2>2, <3>2, <3>3 DEF InOrder
  <2>3. ASSUME NEW i \in 1..Len(r), r[i].op = "running" PROVE a = Handler /\ i = 1
    <3>1. i \in L + 1..Len(r)
      BY <1>2, <1>5, <2>3 DEF L
    <3>2. i - L + 1 \in 2..Len(q) /\ q[i - L + 1].op = "running"
      BY <1>2, <2>3, <3>1
    <3> QED
      BY <1>2, <1>3, <3>2 DEF InOrder
  <2>5. ASSUME NEW i \in 1..Len(r), r[i].op \in {"managed", "ready", "scoped"}
        PROVE  a \in Callables
    <3>1. i \in L + 1..Len(r)
      BY <1>2, <1>5, <2>5 DEF L
    <3>2. i - L + 1 \in 1..Len(q) /\ q[i - L + 1].op \in {"managed", "ready", "scoped"}
      BY <1>2, <2>5, <3>1
    <3> QED
      BY <1>2, <1>3, <3>2 DEF InOrder
  <2>4. InOrder(r, a)
    BY <2>1, <2>2, <2>3, <2>5 DEF InOrder
  <2> QED
    BY <2>4 DEF r
<1>6. CASE The(a).op = "managed" /\ Len(secs) = 1 /\ secs[1].op = "ready"
  <2> HIDE DEF q, r
  <2>1. Len(r) = Len(q) /\ r[1].op = "ready" /\ \A i \in 2..Len(r) : r[i] = q[i]
    BY <1>2, <1>6
  <2>2. \A i \in 2..Len(r) : r[i].op = "body"
    BY <1>2, <1>3, <1>6, <2>1 DEF InOrder
  <2>4. 1 \in 1..Len(q) /\ q[1].op = "managed"
    BY <1>2, <1>6
  <2>5. a \in Callables
    BY <1>3, <2>4 DEF InOrder
  <2>3. InOrder(r, a)
    BY <1>2, <2>1, <2>2, <2>5 DEF InOrder, Final
  <2> QED
    BY <2>3 DEF r
<1> QED
  BY <1>4, <1>5, <1>6

(* A goroutine that goes on keeps what is known of the sections. *)
LEMMA ThenThread ==
    ASSUME TypeInv, ThreadInv, NEW a \in Threads, thread[a] # <<>>,
           NEW secs \in Seq(Section), Then(a, secs),
           \/ Len(thread[a]) = 1 /\ InOrder(secs, a)
           \/ \A i \in 1..Len(secs) :
                ~Final(secs[i]) /\ secs[i].op \notin {"managed", "ready", "running", "scoped"}
           \/ /\ The(a).op = "managed" /\ Len(secs) = 1
              /\ secs[1].op = "ready",
           kind' = kind, \A n \in Nodes : Exists(n) => Exists(n)',
           \A n \in Nodes : mid[n].pc # "none" => mid'[n].pc # "none",
           \A i \in 1..Len(secs) : Fitting(secs[i])'
    PROVE  ThreadInv'
<1>1. \A b \in Threads : InOrder(thread'[b], b)
  BY ThenOrder
<1>2. \A s \in Section : Fitting(s) => Fitting(s)'
  BY DEF Fitting, Shared, Section
<1>3. \A s \in Todo : s \in Section
  BY DEF Todo
<1>4. \A s \in Todo' : Fitting(s)'
  BY <1>2, <1>3, ThenTodo DEF ThreadInv
<1> QED
  BY <1>1, <1>4 DEF ThreadInv

(* So does a goroutine that starts a call. *)
LEMMA PutThread ==
    ASSUME TypeInv, ThreadInv, NEW a \in Threads, thread[a] = <<>>,
           NEW secs \in Seq(Section), Put(a, secs),
           InOrder(secs, a),
           kind' = kind, \A n \in Nodes : Exists(n) => Exists(n)',
           \A n \in Nodes : mid[n].pc # "none" => mid'[n].pc # "none",
           \A i \in 1..Len(secs) : Fitting(secs[i])'
    PROVE  ThreadInv'
<1>1. \A b \in Threads : InOrder(thread'[b], b)
  BY PutTodo DEF ThreadInv
<1>2. \A s \in Section : Fitting(s) => Fitting(s)'
  BY DEF Fitting, Shared, Section
<1>3. \A s \in Todo : s \in Section
  BY DEF Todo
<1>4. ASSUME NEW s \in Todo' PROVE Fitting(s)'
  <2>1. s \in Todo \/ \E i \in 1..Len(secs) : secs[i] = s
    BY PutTodo
  <2>2. CASE s \in Todo
    BY <1>2, <1>3, <2>2 DEF ThreadInv
  <2>3. CASE \E i \in 1..Len(secs) : secs[i] = s
    BY <2>3
  <2> QED
    BY <2>1, <2>2, <2>3
<1> QED
  BY <1>1, <1>4 DEF ThreadInv

(* The head of a goroutine that is at a section. *)
LEMMA AtFacts ==
    ASSUME TypeInv, ThreadInv, NEW a \in Threads, NEW op, At(a, op)
    PROVE  /\ thread[a] # <<>> /\ The(a).op = op /\ The(a) \in Section
           /\ The(a).n \in Nodes /\ The(a) \in Todo /\ Fitting(The(a))
           /\ thread[a] \in Seq(Section)
           /\ Final(The(a)) => Len(thread[a]) = 1
           /\ op = "running" => a = Handler
           /\ op \in {"managed", "ready", "scoped"} => a \in Callables
<1>1. thread[a] # <<>> /\ The(a).op = op /\ thread[a] \in Seq(Section)
  BY DEF At, The, TypeInv
<1>2. Len(thread[a]) \in Nat /\ Len(thread[a]) >= 1 /\ thread[a] \in [1..Len(thread[a]) -> Section]
  BY <1>1, LenProperties, EmptySeq
<1>3. The(a) = thread[a][1]
  BY <1>1, <1>2 DEF The
<1>4. The(a) \in Section /\ The(a) \in Todo
  BY <1>2, <1>3 DEF Todo
<1>5. The(a).n \in Nodes
  BY <1>4 DEF Section
<1>6. InOrder(thread[a], a) /\ Fitting(The(a))
  BY <1>4 DEF ThreadInv
<1>7. /\ Final(The(a)) => Len(thread[a]) = 1
      /\ op = "running" => a = Handler
      /\ op \in {"managed", "ready", "scoped"} => a \in Callables
  <2>1. 1 \in 1..Len(thread[a])
    BY <1>2
  <2>2. Final(thread[a][1]) => 1 = Len(thread[a])
    BY <1>6, <2>1 DEF InOrder
  <2>3. /\ thread[a][1].op = "running" => a = Handler
        /\ thread[a][1].op \in {"managed", "ready", "scoped"} => a \in Callables
    BY <1>6, <2>1 DEF InOrder
  <2> QED
    BY <1>1, <1>3, <2>2, <2>3
<1> QED
  BY <1>1, <1>4, <1>5, <1>6, <1>7

-----------------------------------------------------------------------------
(* Who is about to signal the end of the task. *)

TopSignal(s) == s.op = "signal" /\ s.n = Top

(* A goroutine that goes on is about to signal if it was, or if it has just *)
(* ended the task.                                                          *)
LEMMA ThenSignals ==
    ASSUME TypeInv, ThreadInv, NEW a \in Threads, thread[a] # <<>>,
           NEW secs \in Seq(Section), Then(a, secs)
    PROVE  /\ ~TopSignal(The(a)) /\ (\A i \in 1..Len(secs) : ~TopSignal(secs[i])) =>
                 Signallers' = Signallers
           /\ TopSignal(The(a)) /\ secs = <<>> =>
                 a \in Signallers /\ Signallers' = Signallers \ {a}
           /\ Final(The(a)) /\ The(a).op # "signal"
              /\ (\E i \in 1..Len(secs) : TopSignal(secs[i])) =>
                 a \notin Signallers /\ Signallers' = Signallers \cup {a}
<1> DEFINE q == thread[a]
           r == thread'[a]
           L == Len(secs)
<1>1. /\ Len(q) \in Nat /\ Len(q) >= 1 /\ L \in Nat /\ The(a) = q[1]
      /\ Len(r) = L + Len(q) - 1
      /\ \A i \in 1..L : r[i] = secs[i]
      /\ \A i \in 2..Len(q) : r[L + i - 1] = q[i]
      /\ \A i \in L + 1..Len(r) : i - L + 1 \in 2..Len(q) /\ r[i] = q[i - L + 1]
  BY ThenFacts
<1>2. Final(q[1]) => Len(q) = 1
  <2>1. InOrder(q, a) /\ 1 \in 1..Len(q)
    BY <1>1 DEF ThreadInv
  <2> QED
    BY <1>1, <2>1 DEF InOrder
<1>3. a \in Signallers <=> \E i \in 1..Len(q) : TopSignal(q[i])
  BY DEF Signallers, TopSignal
<1>4. a \in Signallers' <=> \E i \in 1..Len(r) : TopSignal(r[i])
  BY DEF Signallers, TopSignal
<1>5. \A b \in Threads : b # a => (b \in Signallers' <=> b \in Signallers)
  <2>1. \A b \in Threads : b # a => thread'[b] = thread[b]
    BY ThenFacts
  <2> QED
    BY <2>1 DEF Signallers
<1>6. Signallers \subseteq Threads /\ Signallers' \subseteq Threads
  BY DEF Signallers
<1> HIDE DEF q, r
<1>7. ASSUME ~TopSignal(The(a)), \A i \in 1..L : ~TopSignal(secs[i])
      PROVE  Signallers' = Signallers
  <2>1. ASSUME NEW i \in 1..Len(q), TopSignal(q[i]) PROVE \E j \in 1..Len(r) : TopSignal(r[j])
    <3>1. i \in 2..Len(q)
      BY <1>1, <1>7, <2>1
    <3>2. L + i - 1 \in 1..Len(r) /\ r[L + i - 1] = q[i]
      BY <1>1, <3>1
    <3> QED
      BY <2>1, <3>2
  <2>2. ASSUME NEW i \in 1..Len(r), TopSignal(r[i]) PROVE \E j \in 1..Len(q) : TopSignal(q[j])
    <3>1. i \in L + 1..Len(r)
      BY <1>1, <1>7, <2>2
    <3>2. i - L + 1 \in 1..Len(q) /\ r[i] = q[i - L + 1]
      BY <1>1, <3>1
    <3> QED
      BY <2>2, <3>2
  <2>3. a \in Signallers' <=> a \in Signallers
    BY <1>3, <1>4, <2>1, <2>2
  <2>4. \A b \in Threads : b \in Signallers' <=> b \in Signallers
    BY <1>5, <2>3
  <2> QED
    BY <1>6, <2>4
<1>8. ASSUME TopSignal(The(a)), secs = <<>>
      PROVE  a \in Signallers /\ Signallers' = Signallers \ {a}
  <2>1. Final(q[1]) /\ TopSignal(q[1])
    BY <1>1, <1>8 DEF Final, TopSignal
  <2>2. L = 0
    BY <1>8, EmptySeq
  <2>3. Len(q) = 1
    BY <1>2, <2>1
  <2>4. Len(r) = 0
    BY <1>1, <2>2, <2>3
  <2>5. a \in Signallers
    BY <1>1, <1>3, <2>1
  <2>6. a \notin Signallers'
    BY <1>4, <2>4
  <2> QED
    BY <1>5, <1>6, <2>5, <2>6
<1>9. ASSUME Final(The(a)), The(a).op # "signal", \E i \in 1..L : TopSignal(secs[i])
      PROVE  a \notin Signallers /\ Signallers' = Signallers \cup {a}
  <2>1. Len(q) = 1
    BY <1>1, <1>2, <1>9
  <2>2. a \notin Signallers
    BY <1>1, <1>3, <1>9, <2>1 DEF TopSignal
  <2>3. a \in Signallers'
    BY <1>1, <1>4, <1>9, <2>1
  <2> QED
    BY <1>5, <1>6, <2>2, <2>3
<1> QED
  BY <1>7, <1>8, <1>9

(* A call does not begin with a signal. *)
LEMMA PutSignals ==
    ASSUME TypeInv, NEW a \in Threads, thread[a] = <<>>,
           NEW secs \in Seq(Section), Put(a, secs),
           \A i \in 1..Len(secs) : ~TopSignal(secs[i])
    PROVE  Signallers' = Signallers
<1>1. /\ thread'[a] = secs /\ \A b \in Threads : b # a => thread'[b] = thread[b]
  BY PutTodo
<1>2. Len(thread[a]) = 0
  BY EmptySeq
<1>3. \A b \in Threads : b \in Signallers' <=> b \in Signallers
  BY <1>1, <1>2 DEF Signallers, TopSignal
<1> QED
  BY <1>3 DEF Signallers

-----------------------------------------------------------------------------
(* What keeps each part of the invariant. *)

(* An end is recorded when its signal is taken. *)
LEMMA EndKept ==
    ASSUME EndInv,
           \A n \in Nodes : Ended(n)' => Ended(n) \/ \E s \in Todo' : s.op = "signal" /\ s.n = n,
           \A n \in Nodes : mid[n].ended # "none" => mid'[n].ended # "none",
           \A s \in Todo : s.op = "signal" => s \in Todo' \/ mid'[s.n].ended # "none"
    PROVE  EndInv'
BY DEF EndInv

(* What is recorded was signalled, and what is signalled is the status. *)
LEMMA AgreeKept ==
    ASSUME AgreeInv, revived => revived',
           \A n \in Nodes : ~(n = Top /\ revived') /\ Ended(n) => node'[n] = node[n],
           \A n \in Nodes :
              \/ mid'[n].ended = mid[n].ended
              \/ \E s \in Todo : s.op = "signal" /\ s.n = n /\ s.x = mid'[n].ended,
           \A s \in Todo' : s.op = "signal" => s \in Todo \/ Agrees(s.n, s.x)'
    PROVE  AgreeInv'
<1> SUFFICES ASSUME NEW n \in Nodes, ~(n = Top /\ revived')
             PROVE  /\ mid'[n].ended # "none" => Agrees(n, mid[n].ended)'
                    /\ \A s \in Todo' : s.op = "signal" /\ s.n = n => Agrees(n, s.x)'
  BY DEF AgreeInv
<1>1. ~(n = Top /\ revived)
  OBVIOUS
<1>2. \A x : Agrees(n, x) => Agrees(n, x)'
  BY DEF Agrees, Ended, Terminal
<1>3. mid'[n].ended # "none" => Agrees(n, mid'[n].ended)
  BY <1>1 DEF AgreeInv
<1>4. ASSUME NEW s \in Todo', s.op = "signal", s.n = n PROVE Agrees(n, s.x)'
  BY <1>1, <1>2, <1>4 DEF AgreeInv
<1>5. mid'[n].ended # "none" => Agrees(n, mid[n].ended)'
  BY <1>2, <1>3 DEF Agrees
<1> QED
  BY <1>4, <1>5

(* No step but an end adds to the signals and the removals. *)
LEMMA CountKept ==
    ASSUME TypeInv, CountInv, kind' = kind, Signallers' = Signallers,
           sleeping' \in Nat, sleeping' <= sleeping, Starting' => Starting,
           Ended(Top) => Ended(Top)'
    PROVE  CountInv'
<1>a. sleeping \in 0..2
  BY DEF TypeInv, TypeOK
<1>0. sleeping \in Nat
  BY <1>a
<1>1. CASE ~Shared
  BY <1>0, <1>1 DEF CountInv, Shared
<1>2. CASE Shared
  <2>1. IsFiniteSet(Signallers) /\ sleeping + Cardinality(Signallers) <= EndsSoFar
    BY <1>2 DEF CountInv
  <2>2. Cardinality(Signallers) \in Nat
    BY <2>1, FS_CardinalityType
  <2>3. EndsSoFar \in 0..2 /\ EndsSoFar' \in 0..2 /\ EndsSoFar <= EndsSoFar'
    BY DEF EndsSoFar
  <2>4. sleeping' + Cardinality(Signallers) <= EndsSoFar'
    BY <1>0, <2>1, <2>2, <2>3
  <2> QED
    BY <1>2, <2>1, <2>4 DEF CountInv, Shared
<1> QED
  BY <1>1, <1>2

(* An ended task stays on its way out of the registry. *)
LEMMA RemovalKept ==
    ASSUME RemovalInv, tasks' => tasks,
           Ended(Top)' => Ended(Top) \/ \E s \in Todo' : TopSignal(s),
           sleeping > 0 => sleeping' > 0 \/ ~tasks',
           \A s \in Todo : TopSignal(s) => s \in Todo' \/ sleeping' > 0
    PROVE  RemovalInv'
BY DEF RemovalInv, TopSignal

(* A flush that is due stays due. *)
LEMMA ThrottleKept ==
    ASSUME ThrottleInv, UNCHANGED <<throttle, timers>>,
           \A s \in Todo : s.op = "flush" => s \in Todo'
    PROVE  ThrottleInv'
BY DEF ThrottleInv

(* A path stays one while children are only added. *)
LEMMA AboveKept ==
    ASSUME \A m, n \in Nodes : Child(m, n) => Child(m, n)',
           NEW m, NEW n, Above(m, n)
    PROVE  Above(m, n)'
<1>1. PICK p \in Paths : Len(p) > 1 /\ Leads(p, m, n)
  BY DEF Above
<1>2. \A i \in 1..Len(p) - 1 : p[i] \in Nodes /\ p[i + 1] \in Nodes
  <2>1. Len(p) \in Nat /\ p \in [1..Len(p) -> Nodes]
    BY LenProperties DEF Paths
  <2> QED
    BY <2>1
<1>3. Leads(p, m, n)'
  BY <1>1, <1>2 DEF Leads
<1> QED
  BY <1>1, <1>3 DEF Above

(* A step that makes no node leaves the tree as it is. *)
LEMMA TreeKept ==
    ASSUME TreeInv, UNCHANGED kids, \A n \in Nodes : Exists(n)' <=> Exists(n)
    PROVE  TreeInv'
<1>1. \A m, n \in Nodes : Child(m, n) <=> Child(m, n)'
  BY DEF Child
<1>2. \A k \in Kids : Above(Top, k) => Above(Top, k)'
  BY <1>1, AboveKept
<1>3. \A k \in Kids : k \in Nodes
  BY DEF Nodes
<1> QED
  BY <1>1, <1>2, <1>3 DEF TreeInv

(* What the cascade has yet to reach stays in its way. *)
LEMMA CoverKept ==
    ASSUME TypeInv, CoverInv, kind' = kind,
           \A m, n \in Nodes : Child(m, n) => Child(m, n)',
           Shared /\ node'[Top].status = "failed" => node[Top].status = "failed",
           Shared /\ node'[Top].status = "failed" =>
             \A k \in Kids : Exists(k)' /\ k \notin late' => Exists(k) /\ k \notin late,
           \A k \in Kids : Ended(k) => Ended(k)',
           \A s \in Todo : s.op \in {"mark", "list"} => s \in Todo'
    PROVE  CoverInv'
<1> SUFFICES ASSUME Shared, node'[Top].status = "failed",
                    NEW k \in Kids, Exists(k)', k \notin late'
             PROVE  Covered(k)'
  BY DEF CoverInv, Shared
<1>1. Covered(k)
  BY DEF CoverInv
<1>2. CASE Ended(k)
  BY <1>2 DEF Covered
<1>3. CASE \E s \in Todo : s.op = "mark" /\ s.n = k
  BY <1>3 DEF Covered
<1>4. ASSUME NEW s \in Todo, s.op = "list", Above(s.n, k) PROVE Covered(k)'
  <2>1. s \in Todo'
    BY <1>4
  <2>2. Above(s.n, k)'
    BY <1>4, AboveKept
  <2> QED
    BY <1>4, <2>1, <2>2 DEF Covered
<1> QED
  BY <1>1, <1>2, <1>3, <1>4 DEF Covered

-----------------------------------------------------------------------------
(* Steps that neither end a task nor carry an end any further. *)

Middleware ==
    [pc : {"none", "begin", "wait", "returned", "skipped", "panicked"},
     open : BOOLEAN, done : {<<>>} \cup {<<r>> : r \in Results},
     ended : Results, got : Results]

(* TypeOK without the sections and the removals, which need more than types. *)
Types ==
    /\ kind \in Kinds
    /\ phase \in {"new", "starting", "body", "returned"}
    /\ slot \in BOOLEAN /\ tasks \in BOOLEAN /\ revived \in BOOLEAN
    /\ node \in [Nodes -> [status : Statuses, error : Results]]
    /\ kids \in [Nodes -> Seq(Kids)]
    /\ holder \in [Nodes -> Callables \cup {None}]
    /\ mid \in [Nodes -> Middleware]
    /\ throttle \in [Nodes -> Entry \cup {None}]
    /\ timers \in [Nodes -> Nat]
    /\ late \subseteq Kids
    /\ calls \in 0..MaxCalls[kind] /\ cancels \in 0..MaxCancels

(* The two make up the type invariant. *)
LEMMA TypesSplit ==
    TypeInv <=> Types /\ sleeping \in 0..2 /\ thread \in [Threads -> Seq(Section)]
<1>1. ASSUME thread \in [Threads -> Seq(Section)]
      PROVE  \A a \in Threads : \A i \in DOMAIN thread[a] :
               thread[a][i].op \in Sections /\ thread[a][i].n \in Nodes
  <2> TAKE a \in Threads
  <2>1. thread[a] \in Seq(Section)
    BY <1>1
  <2>2. DOMAIN thread[a] = 1..Len(thread[a]) /\ thread[a] \in [1..Len(thread[a]) -> Section]
    BY <2>1, LenProperties
  <2> QED
    BY <2>2 DEF Section
<1> QED
  BY <1>1 DEF TypeInv, TypeOK, Types, Middleware

Rest == EndInv /\ AgreeInv /\ CountInv /\ RemovalInv /\ TreeInv /\ CoverInv

Quiet ==
    /\ UNCHANGED <<kind, node, kids, revived, late>>
    /\ \A n \in Nodes : mid'[n].ended = mid[n].ended
    /\ \A n \in Nodes : mid[n].pc # "none" => mid'[n].pc # "none"
    /\ phase' = "new" => phase = "new"
    /\ sleeping' \in Nat /\ sleeping' <= sleeping
    /\ sleeping' = sleeping \/ ~tasks'
    /\ tasks' => tasks

(* They keep what is said of ends and of the cascade. *)
LEMMA QuietRest ==
    ASSUME TasksInv, Quiet, Signallers' = Signallers,
           \A s \in Todo : s.op \in {"signal", "list", "mark"} => s \in Todo',
           \A s \in Todo' : s.op \in {"signal", "running"} => s \in Todo
    PROVE  Rest' /\ sleeping' \in 0..2
<1>0. /\ TypeInv /\ EndInv /\ AgreeInv /\ CountInv /\ RemovalInv /\ TreeInv /\ CoverInv
      /\ sleeping \in 0..2
  BY TypesSplit DEF TasksInv, BaseInv
<1>1. \A n \in Nodes : Ended(n)' = Ended(n) /\ Exists(n)' = Exists(n)
  BY DEF Quiet, Ended, Exists
<1>2. EndInv'
  BY <1>0, <1>1, EndKept DEF Quiet
<1>3. AgreeInv'
  BY <1>0, AgreeKept DEF Quiet
<1>4. CountInv'
  <2>1. Starting' => Starting
    BY DEF Starting, Quiet
  <2>2. Ended(Top) => Ended(Top)'
    BY <1>1 DEF Nodes
  <2> QED
    BY <1>0, <2>1, <2>2, CountKept DEF Quiet
<1>5. RemovalInv'
  <2>1. Ended(Top)' => Ended(Top)
    BY <1>1 DEF Nodes
  <2>2. \A s \in Todo : TopSignal(s) => s \in Todo'
    BY DEF TopSignal
  <2>3. sleeping > 0 => sleeping' > 0 \/ ~tasks'
    BY DEF Quiet
  <2> QED
    BY <1>0, <2>1, <2>2, <2>3, RemovalKept DEF Quiet
<1>6. \A k \in Kids : Exists(k)' = Exists(k) /\ Ended(k)' = Ended(k)
  BY <1>1 DEF Nodes
<1>7. TreeInv'
  BY <1>0, <1>1, TreeKept DEF Quiet
<1>8. CoverInv'
  <2>1. \A m, n \in Nodes : Child(m, n) => Child(m, n)'
    BY DEF Child, Quiet
  <2>2. /\ kind' = kind /\ node'[Top].status = node[Top].status /\ late' = late
    BY DEF Quiet
  <2> QED
    BY <1>0, <1>6, <2>1, <2>2, CoverKept
<1>9. sleeping' \in 0..2
  BY <1>0 DEF Quiet
<1> QED
  BY <1>2, <1>3, <1>4, <1>5, <1>7, <1>8, <1>9 DEF Rest

(* A goroutine goes on in such a step. *)
LEMMA QuietThen ==
    ASSUME TasksInv, Quiet, NEW a \in Threads, thread[a] # <<>>,
           NEW secs \in Seq(Section), Then(a, secs),
           The(a).op \notin {"signal", "list", "mark"},
           \A i \in 1..Len(secs) :
              secs[i].op \notin {"signal", "list", "mark", "running"} /\ Fitting(secs[i])',
           \/ Len(thread[a]) = 1 /\ InOrder(secs, a)
           \/ secs = <<>>
           \/ \A i \in 1..Len(secs) :
                ~Final(secs[i]) /\ secs[i].op \notin {"managed", "ready", "running", "scoped"}
           \/ The(a).op = "managed" /\ Len(secs) = 1 /\ secs[1].op = "ready"
    PROVE  /\ Rest' /\ sleeping' \in 0..2 /\ ThreadInv'
           /\ thread' \in [Threads -> Seq(Section)]
           /\ \A s \in Todo : s.op = "flush" /\ The(a).op # "flush" => s \in Todo'
<1>0. TypeInv /\ ThreadInv
  BY DEF TasksInv, BaseInv
<1>1. Signallers' = Signallers
  BY <1>0, ThenSignals DEF TopSignal
<1>2. /\ \A s \in Todo : s.op \in {"signal", "list", "mark"} => s \in Todo'
      /\ \A s \in Todo' : s.op \in {"signal", "running"} => s \in Todo
      /\ \A s \in Todo : s.op = "flush" /\ The(a).op # "flush" => s \in Todo'
  BY <1>0, ThenTodo
<1>3. Rest' /\ sleeping' \in 0..2
  BY <1>1, <1>2, QuietRest
<1>4. /\ kind' = kind /\ \A n \in Nodes : Exists(n) => Exists(n)'
      /\ \A n \in Nodes : mid[n].pc # "none" => mid'[n].pc # "none"
  BY DEF Quiet, Exists
<1>5. secs = <<>> => Len(secs) = 0
  BY EmptySeq
<1>6. ThreadInv'
  BY <1>0, <1>4, <1>5, ThenThread
<1> QED
  BY <1>0, <1>2, <1>3, <1>6, ThenFacts

(* A goroutine starts a call in such a step. *)
LEMMA QuietPut ==
    ASSUME TasksInv, Quiet, NEW a \in Threads, thread[a] = <<>>,
           NEW secs \in Seq(Section), Put(a, secs), InOrder(secs, a),
           \A i \in 1..Len(secs) :
              secs[i].op \notin {"signal", "list", "mark", "running"} /\ Fitting(secs[i])'
    PROVE  /\ Rest' /\ sleeping' \in 0..2 /\ ThreadInv'
           /\ thread' \in [Threads -> Seq(Section)]
           /\ \A s \in Todo : s.op = "flush" => s \in Todo'
<1>0. TypeInv /\ ThreadInv
  BY DEF TasksInv, BaseInv
<1>1. Signallers' = Signallers
  BY <1>0, PutSignals DEF TopSignal
<1>2. /\ \A s \in Todo : s \in Todo'
      /\ \A s \in Todo' : s.op \in {"signal", "running"} => s \in Todo
  BY <1>0, PutTodo
<1>3. Rest' /\ sleeping' \in 0..2
  BY <1>1, <1>2, QuietRest
<1>4. /\ kind' = kind /\ \A n \in Nodes : Exists(n) => Exists(n)'
      /\ \A n \in Nodes : mid[n].pc # "none" => mid'[n].pc # "none"
  BY DEF Quiet, Exists
<1>6. ThreadInv'
  BY <1>0, <1>4, PutThread
<1> QED
  BY <1>0, <1>2, <1>3, <1>6, PutTodo

(* Nobody goes on. *)
LEMMA QuietStay ==
    ASSUME TasksInv, Quiet, UNCHANGED thread
    PROVE  /\ Rest' /\ sleeping' \in 0..2 /\ ThreadInv'
           /\ thread' \in [Threads -> Seq(Section)]
           /\ Todo' = Todo
<1>0. TypeInv /\ ThreadInv
  BY DEF TasksInv, BaseInv
<1>1. Signallers' = Signallers /\ Todo' = Todo
  BY DEF Signallers, Todo
<1>2. Rest' /\ sleeping' \in 0..2
  BY <1>1, QuietRest
<1>3. \A s \in Todo : Fitting(s) => Fitting(s)'
  BY DEF Quiet, Fitting, Exists, Shared, Todo, Section
<1>4. ThreadInv'
  BY <1>0, <1>1, <1>3 DEF ThreadInv
<1> QED
  BY <1>0, <1>1, <1>2, <1>4 DEF TypeInv

-----------------------------------------------------------------------------
(* The parts that most steps leave alone. *)

(* Once the task has been started it exists, and handles are of nodes that do. *)
LEMMA StartKept ==
    ASSUME StartInv, kind' = kind,
           phase = "new" => UNCHANGED <<phase, thread, node, timers, sleeping>>,
           phase # "new" => phase' # "new",
           \A n \in Nodes : Exists(n) => Exists(n)',
           \A n \in Nodes : mid[n].pc # "none" => mid'[n].pc # "none",
           \A n \in Nodes : holder'[n] # None => holder[n] # None \/ Held(n),
           tasks' => tasks
    PROVE  StartInv'
<1>1. Top \in Nodes
  BY DEF Nodes
<1>2. tasks' => Shared'
  BY DEF StartInv, Shared
<1>3. \A n \in Nodes : holder'[n] # None => Held(n)'
  BY DEF StartInv, Held, Shared
<1>4. phase' # "new" => Exists(Top)'
  BY <1>1 DEF StartInv
<1>5. phase' = "new" =>
         /\ \A a \in Threads : thread'[a] = <<>>
         /\ \A n \in Nodes : ~Exists(n)' /\ timers'[n] = 0
         /\ sleeping' = 0
  BY DEF StartInv, Exists
<1> QED
  BY <1>2, <1>3, <1>4, <1>5 DEF StartInv

(* The parts make up the invariant. *)
LEMMA Whole ==
    ASSUME Rest', sleeping' \in 0..2, thread' \in [Threads -> Seq(Section)], Types',
           ThreadInv', StartInv', MidInv', ThrottleInv'
    PROVE  TasksInv'
<1>1. \A a \in Threads : \A i \in DOMAIN thread'[a] :
         thread'[a][i].op \in Sections /\ thread'[a][i].n \in Nodes
  <2> TAKE a \in Threads
  <2>1. thread'[a] \in Seq(Section)
    OBVIOUS
  <2>2. DOMAIN thread'[a] = 1..Len(thread'[a]) /\ thread'[a] \in [1..Len(thread'[a]) -> Section]
    BY <2>1, LenProperties
  <2> QED
    BY <2>2 DEF Section
<1>2. TypeInv'
  BY <1>1 DEF TypeInv, TypeOK, Types, Middleware
<1> QED
  BY <1>2 DEF TasksInv, BaseInv, Rest

(* And the invariant has these parts. *)
LEMMA Parts ==
    ASSUME TasksInv
    PROVE  /\ TypeInv /\ ThreadInv /\ StartInv /\ MidInv /\ ThrottleInv
           /\ EndInv /\ AgreeInv /\ CountInv /\ RemovalInv /\ TreeInv /\ CoverInv
           /\ Types /\ sleeping \in 0..2 /\ sleeping \in Nat
           /\ thread \in [Threads -> Seq(Section)] /\ Top \in Nodes /\ Kids \subseteq Nodes
BY TypesSplit DEF TasksInv, BaseInv, Nodes

(* A step that changes neither the node nor the removals is quiet. *)
LEMMA QuietFrame ==
    ASSUME TasksInv,
           UNCHANGED <<kind, node, kids, revived, late, phase, sleeping, tasks>>,
           \A n \in Nodes : mid'[n].ended = mid[n].ended,
           \A n \in Nodes : mid[n].pc # "none" => mid'[n].pc # "none"
    PROVE  Quiet
BY Parts DEF Quiet

(* The sections that calls are made of. *)
LEMMA Made ==
    /\ \A op, n, x : Do(op, n, x).op = op /\ Do(op, n, x).n = n /\ Do(op, n, x).x = x
    /\ \A n \in Nodes :
         /\ \A op \in {"managed", "ready", "scoped", "body", "collect", "send", "flush"} :
              Do(op, n, None) \in Section
         /\ \A x \in {"running", "completed"} : Do("set", n, x) \in Section
         /\ \A x \in Failures : Do("fail", n, x) \in Section /\ Do("list", n, x) \in Section
         /\ \A x \in Ends : Do("signal", n, x) \in Section
         /\ \A S \in SUBSET Nodes : Do("drop", n, S) \in Section
    /\ \A k \in Kids, x \in Failures : Do("mark", k, x) \in Section
    /\ Do("running", Top, None) \in Section /\ Do("completeTop", Top, None) \in Section
    /\ \A x \in Failures : Do("failTop", Top, x) \in Section
<1>1. Top \in Nodes /\ Kids \subseteq Nodes
  BY DEF Nodes
<1>2. None \in Args /\ Ends \subseteq Args /\ Failures \subseteq Args /\ SUBSET Nodes \subseteq Args
      /\ "running" \in Args /\ "completed" \in Args /\ Failures \subseteq Ends
  BY DEF Args, Ends
<1>3. \A op, n, x : Do(op, n, x).op = op /\ Do(op, n, x).n = n /\ Do(op, n, x).x = x
  BY DEF Do
<1>4. \A op \in Sections, n \in Nodes, x \in Args : Do(op, n, x) \in [op : Sections, n : Nodes, x : Args]
  BY DEF Do
<1>5. \A op \in {"managed", "ready", "scoped", "body", "collect", "send", "flush"}, n \in Nodes :
        Do(op, n, None) \in Section
  BY <1>2, <1>3, <1>4 DEF Section, Sections
<1>6. \A n \in Nodes, x \in {"running", "completed"} : Do("set", n, x) \in Section
  BY <1>2, <1>3, <1>4 DEF Section, Sections
<1>7. \A n \in Nodes, x \in Failures : Do("fail", n, x) \in Section /\ Do("list", n, x) \in Section
  BY <1>2, <1>3, <1>4 DEF Section, Sections
<1>8. \A n \in Nodes, x \in Ends : Do("signal", n, x) \in Section
  BY <1>2, <1>3, <1>4 DEF Section, Sections
<1>9. \A n \in Nodes, S \in SUBSET Nodes : Do("drop", n, S) \in Section
  <2> TAKE n \in Nodes, S \in SUBSET Nodes
  <2>1. S \in Args
    BY <1>2
  <2>2. Do("drop", n, S) \in [op : Sections, n : Nodes, x : Args]
    BY <1>4, <2>1 DEF Sections
  <2> QED
    BY <1>3, <2>2 DEF Section
<1>10. \A k \in Kids, x \in Failures : Do("mark", k, x) \in Section
  BY <1>1, <1>2, <1>3, <1>4 DEF Section, Sections
<1>11. Do("running", Top, None) \in Section /\ Do("completeTop", Top, None) \in Section
  BY <1>1, <1>2, <1>3, <1>4 DEF Section, Sections
<1>12. \A x \in Failures : Do("failTop", Top, x) \in Section
  BY <1>1, <1>2, <1>3, <1>4 DEF Section, Sections
<1> QED
  BY <1>3, <1>5, <1>6, <1>7, <1>8, <1>9, <1>10, <1>11, <1>12

-----------------------------------------------------------------------------
(* The middleware's sections. *)

(* runManaged *)
LEMMA runManagedKeeps ==
    ASSUME TasksInv, NEW a \in Threads, runManaged(a)
    PROVE  TasksInv'
<1>0. At(a, "managed") /\ UNCHANGED <<nodeVars, managerVars, userVars, historyVars>>
  BY DEF runManaged
<1>1. PICK n \in Nodes : n = The(a).n
  BY <1>0, Parts, AtFacts
<1> DEFINE secs == <<Do("ready", n, None)>>
<1>2. mid' = [mid EXCEPT ![n].pc = "begin", ![n].open = TRUE] /\ Then(a, secs)
  BY <1>1 DEF runManaged
<1>3. thread[a] # <<>> /\ The(a).op = "managed" /\ Fitting(The(a))
  BY <1>0, Parts, AtFacts
<1>4. secs \in Seq(Section) /\ Len(secs) = 1 /\ secs[1] = Do("ready", n, None)
  BY Short, Made
<1>5. mid \in [Nodes -> Middleware]
  BY Parts DEF Types
<1>6. /\ mid' \in [Nodes -> Middleware]
      /\ \A m \in Nodes : m # n => mid'[m] = mid[m]
      /\ mid'[n].pc = "begin" /\ mid'[n].open /\ mid'[n].ended = mid[n].ended
      /\ mid'[n].done = mid[n].done
  BY <1>2, <1>5 DEF Middleware
<1>7. \A m \in Nodes : mid'[m].ended = mid[m].ended
      /\ (mid[m].pc # "none" => mid'[m].pc # "none")
  BY <1>6
<1>8. MidInv'
  BY <1>6, Parts DEF MidInv
<1>9. Quiet
  BY <1>0, <1>7, QuietFrame DEF nodeVars, managerVars, userVars, historyVars
<1>10. \A i \in 1..Len(secs) : secs[i].op = "ready" /\ secs[i].n = n
  BY <1>4, Made
<1>11. Exists(n)' /\ \A i \in 1..Len(secs) : Fitting(secs[i])'
  BY <1>0, <1>1, <1>3, <1>6, <1>10 DEF Fitting, Exists, nodeVars
<1> HIDE DEF secs
<1>12. /\ Rest' /\ sleeping' \in 0..2 /\ ThreadInv'
       /\ thread' \in [Threads -> Seq(Section)]
       /\ \A s \in Todo : s.op = "flush" => s \in Todo'
  BY <1>2, <1>3, <1>4, <1>9, <1>10, <1>11, QuietThen
<1>13. StartInv'
  BY <1>0, <1>3, <1>7, Parts, StartKept DEF StartInv, Exists, nodeVars, managerVars, userVars, historyVars
<1>14. ThrottleInv'
  BY <1>0, <1>12, Parts, ThrottleKept DEF managerVars
<1>16. Types'
  BY <1>0, <1>6, Parts DEF Types, nodeVars, managerVars, userVars, historyVars
<1> QED
  BY <1>8, <1>12, <1>13, <1>14, <1>16, Whole

(* A section that leaves the nodes, the middleware and the manager alone. *)
LEMMA QuietStep ==
    ASSUME TasksInv, NEW a \in Threads, thread[a] # <<>>, Then(a, <<>>),
           The(a).op \notin {"signal", "list", "mark", "flush"},
           UNCHANGED <<kind, node, kids, revived, late, sleeping, tasks, mid, throttle, timers>>,
           phase' # "new", Types',
           \A n \in Nodes : holder'[n] # None => holder[n] # None \/ Held(n)
    PROVE  TasksInv'
<1>1. Quiet
  BY Parts DEF Quiet
<1>2. <<>> \in Seq(Section) /\ Len(<<>>) = 0
  BY Short
<1>3. /\ Rest' /\ sleeping' \in 0..2 /\ ThreadInv'
      /\ thread' \in [Threads -> Seq(Section)]
      /\ \A s \in Todo : s.op = "flush" => s \in Todo'
  <2> DEFINE secs == <<>>
  <2>1. secs \in Seq(Section) /\ Len(secs) = 0 /\ Then(a, secs) /\ secs = <<>>
    BY <1>2
  <2> HIDE DEF secs
  <2>2. \A i \in 1..Len(secs) :
           secs[i].op \notin {"signal", "list", "mark", "running"} /\ Fitting(secs[i])'
    BY <2>1
  <2> QED
    BY <1>1, <2>1, <2>2, QuietThen
<1>4. StartInv'
  BY Parts, StartKept DEF StartInv, Exists
<1>5. MidInv' /\ ThrottleInv'
  BY <1>3, Parts, ThrottleKept DEF MidInv
<1> QED
  BY <1>3, <1>4, <1>5, Whole

(* A call that does no more than start. *)
LEMMA QuietCall ==
    ASSUME TasksInv, NEW a \in Threads, thread[a] = <<>>,
           NEW secs \in Seq(Section), Put(a, secs), InOrder(secs, a),
           \A i \in 1..Len(secs) :
              secs[i].op \notin {"signal", "list", "mark", "running"} /\ Fitting(secs[i]),
           UNCHANGED <<kind, node, kids, revived, late, sleeping, tasks, mid,
                       throttle, timers>>,
           phase # "new", phase' # "new", Types',
           \A n \in Nodes : holder'[n] # None => holder[n] # None \/ Held(n)
    PROVE  TasksInv'
<1>1. Quiet
  BY Parts DEF Quiet
<1>2. \A i \in 1..Len(secs) : Fitting(secs[i])'
  BY DEF Fitting, Exists, Shared
<1>3. /\ Rest' /\ sleeping' \in 0..2 /\ ThreadInv'
      /\ thread' \in [Threads -> Seq(Section)]
      /\ \A s \in Todo : s.op = "flush" => s \in Todo'
  BY <1>1, <1>2, QuietPut
<1>4. StartInv'
  BY Parts, StartKept DEF StartInv, Exists
<1>5. MidInv' /\ ThrottleInv'
  BY <1>3, Parts, ThrottleKept DEF MidInv
<1> QED
  BY <1>3, <1>4, <1>5, Whole

(* runManagedReturns *)
LEMMA runManagedReturnsKeeps ==
    ASSUME TasksInv, NEW a \in Threads, runManagedReturns(a)
    PROVE  TasksInv'
<1>0. /\ At(a, "ready") /\ Then(a, <<>>)
      /\ UNCHANGED <<node, kids, managerVars, userVars, historyVars, mid>>
      /\ holder' = [holder EXCEPT ![The(a).n] = a]
  BY DEF runManagedReturns
<1>1. thread[a] # <<>> /\ The(a).op = "ready" /\ The(a).n \in Nodes /\ Exists(The(a).n)
      /\ mid[The(a).n].pc # "none"
  BY <1>0, Parts, AtFacts DEF Fitting
<1>2. phase' # "new"
  BY <1>0, <1>1, Parts DEF StartInv, userVars
<1>3. \A n \in Nodes : holder'[n] # None => holder[n] # None \/ Held(n)
  BY <1>0, <1>1, Parts DEF Types, Held
<1>4. a \in Callables
  BY <1>0, Parts, AtFacts
<1>5. Types'
  BY <1>0, <1>1, <1>4, Parts DEF Types, managerVars, userVars, historyVars
<1> QED
  BY <1>0, <1>1, <1>2, <1>3, <1>5, QuietStep DEF managerVars, userVars, historyVars

(* runScoped *)
LEMMA runScopedKeeps ==
    ASSUME TasksInv, NEW a \in Threads, runScoped(a)
    PROVE  TasksInv'
<1>0. /\ At(a, "scoped") /\ Then(a, <<>>)
      /\ UNCHANGED <<node, kids, managerVars, userVars, historyVars, mid>>
      /\ holder' = [holder EXCEPT ![The(a).n] = a] \/ holder' = holder
  BY DEF runScoped
<1>1. thread[a] # <<>> /\ The(a).op = "scoped" /\ The(a).n \in Nodes /\ Exists(The(a).n)
      /\ a \in Callables /\ (The(a).n = Top => Shared)
  BY <1>0, Parts, AtFacts DEF Fitting
<1>2. phase' # "new"
  BY <1>0, <1>1, Parts DEF StartInv, userVars
<1>3. \A n \in Nodes : holder'[n] # None => holder[n] # None \/ Held(n)
  BY <1>0, <1>1, Parts DEF Types, Held
<1>4. Types'
  BY <1>0, <1>1, Parts DEF Types, managerVars, userVars, historyVars
<1> QED
  BY <1>0, <1>1, <1>2, <1>3, <1>4, QuietStep DEF managerVars, userVars, historyVars

-----------------------------------------------------------------------------
(* The handler, and the calls on handles. *)

(* The call that started the task returns. *)
LEMMA startReturnsKeeps ==
    ASSUME TasksInv, startReturns
    PROVE  TasksInv'
<1>0. /\ At(Handler, "body") /\ Then(Handler, <<>>) /\ phase' = "body"
      /\ UNCHANGED <<nodeVars, managerVars, kind, slot, calls, cancels,
                     historyVars, mid>>
  BY DEF startReturns
<1>1. Handler \in Threads
  BY DEF Threads, Callables
<1>2. thread[Handler] # <<>> /\ The(Handler).op = "body"
  BY <1>0, <1>1, Parts, AtFacts
<1>3. Types'
  BY <1>0, Parts DEF Types, nodeVars, managerVars, historyVars
<1> QED
  BY <1>0, <1>1, <1>2, <1>3, QuietStep DEF nodeVars, managerVars, historyVars

(* A call of one section. *)
LEMMA OneOrder ==
    ASSUME NEW a, NEW s \in Section,
           s.op \notin {"running", "managed", "ready", "scoped"}
    PROVE  InOrder(<<s>>, a)
<1> DEFINE q == <<s>>
<1>1. Len(q) = 1 /\ q[1] = s
  BY Short
<1> HIDE DEF q
<1>2. InOrder(q, a)
  BY <1>1 DEF InOrder
<1> QED
  BY <1>2 DEF q

(* The callers' goroutines. *)
LEMMA CallFacts ==
    ASSUME TasksInv, NEW a \in Callables, NEW secs, Call(a, secs), MayCall(a),
           kind' = kind
    PROVE  /\ a \in Threads /\ a # None /\ thread[a] = <<>> /\ Put(a, secs)
           /\ phase # "new" /\ Exists(Top)
           /\ calls' \in 0..MaxCalls[kind] /\ cancels' = cancels
<1>1. a \in Threads /\ a # None
  BY TasksAssumption DEF Threads
<1>2. thread[a] = <<>> /\ Put(a, secs) /\ calls < MaxCalls[kind] /\ calls' = calls + 1
      /\ cancels' = cancels
  BY DEF Call, Put
<1>3. MaxCalls[kind] \in Nat
  BY Parts, TasksAssumption DEF Types
<1>4. calls \in 0..MaxCalls[kind]
  BY Parts DEF Types
<1>5. phase # "new" /\ Exists(Top)
  BY Parts DEF MayCall, StartInv
<1> QED
  BY <1>1, <1>2, <1>3, <1>4, <1>5

(* A call of one section, by a goroutine that leaves the rest alone. *)
LEMMA OneCall ==
    ASSUME TasksInv, NEW a \in Threads, thread[a] = <<>>,
           NEW s \in Section, Put(a, <<s>>), Fitting(s),
           s.op \notin {"running", "managed", "ready", "scoped", "signal", "list", "mark"},
           UNCHANGED <<kind, node, kids, revived, late, sleeping, tasks, mid,
                       throttle, timers>>,
           phase # "new", phase' # "new", Types',
           \A n \in Nodes : holder'[n] # None => holder[n] # None
    PROVE  TasksInv'
<1> DEFINE secs == <<s>>
<1>1. secs \in Seq(Section) /\ Len(secs) = 1 /\ secs[1] = s
  BY Short
<1>2. InOrder(secs, a) /\ Put(a, secs)
  BY OneOrder
<1> HIDE DEF secs
<1>3. \A i \in 1..Len(secs) :
        secs[i].op \notin {"signal", "list", "mark", "running"} /\ Fitting(secs[i])
  BY <1>1
<1> QED
  BY <1>1, <1>2, <1>3, QuietCall

(* A call of nothing. *)
LEMMA NoCall ==
    ASSUME TasksInv, NEW a \in Threads, thread[a] = <<>>, Put(a, <<>>),
           UNCHANGED <<kind, node, kids, revived, late, sleeping, tasks, mid,
                       throttle, timers>>,
           phase # "new", phase' # "new", Types',
           \A n \in Nodes : holder'[n] # None => holder[n] # None
    PROVE  TasksInv'
<1> DEFINE secs == <<>>
<1>1. secs \in Seq(Section) /\ Len(secs) = 0
  BY Short
<1>2. Put(a, secs)
  OBVIOUS
<1> HIDE DEF secs
<1>3. InOrder(secs, a) /\ \A i \in 1..Len(secs) :
        secs[i].op \notin {"signal", "list", "mark", "running"} /\ Fitting(secs[i])
  BY <1>1 DEF InOrder
<1> QED
  BY <1>1, <1>2, <1>3, QuietCall

(* The section that ends a node, by result. *)
LEMMA EndSection ==
    ASSUME NEW r \in Ends, NEW n \in Nodes, Exists(n)
    PROVE  /\ n \in Kids \/ ~Shared =>
                \E s \in Section :
                  /\ s.op \in {"set", "fail"} /\ Fitting(s)
                  /\ (IF r = "ok" THEN closeNode(n) ELSE failNode(n, r)) = <<s>>
                  /\ n = Top => (IF r = "ok" THEN Do("set", Top, "completed")
                                 ELSE Do("fail", Top, r)) = s
           /\ n = Top /\ Shared =>
                \E s \in Section :
                  /\ s.op \in {"completeTop", "failTop"} /\ Fitting(s)
                  /\ (IF r = "ok" THEN Do("completeTop", Top, None)
                      ELSE Do("failTop", Top, r)) = s
<1>1. ASSUME n \in Kids \/ ~Shared
      PROVE \E s \in Section :
                  /\ s.op \in {"set", "fail"} /\ Fitting(s)
                  /\ (IF r = "ok" THEN closeNode(n) ELSE failNode(n, r)) = <<s>>
                  /\ n = Top => (IF r = "ok" THEN Do("set", Top, "completed")
                                 ELSE Do("fail", Top, r)) = s
  <2> DEFINE s == IF r = "ok" THEN Do("set", n, "completed") ELSE Do("fail", n, r)
  <2>1. (IF r = "ok" THEN closeNode(n) ELSE failNode(n, r)) = <<s>>
    BY DEF closeNode, failNode
  <2>2. s \in Section /\ s.op \in {"set", "fail"} /\ s.n = n
    BY Made DEF Ends
  <2>3. n = Top => (IF r = "ok" THEN Do("set", Top, "completed") ELSE Do("fail", Top, r)) = s
    OBVIOUS
  <2> HIDE DEF s
  <2>4. Fitting(s)
    BY <1>1, <2>2, TasksAssumption DEF Fitting
  <2> QED
    BY <2>1, <2>2, <2>3, <2>4
<1>2. ASSUME n = Top, Shared
      PROVE \E s \in Section :
                  /\ s.op \in {"completeTop", "failTop"} /\ Fitting(s)
                  /\ (IF r = "ok" THEN Do("completeTop", Top, None)
                      ELSE Do("failTop", Top, r)) = s
  <2> DEFINE s == IF r = "ok" THEN Do("completeTop", Top, None) ELSE Do("failTop", Top, r)
  <2>1. s \in Section /\ s.op \in {"completeTop", "failTop"} /\ s.n = n
    BY <1>2, Made DEF Ends
  <2> HIDE DEF s
  <2>2. Fitting(s)
    BY <1>2, <2>1 DEF Fitting
  <2> QED
    BY <2>1, <2>2 DEF s
<1> QED
  BY <1>1, <1>2

(* The handler returns. *)
LEMMA HandlerReturnsKeeps ==
    ASSUME TasksInv, NEW r \in Ends, HandlerReturns(r)
    PROVE  TasksInv'
<1>0. /\ phase = "body" /\ thread[Handler] = <<>> /\ phase' = "returned"
      /\ Put(Handler, finalizeTaskSlot(r))
      /\ UNCHANGED <<nodeVars, managerVars, kind, slot, calls, cancels,
                     historyVars, mid>>
  BY DEF HandlerReturns, Put
<1>1. Handler \in Threads
  BY DEF Threads, Callables
<1>2. Types'
  BY <1>0, Parts DEF Types, nodeVars, managerVars, historyVars
<1>3. Exists(Top)
  BY <1>0, Parts DEF StartInv
<1>4. CASE ~slot
  <2>1. Put(Handler, <<>>)
    BY <1>0, <1>4 DEF finalizeTaskSlot
  <2> QED
    BY <1>0, <1>1, <1>2, <2>1, NoCall DEF nodeVars, managerVars, historyVars
<1>5. CASE slot
  <2>1. PICK s \in Section :
           /\ s.op \in {"completeTop", "failTop", "set", "fail"} /\ Fitting(s)
           /\ finalizeTaskSlot(r) = <<s>>
    <3>1. CASE Shared
      BY <1>3, <1>5, <3>1, Parts, EndSection DEF finalizeTaskSlot
    <3>2. CASE ~Shared
      <4>1. PICK s \in Section : s.op \in {"set", "fail"} /\ Fitting(s) /\
                (IF r = "ok" THEN Do("set", Top, "completed") ELSE Do("fail", Top, r)) = s
        BY <1>3, <3>2, Parts, EndSection
      <4>2. finalizeTaskSlot(r) = <<s>>
        BY <1>5, <3>2, <4>1 DEF finalizeTaskSlot
      <4> QED
        BY <4>1, <4>2
    <3> QED
      BY <3>1, <3>2
  <2> QED
    BY <1>0, <1>1, <1>2, <2>1, OneCall DEF nodeVars, managerVars, historyVars
<1> QED
  BY <1>4, <1>5

(* Nobody's section, nor a call. *)
LEMMA QuietStill ==
    ASSUME TasksInv, Quiet, UNCHANGED <<thread, holder>>,
           phase = "new" => UNCHANGED <<phase, timers, sleeping>>,
           Types', MidInv', ThrottleInv'
    PROVE  TasksInv'
<1>1. /\ Rest' /\ sleeping' \in 0..2 /\ ThreadInv'
      /\ thread' \in [Threads -> Seq(Section)]
  BY QuietStay
<1>2. StartInv'
  BY Parts, StartKept DEF Quiet, Exists
<1> QED
  BY <1>1, <1>2, Whole

(* The handler panics. *)
LEMMA HandlerPanicsKeeps ==
    ASSUME TasksInv, HandlerPanics
    PROVE  TasksInv'
<1>0. /\ phase = "body" /\ phase' = "returned"
      /\ UNCHANGED <<nodeVars, managerVars, kind, slot, calls, cancels,
                     historyVars, mid, thread>>
  BY DEF HandlerPanics
<1>1. Types'
  BY <1>0, Parts DEF Types, nodeVars, managerVars, historyVars
<1>2. Quiet
  BY <1>0, Parts DEF Quiet, nodeVars, managerVars, historyVars
<1>3. Todo' = Todo
  BY <1>0, SameTodo
<1>4. MidInv' /\ ThrottleInv'
  BY <1>0, <1>3, Parts, ThrottleKept DEF MidInv, managerVars
<1> QED
  BY <1>0, <1>1, <1>2, <1>4, QuietStill DEF nodeVars

(* The handle of a sub-task ends it. *)
LEMMA EndSubKeeps ==
    ASSUME TasksInv, NEW a \in Callables, NEW k \in Kids, NEW r \in Ends, EndSub(a, k, r)
    PROVE  TasksInv'
<1>0. /\ MayCall(a) /\ holder[k] = a
      /\ Call(a, IF r = "ok" THEN closeNode(k) ELSE failNode(k, r))
      /\ UNCHANGED <<nodeVars, mid, managerVars, kind, phase, slot, historyVars>>
  BY DEF EndSub
<1>1. /\ a \in Threads /\ a # None /\ thread[a] = <<>> /\ phase # "new"
      /\ calls' \in 0..MaxCalls[kind] /\ cancels' = cancels
      /\ Put(a, IF r = "ok" THEN closeNode(k) ELSE failNode(k, r))
  BY <1>0, CallFacts
<1>2. k \in Nodes /\ Exists(k)
  BY <1>0, <1>1, Parts DEF StartInv, Held
<1>3. PICK s \in Section : s.op \in {"set", "fail"} /\ Fitting(s) /\ Put(a, <<s>>)
  BY <1>1, <1>2, EndSection
<1>4. Types'
  BY <1>0, <1>1, Parts DEF Types, nodeVars, managerVars, historyVars
<1> QED
  BY <1>0, <1>1, <1>3, <1>4, OneCall DEF nodeVars, managerVars, historyVars

(* The function of a sub-task returns. *)
LEMMA SubTaskEndsKeeps ==
    ASSUME TasksInv, NEW a \in Callables, NEW k \in Kids, NEW r \in Ends, SubTaskEnds(a, k, r)
    PROVE  TasksInv'
<1>0. /\ MayCall(a) /\ holder[k] = a /\ holder' = [holder EXCEPT ![k] = None]
      /\ Call(a, IF r = "ok" THEN closeNode(k) ELSE failNode(k, r))
      /\ UNCHANGED <<node, kids, mid, managerVars, kind, phase, slot, historyVars>>
  BY DEF SubTaskEnds, InScope
<1>1. /\ a \in Threads /\ a # None /\ thread[a] = <<>> /\ phase # "new"
      /\ calls' \in 0..MaxCalls[kind] /\ cancels' = cancels
      /\ Put(a, IF r = "ok" THEN closeNode(k) ELSE failNode(k, r))
  BY <1>0, CallFacts
<1>2. k \in Nodes /\ Exists(k)
  BY <1>0, <1>1, Parts DEF StartInv, Held
<1>3. PICK s \in Section : s.op \in {"set", "fail"} /\ Fitting(s) /\ Put(a, <<s>>)
  BY <1>1, <1>2, EndSection
<1>4. Types'
  BY <1>0, <1>1, Parts DEF Types, managerVars, historyVars
<1>5. \A n \in Nodes : holder'[n] # None => holder[n] # None
  BY <1>0, Parts DEF Types
<1> QED
  BY <1>0, <1>1, <1>3, <1>4, <1>5, OneCall DEF managerVars, historyVars

(* Task.Close, Task.Fail and Task.Err *)
LEMMA EndTaskKeeps ==
    ASSUME TasksInv, NEW a \in Callables, NEW r \in Ends, EndTask(a, r)
    PROVE  TasksInv'
<1> DEFINE secs == IF ~Shared
               THEN IF r = "ok" THEN closeNode(Top) ELSE failNode(Top, r)
               ELSE <<IF r = "ok" THEN Do("completeTop", Top, None)
                      ELSE Do("failTop", Top, r)>>
<1>0. /\ MayCall(a) /\ Call(a, secs)
      /\ UNCHANGED <<nodeVars, mid, managerVars, kind, phase, slot,
                     historyVars>>
  BY DEF EndTask
<1>1. /\ a \in Threads /\ thread[a] = <<>> /\ phase # "new" /\ Exists(Top)
      /\ calls' \in 0..MaxCalls[kind] /\ cancels' = cancels
      /\ Put(a, secs)
  BY <1>0, CallFacts
<1>2. PICK s \in Section : s.op \in {"completeTop", "failTop", "set", "fail"} /\ Fitting(s)
                           /\ secs = <<s>>
  BY <1>1, Parts, EndSection
<1>3. Put(a, <<s>>)
  BY <1>1, <1>2
<1>4. Types'
  BY <1>0, <1>1, Parts DEF Types, nodeVars, managerVars, historyVars
<1> QED
  BY <1>0, <1>1, <1>2, <1>3, <1>4, OneCall DEF nodeVars, managerVars, historyVars

(* The function of SharedSubTask returns. *)
LEMMA SharedSubTaskEndsKeeps ==
    ASSUME TasksInv, NEW a \in Callables, NEW r \in Ends, SharedSubTaskEnds(a, r)
    PROVE  TasksInv'
<1> DEFINE secs == <<IF r = "ok" THEN Do("completeTop", Top, None)
                      ELSE Do("failTop", Top, r)>>
<1>0. /\ MayCall(a) /\ Call(a, secs) /\ holder' = [holder EXCEPT ![Top] = None]
      /\ UNCHANGED <<node, kids, mid, managerVars, kind, phase, slot,
                     historyVars>>
  BY DEF SharedSubTaskEnds
<1>1. /\ a \in Threads /\ thread[a] = <<>> /\ phase # "new" /\ Exists(Top)
      /\ calls' \in 0..MaxCalls[kind] /\ cancels' = cancels
      /\ Put(a, secs)
  BY <1>0, CallFacts
<1>a. holder[Top] = a /\ mid[Top].pc = "none" /\ a # None
  BY TasksAssumption DEF SharedSubTaskEnds, InScope
<1>b. Shared
  BY <1>a, Parts DEF StartInv, Held
<1>2. PICK s \in Section : s.op \in {"completeTop", "failTop"} /\ Fitting(s) /\ secs = <<s>>
  BY <1>1, <1>b, Parts, EndSection
<1>3. Put(a, <<s>>)
  BY <1>1, <1>2
<1>4. Types'
  BY <1>0, <1>1, Parts DEF Types, managerVars, historyVars
<1>5. \A n \in Nodes : holder'[n] # None => holder[n] # None
  BY <1>0, Parts DEF Types
<1> QED
  BY <1>0, <1>1, <1>2, <1>3, <1>4, <1>5, OneCall DEF managerVars, historyVars

(* Progress *)
LEMMA ProgressKeeps ==
    ASSUME TasksInv, NEW a \in Callables, NEW n \in Nodes, Progress(a, n)
    PROVE  TasksInv'
<1>0. /\ MayCall(a) /\ HasHandle(n) /\ Call(a, <<Do("send", n, None)>>)
      /\ UNCHANGED <<nodeVars, mid, managerVars, kind, phase, slot,
                     historyVars>>
  BY DEF Progress
<1>1. /\ a \in Threads /\ thread[a] = <<>> /\ phase # "new" /\ Exists(Top)
      /\ calls' \in 0..MaxCalls[kind] /\ cancels' = cancels
      /\ Put(a, <<Do("send", n, None)>>)
  BY <1>0, CallFacts
<1>2. Exists(n)
  BY <1>0, <1>1, Parts DEF HasHandle, StartInv, Held
<1>3. Do("send", n, None) \in Section /\ Fitting(Do("send", n, None))
      /\ Do("send", n, None).op = "send"
  BY <1>2, Made DEF Fitting
<1>4. Types'
  BY <1>0, <1>1, Parts DEF Types, nodeVars, managerVars, historyVars
<1> QED
  BY <1>0, <1>1, <1>3, <1>4, OneCall DEF nodeVars, managerVars, historyVars

-----------------------------------------------------------------------------
(* Cancelling, and the manager. *)

(* A cancel. *)
LEMMA CancelFacts ==
    ASSUME TasksInv, NEW a \in Cancelers, NEW secs, Cancel(a, secs), phase # "new", tasks
    PROVE  /\ a \in Threads /\ thread[a] = <<>> /\ Put(a, secs) /\ Exists(Top)
           /\ cancels' \in 0..MaxCancels /\ calls' = calls
           /\ Do("failTop", Top, "canceled") \in Section
           /\ Do("failTop", Top, "canceled").op = "failTop"
           /\ Fitting(Do("failTop", Top, "canceled"))
<1>1. a \in Threads
  BY DEF Threads
<1>2. thread[a] = <<>> /\ Put(a, secs) /\ cancels < MaxCancels /\ cancels' = cancels + 1
      /\ calls' = calls
  BY DEF Cancel, Put
<1>3. cancels \in 0..MaxCancels /\ MaxCancels \in Nat
  BY Parts, TasksAssumption DEF Types
<1>4. Exists(Top) /\ Shared
  BY Parts DEF StartInv
<1>5. Do("failTop", Top, "canceled") \in Section /\ Fitting(Do("failTop", Top, "canceled"))
      /\ Do("failTop", Top, "canceled").op = "failTop"
  BY <1>4, Made DEF Fitting, Failures
<1>6. cancels' \in 0..MaxCancels
  BY <1>2, <1>3
<1> QED
  BY <1>1, <1>2, <1>4, <1>5, <1>6

(* CancelTaskByID *)
LEMMA CancelTaskByIDKeeps ==
    ASSUME TasksInv, NEW a \in Cancelers, CancelTaskByID(a)
    PROVE  TasksInv'
<1>0. /\ phase # "new" /\ tasks /\ Cancel(a, <<Do("failTop", Top, "canceled")>>)
      /\ UNCHANGED <<nodeVars, mid, managerVars, kind, phase, slot,
                     historyVars>>
  BY DEF CancelTaskByID
<1>1. /\ a \in Threads /\ thread[a] = <<>> /\ Put(a, <<Do("failTop", Top, "canceled")>>)
      /\ cancels' \in 0..MaxCancels /\ calls' = calls
      /\ Do("failTop", Top, "canceled") \in Section
      /\ Do("failTop", Top, "canceled").op = "failTop"
      /\ Fitting(Do("failTop", Top, "canceled"))
  BY <1>0, CancelFacts
<1>2. Types'
  BY <1>0, <1>1, Parts DEF Types, nodeVars, managerVars, historyVars
<1> QED
  BY <1>0, <1>1, <1>2, OneCall DEF nodeVars, managerVars, historyVars

(* remove *)
LEMMA removeKeeps ==
    ASSUME TasksInv, remove
    PROVE  TasksInv'
<1> DEFINE s == Do("collect", Top, None)
           secs == <<s>>
<1>0. /\ sleeping > 0 /\ thread[Remover] = <<>> /\ sleeping' = sleeping - 1
      /\ tasks' = FALSE /\ Put(Remover, secs)
      /\ UNCHANGED <<nodeVars, throttle, timers, userVars, historyVars, mid>>
  BY DEF remove, Put
<1>1. Remover \in Threads
  BY DEF Threads
<1>2. phase # "new" /\ Exists(Top)
  BY <1>0, Parts DEF StartInv
<1>3. s \in Section /\ s.op = "collect" /\ s.n = Top
  BY Parts, Made
<1>4. secs \in Seq(Section) /\ Len(secs) = 1 /\ secs[1] = s
  BY <1>3, Short
<1>5. InOrder(secs, Remover)
  BY <1>3, OneOrder
<1>6. Quiet
  BY <1>0, Parts DEF Quiet, nodeVars, userVars, historyVars
<1>7. Exists(Top)'
  BY <1>0, <1>2 DEF Exists, nodeVars
<1> HIDE DEF secs, s
<1>8. \A i \in 1..Len(secs) :
        secs[i].op \notin {"signal", "list", "mark", "running"} /\ Fitting(secs[i])'
  BY <1>3, <1>4, <1>7 DEF Fitting
<1>9. /\ Rest' /\ sleeping' \in 0..2 /\ ThreadInv'
      /\ thread' \in [Threads -> Seq(Section)]
      /\ \A t \in Todo : t.op = "flush" => t \in Todo'
  BY <1>0, <1>1, <1>4, <1>5, <1>6, <1>8, QuietPut
<1>10. StartInv'
  BY <1>0, <1>2, Parts, StartKept DEF Exists, nodeVars, userVars
<1>11. MidInv' /\ ThrottleInv'
  BY <1>0, <1>9, Parts, ThrottleKept DEF MidInv, userVars
<1>12. Types'
  BY <1>0, Parts DEF Types, nodeVars, userVars, historyVars
<1> QED
  BY <1>9, <1>10, <1>11, <1>12, Whole

(* collectIDs *)
LEMMA collectIDsKeeps ==
    ASSUME TasksInv, NEW a \in Threads, collectIDs(a)
    PROVE  TasksInv'
<1>0. /\ At(a, "collect")
      /\ UNCHANGED <<nodeVars, managerVars, userVars, historyVars, mid>>
  BY DEF collectIDs
<1>1. PICK S \in SUBSET Nodes : S = {n \in Nodes : node[n].status # "absent"}
  OBVIOUS
<1> DEFINE s == Do("drop", Top, S)
           secs == <<s>>
<1>2. Then(a, secs)
  BY <1>1 DEF collectIDs
<1>3. thread[a] # <<>> /\ The(a).op = "collect"
  BY <1>0, Parts, AtFacts
<1>4. phase # "new" /\ Exists(Top)
  BY <1>3, Parts DEF StartInv
<1>5. s \in Section /\ s.op = "drop" /\ s.n = Top
  BY Parts, Made
<1>6. secs \in Seq(Section) /\ Len(secs) = 1 /\ secs[1] = s
  BY <1>5, Short
<1>8. Quiet
  BY <1>0, QuietFrame DEF nodeVars, managerVars, userVars, historyVars
<1>9. Exists(Top)'
  BY <1>0, <1>4 DEF Exists, nodeVars
<1> HIDE DEF secs, s
<1>10. \A i \in 1..Len(secs) :
         /\ secs[i].op \notin {"signal", "list", "mark", "running"} /\ Fitting(secs[i])'
         /\ ~Final(secs[i]) /\ secs[i].op \notin {"managed", "ready", "running", "scoped"}
  BY <1>5, <1>6, <1>9 DEF Fitting, Final
<1>11. /\ Rest' /\ sleeping' \in 0..2 /\ ThreadInv'
       /\ thread' \in [Threads -> Seq(Section)]
       /\ \A t \in Todo : t.op = "flush" => t \in Todo'
  BY <1>2, <1>3, <1>6, <1>8, <1>10, QuietThen
<1>12. StartInv'
  BY <1>0, <1>4, Parts, StartKept DEF Exists, nodeVars, managerVars, userVars
<1>13. MidInv' /\ ThrottleInv'
  BY <1>0, <1>11, Parts, ThrottleKept DEF MidInv, userVars, managerVars
<1>14. Types'
  BY <1>0, Parts DEF Types, nodeVars, managerVars, userVars, historyVars
<1> QED
  BY <1>11, <1>12, <1>13, <1>14, Whole

-----------------------------------------------------------------------------
(* The progress throttle. *)

(* A section that changes the throttle and the timers only. *)
LEMMA ThrottleStep ==
    ASSUME TasksInv, NEW a \in Threads, thread[a] # <<>>, Then(a, <<>>),
           The(a).op \notin {"signal", "list", "mark"},
           UNCHANGED <<nodeVars, tasks, sleeping, userVars, historyVars, mid>>,
           throttle' \in [Nodes -> Entry \cup {None}], timers' \in [Nodes -> Nat],
           ThrottleInv'
    PROVE  TasksInv'
<1>1. Quiet
  BY Parts, QuietFrame DEF nodeVars, userVars, historyVars
<1>2. <<>> \in Seq(Section) /\ Len(<<>>) = 0
  BY Short
<1>3. /\ Rest' /\ sleeping' \in 0..2 /\ ThreadInv'
      /\ thread' \in [Threads -> Seq(Section)]
  <2> DEFINE secs == <<>>
  <2>1. secs \in Seq(Section) /\ Len(secs) = 0 /\ Then(a, secs) /\ secs = <<>>
    BY <1>2
  <2> HIDE DEF secs
  <2>2. \A i \in 1..Len(secs) :
           secs[i].op \notin {"signal", "list", "mark", "running"} /\ Fitting(secs[i])'
    BY <2>1
  <2> QED
    BY <1>1, <2>1, <2>2, QuietThen
<1>4. StartInv'
  <2>1. phase # "new"
    BY Parts DEF StartInv
  <2> QED
    BY <2>1, Parts, StartKept DEF Exists, nodeVars, userVars
<1>5. MidInv'
  BY Parts DEF MidInv, userVars
<1>6. Types'
  BY Parts DEF Types, nodeVars, userVars, historyVars
<1> QED
  BY <1>3, <1>4, <1>5, <1>6, Whole

(* What Todo keeps of the flushes when a section runs. *)
LEMMA FlushesKept ==
    ASSUME TasksInv, NEW a \in Threads, thread[a] # <<>>, Then(a, <<>>)
    PROVE  \A s \in Todo : s # The(a) => s \in Todo'
<1> DEFINE secs == <<>>
<1>1. secs \in Seq(Section) /\ Then(a, secs)
  BY Short
<1> HIDE DEF secs
<1> QED
  BY <1>1, Parts, ThenTodo

(* dropThrottles *)
LEMMA dropThrottlesKeeps ==
    ASSUME TasksInv, NEW a \in Threads, dropThrottles(a)
    PROVE  TasksInv'
<1>0. /\ At(a, "drop") /\ Then(a, <<>>)
      /\ throttle' = [n \in Nodes |-> IF n \in The(a).x THEN None ELSE throttle[n]]
      /\ timers' = [n \in Nodes |->
           IF n \in The(a).x /\ throttle[n] # None /\ timers[n] > 0
           THEN IF throttle[n].timer THEN timers[n] - 1 ELSE timers[n]
           ELSE timers[n]]
      /\ UNCHANGED <<nodeVars, tasks, sleeping, userVars, historyVars, mid>>
  BY DEF dropThrottles
<1>1. thread[a] # <<>> /\ The(a).op = "drop"
  BY <1>0, Parts, AtFacts
<1>2. throttle \in [Nodes -> Entry \cup {None}] /\ timers \in [Nodes -> Nat]
  BY Parts DEF Types
<1>3. throttle' \in [Nodes -> Entry \cup {None}]
  BY <1>0, <1>2
<1>4. timers' \in [Nodes -> Nat]
  BY <1>0, <1>2
<1>5. \A s \in Todo : s.op = "flush" => s \in Todo'
  BY <1>0, <1>1, FlushesKept
<1>6. \A n \in Nodes : throttle'[n] # None => throttle'[n] = throttle[n] /\ timers'[n] = timers[n]
  BY <1>0
<1>7. ThrottleInv'
  BY <1>5, <1>6, Parts DEF ThrottleInv
<1> QED
  BY <1>0, <1>1, <1>3, <1>4, <1>7, ThrottleStep

(* sendUpdate *)
LEMMA sendUpdateKeeps ==
    ASSUME TasksInv, NEW a \in Threads, sendUpdate(a)
    PROVE  TasksInv'
<1>0. /\ At(a, "send") /\ Then(a, <<>>)
      /\ UNCHANGED <<nodeVars, tasks, sleeping, userVars, historyVars, mid>>
  BY DEF sendUpdate
<1>1. thread[a] # <<>> /\ The(a).op = "send"
  BY <1>0, Parts, AtFacts
<1>2. PICK n \in Nodes : n = The(a).n
  BY <1>0, Parts, AtFacts
<1>3. throttle \in [Nodes -> Entry \cup {None}] /\ timers \in [Nodes -> Nat]
  BY Parts DEF Types
<1>4. \A s \in Todo : s.op = "flush" => s \in Todo'
  BY <1>0, <1>1, FlushesKept
<1>5. \/ /\ throttle[n] = None
         /\ throttle' = [throttle EXCEPT ![n] =
              [hot |-> TRUE, pending |-> FALSE, timer |-> FALSE]]
         /\ UNCHANGED timers
      \/ /\ throttle[n] # None /\ ~throttle[n].hot
         /\ throttle' = [throttle EXCEPT ![n].hot = TRUE, ![n].pending = FALSE]
         /\ UNCHANGED timers
      \/ /\ throttle[n] # None /\ throttle[n].hot
         /\ throttle' = [throttle EXCEPT ![n].pending = TRUE, ![n].timer = TRUE]
         /\ timers' = IF throttle[n].timer THEN timers
                      ELSE [timers EXCEPT ![n] = @ + 1]
  BY <1>2 DEF sendUpdate
<1>6. /\ \A m \in Nodes : m # n => throttle'[m] = throttle[m] /\ timers'[m] = timers[m]
      /\ throttle'[n] \in Entry
      /\ throttle'[n].pending \/ throttle'[n].timer =>
           \/ timers'[n] > 0
           \/ throttle[n] # None /\ throttle[n].timer /\ timers'[n] = timers[n]
      /\ throttle' \in [Nodes -> Entry \cup {None}] /\ timers' \in [Nodes -> Nat]
  <2>1. CASE /\ throttle[n] = None
             /\ throttle' = [throttle EXCEPT ![n] =
                   [hot |-> TRUE, pending |-> FALSE, timer |-> FALSE]]
             /\ UNCHANGED timers
    BY <1>3, <2>1 DEF Entry
  <2>2. CASE /\ throttle[n] # None /\ ~throttle[n].hot
             /\ throttle' = [throttle EXCEPT ![n].hot = TRUE, ![n].pending = FALSE]
             /\ UNCHANGED timers
    BY <1>3, <2>2 DEF Entry
  <2>3. CASE /\ throttle[n] # None /\ throttle[n].hot
             /\ throttle' = [throttle EXCEPT ![n].pending = TRUE, ![n].timer = TRUE]
             /\ timers' = IF throttle[n].timer THEN timers
                          ELSE [timers EXCEPT ![n] = @ + 1]
    <3>1. throttle[n] \in Entry
      BY <1>3, <2>3
    <3>2. /\ throttle' \in [Nodes -> Entry \cup {None}] /\ throttle'[n] \in Entry
          /\ \A m \in Nodes : m # n => throttle'[m] = throttle[m]
      BY <1>3, <2>3, <3>1 DEF Entry
    <3>3. CASE throttle[n].timer
      BY <1>3, <2>3, <3>2, <3>3
    <3>4. CASE ~throttle[n].timer
      <4>1. timers' = [timers EXCEPT ![n] = @ + 1]
        BY <2>3, <3>4
      <4>2. /\ timers' \in [Nodes -> Nat] /\ timers'[n] > 0
            /\ \A m \in Nodes : m # n => timers'[m] = timers[m]
        BY <1>3, <4>1
      <4> QED
        BY <3>2, <4>2
    <3> QED
      BY <3>3, <3>4
  <2> QED
    BY <1>5, <2>1, <2>2, <2>3
<1>7. ThrottleInv'
  <2> SUFFICES ASSUME NEW m \in Nodes, throttle'[m] # None,
                      throttle'[m].pending \/ throttle'[m].timer
               PROVE  timers'[m] > 0 \/ \E s \in Todo' : s.op = "flush" /\ s.n = m
    BY DEF ThrottleInv
  <2>1. CASE m # n
    BY <1>4, <1>6, <2>1, Parts DEF ThrottleInv
  <2>2. CASE m = n
    BY <1>4, <1>6, <2>2, Parts DEF ThrottleInv
  <2> QED
    BY <2>1, <2>2
<1> QED
  BY <1>0, <1>1, <1>6, <1>7, ThrottleStep

(* flushProgress *)
LEMMA flushProgressKeeps ==
    ASSUME TasksInv, NEW a \in Threads, flushProgress(a)
    PROVE  TasksInv'
<1>0. /\ At(a, "flush") /\ Then(a, <<>>)
      /\ UNCHANGED <<nodeVars, tasks, sleeping, timers, userVars, historyVars, mid>>
  BY DEF flushProgress
<1>1. thread[a] # <<>> /\ The(a).op = "flush"
  BY <1>0, Parts, AtFacts
<1>2. PICK n \in Nodes : n = The(a).n
  BY <1>0, Parts, AtFacts
<1>3. throttle \in [Nodes -> Entry \cup {None}] /\ timers \in [Nodes -> Nat]
  BY Parts DEF Types
<1>4. \A s \in Todo : s.op = "flush" /\ s.n # n => s \in Todo'
  BY <1>0, <1>1, <1>2, FlushesKept
<1>5. throttle' = IF throttle[n] = None THEN throttle
                  ELSE [throttle EXCEPT ![n] =
                          [hot |-> @.hot \/ @.pending, pending |-> FALSE,
                           timer |-> FALSE]]
  BY <1>2 DEF flushProgress
<1>6. /\ \A m \in Nodes : m # n => throttle'[m] = throttle[m]
      /\ throttle'[n] # None => ~throttle'[n].pending /\ ~throttle'[n].timer
      /\ throttle' \in [Nodes -> Entry \cup {None}]
  BY <1>3, <1>5 DEF Entry
<1>7. ThrottleInv'
  BY <1>0, <1>4, <1>6, Parts DEF ThrottleInv
<1> QED
  BY <1>0, <1>1, <1>3, <1>6, <1>7, ThrottleStep

(* stop *)
LEMMA stopKeeps ==
    ASSUME TasksInv, stop
    PROVE  TasksInv'
<1>0. /\ phase = "returned"
      /\ timers' = [n \in Nodes |->
           IF throttle[n] # None /\ timers[n] > 0
           THEN IF throttle[n].timer THEN timers[n] - 1 ELSE timers[n]
           ELSE timers[n]]
      /\ throttle' = [n \in Nodes |-> None]
      /\ UNCHANGED <<nodeVars, tasks, sleeping, userVars, historyVars, mid, thread>>
  BY DEF stop
<1>1. timers \in [Nodes -> Nat]
  BY Parts DEF Types
<1>2. timers' \in [Nodes -> Nat] /\ throttle' \in [Nodes -> Entry \cup {None}]
  BY <1>0, <1>1
<1>3. ThrottleInv'
  BY <1>0 DEF ThrottleInv
<1>4. Types' /\ MidInv'
  BY <1>0, <1>2, Parts DEF Types, MidInv, nodeVars, userVars, historyVars
<1>5. Quiet
  BY <1>0, Parts, QuietFrame DEF nodeVars, userVars, historyVars
<1> QED
  BY <1>0, <1>3, <1>4, <1>5, QuietStill DEF nodeVars, userVars

(* The throttle window of a node ends. *)
LEMMA WindowEndsKeeps ==
    ASSUME TasksInv, NEW n \in Nodes, WindowEnds(n)
    PROVE  TasksInv'
<1>0. /\ throttle[n] # None
      /\ throttle' = [throttle EXCEPT ![n].hot = FALSE]
      /\ UNCHANGED <<nodeVars, tasks, sleeping, timers, userVars, historyVars, mid, thread>>
  BY DEF WindowEnds
<1>1. throttle \in [Nodes -> Entry \cup {None}]
  BY Parts DEF Types
<1>2. /\ throttle' \in [Nodes -> Entry \cup {None}]
      /\ \A m \in Nodes : m # n => throttle'[m] = throttle[m]
      /\ throttle'[n].pending = throttle[n].pending /\ throttle'[n].timer = throttle[n].timer
  BY <1>0, <1>1 DEF Entry
<1>3. Todo' = Todo
  BY <1>0, SameTodo
<1>4. ThrottleInv'
  BY <1>0, <1>2, <1>3, Parts DEF ThrottleInv
<1>5. Types' /\ MidInv'
  BY <1>0, <1>2, Parts DEF Types, MidInv, nodeVars, userVars, historyVars
<1>6. Quiet
  BY <1>0, Parts, QuietFrame DEF nodeVars, userVars, historyVars
<1> QED
  BY <1>0, <1>4, <1>5, <1>6, QuietStill DEF nodeVars, userVars

(* A timer fires. *)
LEMMA TimerFiresKeeps ==
    ASSUME TasksInv, NEW n \in Nodes, TimerFires(n)
    PROVE  TasksInv'
<1> DEFINE s == Do("flush", n, None)
           secs == <<s>>
<1>0. /\ timers[n] > 0 /\ thread[Flusher] = <<>> /\ Put(Flusher, secs)
      /\ timers' = [timers EXCEPT ![n] = @ - 1]
      /\ UNCHANGED <<nodeVars, tasks, sleeping, throttle, userVars, historyVars, mid>>
  BY DEF TimerFires, Put
<1>1. Flusher \in Threads
  BY DEF Threads
<1>2. timers \in [Nodes -> Nat]
  BY Parts DEF Types
<1>3. phase # "new"
  BY <1>0, <1>2, Parts DEF StartInv
<1>4. timers' \in [Nodes -> Nat] /\ \A m \in Nodes : m # n => timers'[m] = timers[m]
  BY <1>0, <1>2
<1>5. s \in Section /\ s.op = "flush" /\ s.n = n
  BY Made
<1>6. secs \in Seq(Section) /\ Len(secs) = 1 /\ secs[1] = s /\ InOrder(secs, Flusher)
  BY <1>5, Short, OneOrder
<1>7. Quiet
  BY <1>0, Parts, QuietFrame DEF nodeVars, userVars, historyVars
<1> HIDE DEF secs, s
<1>8. \A i \in 1..Len(secs) :
        secs[i].op \notin {"signal", "list", "mark", "running"} /\ Fitting(secs[i])'
  BY <1>5, <1>6 DEF Fitting
<1>9. /\ Rest' /\ sleeping' \in 0..2 /\ ThreadInv'
      /\ thread' \in [Threads -> Seq(Section)]
      /\ \A t \in Todo : t.op = "flush" => t \in Todo'
  BY <1>0, <1>1, <1>6, <1>7, <1>8, QuietPut
<1>10. s \in Todo'
  <2>1. \A i \in 1..Len(secs) : secs[i] \in Todo'
    BY <1>0, <1>1, <1>6, Parts, PutTodo
  <2> QED
    BY <1>6, <2>1
<1>11. ThrottleInv'
  <2> SUFFICES ASSUME NEW m \in Nodes, throttle'[m] # None,
                      throttle'[m].pending \/ throttle'[m].timer
               PROVE  timers'[m] > 0 \/ \E t \in Todo' : t.op = "flush" /\ t.n = m
    BY DEF ThrottleInv
  <2>1. CASE m # n
    BY <1>0, <1>4, <1>9, <2>1, Parts DEF ThrottleInv
  <2>2. CASE m = n
    BY <1>5, <1>10, <2>2
  <2> QED
    BY <2>1, <2>2
<1>12. StartInv'
  BY <1>0, <1>3, Parts, StartKept DEF Exists, nodeVars, userVars
<1>13. MidInv'
  BY <1>0, Parts DEF MidInv, userVars
<1>14. Types'
  BY <1>0, <1>4, Parts DEF Types, nodeVars, userVars, historyVars
<1> QED
  BY <1>9, <1>11, <1>12, <1>13, <1>14, Whole

-----------------------------------------------------------------------------
(* The middleware's own goroutine. *)

(* The middleware goes on and nobody else does. *)
LEMMA MiddlewareStep ==
    ASSUME TasksInv, NEW n \in Nodes, mid[n].pc \in {"begin", "wait"},
           UNCHANGED <<nodeVars, managerVars, userVars, historyVars, thread>>,
           mid' \in [Nodes -> Middleware],
           \A m \in Nodes : m # n => mid'[m] = mid[m],
           mid'[n].open = mid[n].open, mid'[n].ended = mid[n].ended, mid'[n].pc # "none",
           \/ mid'[n].pc = "skipped" /\ mid'[n].done = mid[n].done
           \/ mid'[n].pc = "wait" /\ mid'[n].ended = "none" /\ mid'[n].done = mid[n].done
           \/ /\ mid'[n].pc = "returned" /\ mid[n].ended # "none"
              /\ mid'[n].got = mid[n].ended /\ mid'[n].done \in {<<>>, mid[n].done}
    PROVE  TasksInv'
<1>1. MidInv'
  BY Parts DEF MidInv
<1>2. Todo' = Todo
  BY SameTodo
<1>3. ThrottleInv'
  BY <1>2, Parts, ThrottleKept DEF managerVars
<1>4. Types'
  BY Parts DEF Types, nodeVars, managerVars, userVars, historyVars
<1>5. Quiet
  BY Parts, QuietFrame DEF nodeVars, managerVars, userVars, historyVars
<1> QED
  BY <1>1, <1>3, <1>4, <1>5, QuietStill DEF nodeVars, managerVars, userVars

(* The middleware calls next. *)
LEMMA MiddlewareNextKeeps ==
    ASSUME TasksInv, NEW n \in Nodes, MiddlewareNext(n)
    PROVE  TasksInv'
<1>0. /\ mid[n].pc = "begin"
      /\ mid' = IF mid[n].ended = "none" THEN [mid EXCEPT ![n].pc = "wait"]
                ELSE [mid EXCEPT ![n].pc = "returned", ![n].got = mid[n].ended]
      /\ UNCHANGED <<nodeVars, managerVars, userVars, historyVars, thread>>
  BY DEF MiddlewareNext
<1>1. mid \in [Nodes -> Middleware]
  BY Parts DEF Types
<1>2. CASE mid[n].ended = "none"
  <2>1. /\ mid' \in [Nodes -> Middleware] /\ mid'[n] = [mid[n] EXCEPT !.pc = "wait"]
        /\ \A m \in Nodes : m # n => mid'[m] = mid[m]
    BY <1>0, <1>1, <1>2 DEF Middleware
  <2>2. mid'[n].pc = "wait" /\ mid'[n].open = mid[n].open /\ mid'[n].ended = mid[n].ended
        /\ mid'[n].done = mid[n].done
    BY <1>1, <2>1 DEF Middleware
  <2> QED
    BY <1>0, <1>2, <2>1, <2>2, MiddlewareStep
<1>3. CASE mid[n].ended # "none"
  <2>1. /\ mid' \in [Nodes -> Middleware]
        /\ mid'[n] = [mid[n] EXCEPT !.pc = "returned", !.got = mid[n].ended]
        /\ \A m \in Nodes : m # n => mid'[m] = mid[m]
    BY <1>0, <1>1, <1>3 DEF Middleware
  <2>2. mid'[n].pc = "returned" /\ mid'[n].open = mid[n].open /\ mid'[n].ended = mid[n].ended
        /\ mid'[n].done = mid[n].done /\ mid'[n].got = mid[n].ended
    BY <1>1, <2>1 DEF Middleware
  <2> QED
    BY <1>0, <1>3, <2>1, <2>2, MiddlewareStep
<1> QED
  BY <1>2, <1>3

(* next returns what was sent. *)
LEMMA MiddlewareDoneKeeps ==
    ASSUME TasksInv, NEW n \in Nodes, MiddlewareDone(n)
    PROVE  TasksInv'
<1>0. /\ mid[n].pc = "wait" /\ mid[n].done # <<>>
      /\ mid' = [mid EXCEPT ![n].pc = "returned", ![n].got = Head(mid[n].done),
                            ![n].done = Tail(@)]
      /\ UNCHANGED <<nodeVars, managerVars, userVars, historyVars, thread>>
  BY DEF MiddlewareDone
<1>1. mid \in [Nodes -> Middleware]
  BY Parts DEF Types
<1>2. mid[n].ended # "none" /\ mid[n].done = <<mid[n].ended>>
  BY <1>0, Parts DEF MidInv
<1>3. Head(mid[n].done) = mid[n].ended /\ Tail(mid[n].done) = <<>>
  BY <1>2
<1>4. mid[n].ended \in Results
  BY <1>1 DEF Middleware
<1>5. /\ mid' = [mid EXCEPT ![n] = [mid[n] EXCEPT !.pc = "returned", !.got = mid[n].ended,
                                                  !.done = <<>>]]
  BY <1>0, <1>3
<1>6. [mid[n] EXCEPT !.pc = "returned", !.got = mid[n].ended, !.done = <<>>] \in Middleware
  BY <1>1, <1>4 DEF Middleware
<1>7. /\ mid' \in [Nodes -> Middleware]
      /\ mid'[n] = [mid[n] EXCEPT !.pc = "returned", !.got = mid[n].ended, !.done = <<>>]
      /\ \A m \in Nodes : m # n => mid'[m] = mid[m]
  BY <1>1, <1>5, <1>6
<1>8. mid'[n].pc = "returned" /\ mid'[n].open = mid[n].open /\ mid'[n].ended = mid[n].ended
      /\ mid'[n].done = <<>> /\ mid'[n].got = mid[n].ended
  BY <1>1, <1>7 DEF Middleware
<1> QED
  BY <1>0, <1>2, <1>7, <1>8, MiddlewareStep

(* The middleware does not call next. *)
LEMMA MiddlewareSkipsKeeps ==
    ASSUME TasksInv, NEW n \in Nodes, MiddlewareSkips(n)
    PROVE  TasksInv'
<1>0. /\ mid[n].pc = "begin" /\ mid' = [mid EXCEPT ![n].pc = "skipped"]
      /\ UNCHANGED <<nodeVars, managerVars, userVars, historyVars, thread>>
  BY DEF MiddlewareSkips
<1>1. mid \in [Nodes -> Middleware]
  BY Parts DEF Types
<1>2. /\ mid' \in [Nodes -> Middleware] /\ mid'[n] = [mid[n] EXCEPT !.pc = "skipped"]
      /\ \A m \in Nodes : m # n => mid'[m] = mid[m]
  BY <1>0, <1>1 DEF Middleware
<1>3. mid'[n].pc = "skipped" /\ mid'[n].open = mid[n].open /\ mid'[n].ended = mid[n].ended
      /\ mid'[n].done = mid[n].done
  BY <1>1, <1>2 DEF Middleware
<1> QED
  BY <1>0, <1>2, <1>3, MiddlewareStep

(* The middleware panics: the handler was at ready, with nothing to do but *)
(* return from the call that started the task.                             *)
LEMMA MiddlewarePanicsKeeps ==
    ASSUME TasksInv, NEW n \in Nodes, MiddlewarePanics(n)
    PROVE  TasksInv'
<1>0. /\ mid[n].pc = "begin" /\ At(Handler, "ready") /\ phase \in {"starting", "body"}
      /\ mid' = [mid EXCEPT ![n].pc = "panicked"] /\ phase' = "returned"
      /\ thread' = [thread EXCEPT ![Handler] = <<>>]
      /\ UNCHANGED <<nodeVars, managerVars, kind, slot, calls, cancels,
                     historyVars>>
  BY DEF MiddlewarePanics
<1>1. mid \in [Nodes -> Middleware]
  BY Parts DEF Types
<1>2. /\ mid' \in [Nodes -> Middleware] /\ mid'[n] = [mid[n] EXCEPT !.pc = "panicked"]
      /\ \A m \in Nodes : m # n => mid'[m] = mid[m]
  BY <1>0, <1>1 DEF Middleware
<1>3. mid'[n].pc = "panicked" /\ mid'[n].open = mid[n].open /\ mid'[n].ended = mid[n].ended
      /\ mid'[n].done = mid[n].done
  BY <1>1, <1>2 DEF Middleware
<1>4. MidInv'
  BY <1>0, <1>2, <1>3, Parts DEF MidInv
<1>5. Quiet
  BY <1>0, <1>2, <1>3, Parts DEF Quiet, nodeVars, managerVars, historyVars
<1>6. Handler \in Threads
  BY DEF Threads, Callables
<1>7. /\ thread' \in [Threads -> Seq(Section)] /\ thread'[Handler] = <<>>
      /\ \A b \in Threads : b # Handler => thread'[b] = thread[b]
  <2>1. <<>> \in Seq(Section)
    BY Short
  <2> QED
    BY <1>0, <1>6, <2>1, Parts
<1>8. \A i \in 1..Len(thread[Handler]) : thread[Handler][i].op \in {"ready", "body"}
  <2>1. thread[Handler] # <<>> /\ thread[Handler] \in Seq(Section) /\ The(Handler).op = "ready"
    BY <1>0, <1>6, Parts, AtFacts
  <2>2. Len(thread[Handler]) \in Nat /\ Len(thread[Handler]) >= 1
    BY <2>1, LenProperties, EmptySeq
  <2>3. thread[Handler][1].op = "ready"
    BY <2>1, <2>2 DEF The
  <2>4. InOrder(thread[Handler], Handler)
    BY <1>6, Parts DEF ThreadInv
  <2>5. \A j \in 1+1..Len(thread[Handler]) : thread[Handler][j].op = "body"
    BY <2>2, <2>3, <2>4 DEF InOrder
  <2> QED
    BY <2>2, <2>3, <2>5
<1>9. Len(<<>>) = 0 /\ InOrder(<<>>, Handler)
  BY Short DEF InOrder
<1>10. \A s \in Todo' : s \in Todo
  <2> TAKE s \in Todo'
  <2>1. s \in Section /\ \E b \in Threads : \E i \in 1..Len(thread'[b]) : thread'[b][i] = s
    BY DEF Todo
  <2>2. PICK b \in Threads : \E i \in 1..Len(thread'[b]) : thread'[b][i] = s
    BY <2>1
  <2>3. b # Handler
    BY <1>7, <1>9, <2>2
  <2> QED
    BY <1>7, <2>1, <2>2, <2>3 DEF Todo
<1>11. \A s \in Todo : s.op \notin {"ready", "body"} => s \in Todo'
  <2> SUFFICES ASSUME NEW s \in Todo, s.op \notin {"ready", "body"} PROVE s \in Todo'
    OBVIOUS
  <2>1. s \in Section /\ \E b \in Threads : \E i \in 1..Len(thread[b]) : thread[b][i] = s
    BY DEF Todo
  <2>2. PICK b \in Threads : \E i \in 1..Len(thread[b]) : thread[b][i] = s
    BY <2>1
  <2>3. b # Handler
    BY <1>8, <2>2
  <2> QED
    BY <1>7, <2>1, <2>2, <2>3 DEF Todo
<1>12. Signallers' = Signallers
  <2>1. Handler \notin Signallers /\ Handler \notin Signallers'
    BY <1>7, <1>8, <1>9 DEF Signallers
  <2>2. \A b \in Threads : b # Handler => (b \in Signallers' <=> b \in Signallers)
    BY <1>7 DEF Signallers
  <2>3. Signallers \subseteq Threads /\ Signallers' \subseteq Threads
    BY DEF Signallers
  <2> QED
    BY <2>1, <2>2, <2>3
<1>13. Rest' /\ sleeping' \in 0..2
  BY <1>5, <1>10, <1>11, <1>12, QuietRest
<1>14. ThreadInv'
  <2>1. \A b \in Threads : InOrder(thread'[b], b)
    BY <1>7, <1>9, Parts DEF ThreadInv
  <2>2. \A s \in Todo : Fitting(s) => Fitting(s)'
    BY <1>5 DEF Quiet, Fitting, Exists, Shared, Todo, Section
  <2> QED
    BY <1>10, <2>1, <2>2, Parts DEF ThreadInv
<1>15. StartInv'
  BY <1>0, <1>5, Parts, StartKept DEF Quiet, Exists, nodeVars
<1>16. ThrottleInv'
  BY <1>0, <1>11, Parts, ThrottleKept DEF managerVars
<1>17. Types'
  BY <1>0, <1>2, Parts DEF Types, nodeVars, managerVars, historyVars
<1> QED
  BY <1>4, <1>7, <1>13, <1>14, <1>15, <1>16, <1>17, Whole

-----------------------------------------------------------------------------
(* Steps that end a node. *)

(* a ends n with x, and is to signal it. *)
Ending(a, n, x, secs) ==
    /\ thread[a] # <<>> /\ Then(a, secs)
    /\ The(a).op \in {"set", "fail", "completeTop", "failTop", "mark"}
    /\ The(a).n = n /\ Exists(n) /\ ~Ended(n)
    /\ node' \in [Nodes -> [status : Statuses, error : Results]]
    /\ \A m \in Nodes : m # n => node'[m] = node[m]
    /\ node'[n].status = IF x = "ok" THEN "completed" ELSE "failed"
    /\ x # "ok" => node'[n].error = x
    /\ \E i \in 1..Len(secs) : secs[i] = Do("signal", n, x)
    /\ \A i \in 1..Len(secs) :
         secs[i] = Do("signal", n, x) \/ (n = Top /\ secs[i] = Do("list", Top, x))
    /\ n = Top => Final(The(a)) /\ InOrder(secs, a)
    /\ n = Top /\ Shared /\ x # "ok" => \E i \in 1..Len(secs) : secs[i] = Do("list", Top, x)
    /\ UNCHANGED <<kids, holder, managerVars, userVars, historyVars, mid>>

(* What is to be run after it. *)
LEMMA EndingTodo ==
    ASSUME TasksInv, NEW a \in Threads, NEW n \in Nodes, NEW x \in Ends,
           NEW secs \in Seq(Section), Ending(a, n, x, secs)
    PROVE  /\ \A s \in Todo : s.op \notin {"set", "fail", "completeTop", "failTop", "mark"}
                              => s \in Todo'
           /\ \A s \in Todo : s.op = "mark" /\ s.n # n => s \in Todo'
           /\ \A s \in Todo' : s \in Todo \/ s = Do("signal", n, x) \/ (s.op = "list" /\ s.n = Top)
           /\ Do("signal", n, x) \in Todo'
           /\ n = Top /\ Shared /\ x # "ok" => Do("list", Top, x) \in Todo'
           /\ Signallers' = IF n = Top THEN Signallers \cup {a} ELSE Signallers
           /\ n = Top => a \notin Signallers
<1>1. /\ thread[a] # <<>> /\ Then(a, secs)
      /\ The(a).op \in {"set", "fail", "completeTop", "failTop", "mark"}
      /\ The(a).n = n
      /\ \E i \in 1..Len(secs) : secs[i] = Do("signal", n, x)
      /\ \A i \in 1..Len(secs) :
           secs[i] = Do("signal", n, x) \/ (n = Top /\ secs[i] = Do("list", Top, x))
      /\ n = Top => Final(The(a))
      /\ n = Top /\ Shared /\ x # "ok" => \E i \in 1..Len(secs) : secs[i] = Do("list", Top, x)
  BY DEF Ending
<1>2. /\ \A s \in Todo : s = The(a) \/ s \in Todo'
      /\ \A i \in 1..Len(secs) : secs[i] \in Todo'
      /\ \A s \in Todo' : s \in Todo \/ \E i \in 1..Len(secs) : secs[i] = s
  BY <1>1, Parts, ThenTodo
<1>3. Do("signal", n, x).op = "signal" /\ Do("signal", n, x).n = n
      /\ Do("list", Top, x).op = "list" /\ Do("list", Top, x).n = Top
  BY Made
<1>4. \A s \in Todo' : s \in Todo \/ s = Do("signal", n, x) \/ (s.op = "list" /\ s.n = Top)
  BY <1>1, <1>2, <1>3
<1>5. Do("signal", n, x) \in Todo'
  BY <1>1, <1>2
<1>6. n = Top /\ Shared /\ x # "ok" => Do("list", Top, x) \in Todo'
  BY <1>1, <1>2
<1>7. CASE n = Top
  <2>1. \E i \in 1..Len(secs) : TopSignal(secs[i])
    BY <1>1, <1>3, <1>7 DEF TopSignal
  <2>2. a \notin Signallers /\ Signallers' = Signallers \cup {a}
    BY <1>1, <1>7, <2>1, Parts, ThenSignals
  <2> QED
    BY <1>1, <1>2, <1>4, <1>5, <1>6, <1>7, <2>2
<1>8. CASE n # Top
  <2>1. ~TopSignal(The(a)) /\ \A i \in 1..Len(secs) : ~TopSignal(secs[i])
    BY <1>1, <1>3, <1>8 DEF TopSignal
  <2>2. Signallers' = Signallers
    BY <1>1, <2>1, Parts, ThenSignals
  <2> QED
    BY <1>1, <1>2, <1>4, <1>5, <1>6, <1>8, <2>2
<1> QED
  BY <1>7, <1>8

(* The signals and removals of the task are counted. *)
LEMMA EndingCount ==
    ASSUME TasksInv, NEW a \in Threads, NEW n \in Nodes, NEW x \in Ends,
           NEW secs \in Seq(Section), Ending(a, n, x, secs)
    PROVE  CountInv'
<1>0. /\ ~Ended(n) /\ \A m \in Nodes : m # n => node'[m] = node[m]
      /\ node'[n].status = IF x = "ok" THEN "completed" ELSE "failed"
      /\ kind' = kind /\ sleeping' = sleeping /\ phase' = phase
  BY DEF Ending, managerVars, userVars
<1>1. Starting' <=> Starting
  <2>1. \A s \in Todo : s.op = "running" => s \in Todo'
    BY EndingTodo
  <2>2. \A s \in Todo' : s.op = "running" => s \in Todo
    BY EndingTodo, Made
  <2> QED
    BY <1>0, <2>1, <2>2 DEF Starting
<1>2. CASE n # Top
  <2>1. Signallers' = Signallers
    BY <1>2, EndingTodo
  <2>2. Ended(Top)' <=> Ended(Top)
    BY <1>0, <1>2, Parts DEF Ended
  <2> QED
    BY <1>0, <1>1, <2>1, <2>2, Parts, CountKept
<1>3. CASE n = Top /\ ~Shared
  BY <1>0, <1>3, Parts DEF CountInv, Shared
<1>4. CASE n = Top /\ Shared
  <2>1. Signallers' = Signallers \cup {a} /\ a \notin Signallers
    BY <1>4, EndingTodo
  <2>2. IsFiniteSet(Signallers) /\ sleeping + Cardinality(Signallers) <= EndsSoFar
    BY <1>4, Parts DEF CountInv
  <2>3. /\ IsFiniteSet(Signallers') /\ Cardinality(Signallers') = Cardinality(Signallers) + 1
        /\ Cardinality(Signallers) \in Nat
    BY <2>1, <2>2, FS_AddElement, FS_CardinalityType
  <2>4. Ended(Top)' /\ ~Ended(Top)
    BY <1>0, <1>4 DEF Ended, Terminal
  <2>5. EndsSoFar' = EndsSoFar + 1 /\ EndsSoFar \in 0..1
    BY <1>1, <2>4 DEF EndsSoFar
  <2>6. sleeping' + Cardinality(Signallers') <= EndsSoFar'
    BY <1>0, <2>2, <2>3, <2>5, Parts
  <2> QED
    BY <1>0, <1>4, <2>3, <2>6 DEF CountInv, Shared
<1> QED
  BY <1>2, <1>3, <1>4

(* A failure of the task starts the cascade, and a sub-task that ended is   *)
(* reached.                                                                *)
LEMMA EndingCover ==
    ASSUME TasksInv, NEW a \in Threads, NEW n \in Nodes, NEW x \in Ends,
           NEW secs \in Seq(Section), Ending(a, n, x, secs)
    PROVE  CoverInv'
<1>0. /\ Exists(n) /\ ~Ended(n) /\ \A m \in Nodes : m # n => node'[m] = node[m]
      /\ node'[n].status = IF x = "ok" THEN "completed" ELSE "failed"
      /\ kind' = kind /\ kids' = kids /\ late' = late
  BY DEF Ending, userVars, historyVars
<1> SUFFICES ASSUME Shared, node'[Top].status = "failed",
                    NEW k \in Kids, Exists(k)', k \notin late'
             PROVE  Covered(k)'
  BY <1>0 DEF CoverInv, Shared
<1>1. k \in Nodes /\ Exists(k)
  BY <1>0, Parts DEF Exists
<1>2. \A m, l \in Nodes : Child(m, l) => Child(m, l)'
  BY <1>0 DEF Child
<1>3. CASE n = Top
  <2>1. x # "ok"
    BY <1>0, <1>3
  <2>2. Do("list", Top, x) \in Todo'
    BY <1>3, <2>1, EndingTodo
  <2>3. Above(Top, k)
    BY <1>1, Parts DEF TreeInv
  <2>4. Above(Top, k)'
    BY <1>2, <2>3, AboveKept
  <2>5. Do("list", Top, x).op = "list" /\ Do("list", Top, x).n = Top
    BY Made
  <2> QED
    BY <2>2, <2>4, <2>5 DEF Covered
<1>4. CASE n # Top
  <2>1. node[Top].status = "failed"
    BY <1>0, <1>4, Parts
  <2>2. Covered(k)
    BY <1>0, <1>1, <2>1, Parts DEF CoverInv
  <2>3. CASE Ended(k)
    BY <1>0, <1>1, <2>3 DEF Covered, Ended
  <2>4. ASSUME NEW s \in Todo, s.op = "mark", s.n = k PROVE Covered(k)'
    <3>1. CASE k = n
      BY <1>0, <3>1 DEF Covered, Ended, Terminal
    <3>2. CASE k # n
      <4>1. s \in Todo'
        BY <2>4, <3>2, EndingTodo
      <4> QED
        BY <2>4, <4>1 DEF Covered
    <3> QED
      BY <3>1, <3>2
  <2>5. ASSUME NEW s \in Todo, s.op = "list", Above(s.n, k) PROVE Covered(k)'
    <3>1. s \in Todo'
      BY <2>5, EndingTodo
    <3>2. Above(s.n, k)'
      BY <1>2, <2>5, AboveKept
    <3> QED
      BY <2>5, <3>1, <3>2 DEF Covered
  <2> QED
    BY <2>2, <2>3, <2>4, <2>5 DEF Covered
<1> QED
  BY <1>3, <1>4

(* A step that ends a node keeps the invariant. *)
LEMMA EndingKeeps ==
    ASSUME TasksInv, NEW a \in Threads, NEW n \in Nodes, NEW x \in Ends,
           NEW secs \in Seq(Section), Ending(a, n, x, secs)
    PROVE  TasksInv'
<1>0. /\ thread[a] # <<>> /\ Then(a, secs)
      /\ The(a).op \in {"set", "fail", "completeTop", "failTop", "mark"} /\ The(a).n = n
      /\ Exists(n) /\ ~Ended(n)
      /\ node' \in [Nodes -> [status : Statuses, error : Results]]
      /\ \A m \in Nodes : m # n => node'[m] = node[m]
      /\ node'[n].status = IF x = "ok" THEN "completed" ELSE "failed"
      /\ x # "ok" => node'[n].error = x
      /\ n = Top => Final(The(a)) /\ InOrder(secs, a)
      /\ UNCHANGED <<kids, holder, managerVars, userVars, historyVars, mid>>
  BY DEF Ending
<1>1. \A i \in 1..Len(secs) :
         secs[i] = Do("signal", n, x) \/ (n = Top /\ secs[i] = Do("list", Top, x))
  BY DEF Ending
<1>2. Do("signal", n, x).op = "signal" /\ Do("signal", n, x).n = n /\ Do("signal", n, x).x = x
      /\ Do("list", Top, x).op = "list" /\ Do("list", Top, x).n = Top
  BY Made
<1>3. \A m \in Nodes : Exists(m)' <=> Exists(m)
  BY <1>0 DEF Exists
<1>4. \A m \in Nodes : Ended(m) => node'[m] = node[m]
  BY <1>0
<1>5. \A m \in Nodes : Ended(m)' => Ended(m) \/ m = n
  BY <1>0 DEF Ended
<1>6. Agrees(n, x)'
  BY <1>0 DEF Agrees
<1>7. EndInv'
  <2>1. \A m \in Nodes : Ended(m)' => Ended(m) \/ \E s \in Todo' : s.op = "signal" /\ s.n = m
    BY <1>2, <1>5, EndingTodo
  <2>2. \A s \in Todo : s.op = "signal" => s \in Todo'
    BY EndingTodo
  <2> QED
    BY <1>0, <2>1, <2>2, Parts, EndKept
<1>8. AgreeInv'
  <2>1. \A s \in Todo' : s.op = "signal" => s \in Todo \/ Agrees(s.n, s.x)'
    BY <1>2, <1>6, EndingTodo
  <2> QED
    BY <1>0, <1>4, <2>1, Parts, AgreeKept DEF historyVars
<1>9. CountInv' /\ CoverInv'
  BY EndingCount, EndingCover
<1>10. RemovalInv'
  <2>1. Ended(Top)' => Ended(Top) \/ \E s \in Todo' : TopSignal(s)
    BY <1>2, <1>5, Parts, EndingTodo DEF TopSignal
  <2>2. \A s \in Todo : TopSignal(s) => s \in Todo'
    BY EndingTodo DEF TopSignal
  <2> QED
    BY <1>0, <2>1, <2>2, Parts, RemovalKept DEF managerVars
<1>11. TreeInv'
  BY <1>0, <1>3, Parts, TreeKept
<1>12. ThreadInv'
  <2>1. \A i \in 1..Len(secs) : Fitting(secs[i])'
    BY <1>0, <1>1, <1>2, <1>3, Parts DEF Fitting
  <2>2. \/ Len(thread[a]) = 1 /\ InOrder(secs, a)
        \/ \A i \in 1..Len(secs) :
             ~Final(secs[i]) /\ secs[i].op \notin {"managed", "ready", "running", "scoped"}
    <3>1. CASE n = Top
      <4>1. At(a, The(a).op)
        BY <1>0 DEF At, The
      <4> QED
        BY <1>0, <3>1, <4>1, Parts, AtFacts
    <3>2. CASE n # Top
      BY <1>1, <1>2, <3>2 DEF Final
    <3> QED
      BY <3>1, <3>2
  <2> QED
    BY <1>0, <1>3, <2>1, <2>2, Parts, ThenThread DEF userVars
<1>13. thread' \in [Threads -> Seq(Section)]
  BY <1>0, Parts, ThenFacts
<1>14. StartInv'
  <2>1. phase # "new"
    BY <1>0, Parts DEF StartInv
  <2> QED
    BY <1>0, <1>3, <2>1, Parts, StartKept DEF userVars, managerVars
<1>15. ThrottleInv'
  <2>1. \A s \in Todo : s.op = "flush" => s \in Todo'
    BY EndingTodo
  <2> QED
    BY <1>0, <2>1, Parts, ThrottleKept DEF managerVars
<1>17. Types' /\ MidInv' /\ sleeping' \in 0..2
  BY <1>0, Parts DEF Types, MidInv, managerVars, userVars, historyVars
<1>18. Rest'
  BY <1>7, <1>8, <1>9, <1>10, <1>11 DEF Rest
<1> QED
  BY <1>12, <1>13, <1>14, <1>15, <1>17, <1>18, Whole

(* A section that finds the node already ended does nothing but return. *)
LEMMA NothingKeeps ==
    ASSUME TasksInv, NEW a \in Threads, thread[a] # <<>>, Then(a, <<>>),
           The(a).op \in {"set", "fail", "completeTop", "failTop"},
           UNCHANGED <<node, kids, holder, managerVars, userVars, historyVars, mid>>
    PROVE  TasksInv'
<1>1. phase' # "new"
  BY Parts DEF StartInv, userVars
<1>2. Types'
  BY Parts DEF Types, managerVars, userVars, historyVars
<1> QED
  BY <1>1, <1>2, QuietStep DEF managerVars, userVars, historyVars

(* One signal. *)
LEMMA OneSignal ==
    ASSUME NEW n \in Nodes, NEW x \in Ends, NEW a
    PROVE  \E secs \in Seq(Section) :
             /\ secs = <<Do("signal", n, x)>>
             /\ \E i \in 1..Len(secs) : secs[i] = Do("signal", n, x)
             /\ \A i \in 1..Len(secs) : secs[i] = Do("signal", n, x)
             /\ InOrder(secs, a)
<1> DEFINE s == Do("signal", n, x)
           q == <<s>>
<1>1. s \in Section /\ s.op = "signal"
  BY Made
<1>2. q \in Seq(Section) /\ Len(q) = 1 /\ q[1] = s /\ InOrder(q, a)
  BY <1>1, Short, OneOrder
<1> HIDE DEF q
<1>3. (\E i \in 1..Len(q) : q[i] = s) /\ (\A i \in 1..Len(q) : q[i] = s)
  BY <1>2
<1> QED
  BY <1>2, <1>3 DEF q

(* A list and a signal. *)
LEMMA ListSignal ==
    ASSUME NEW x \in Failures, NEW a
    PROVE  \E secs \in Seq(Section) :
             /\ secs = <<Do("list", Top, x), Do("signal", Top, x)>>
             /\ \E i \in 1..Len(secs) : secs[i] = Do("signal", Top, x)
             /\ \E i \in 1..Len(secs) : secs[i] = Do("list", Top, x)
             /\ \A i \in 1..Len(secs) : secs[i] = Do("signal", Top, x) \/ secs[i] = Do("list", Top, x)
             /\ InOrder(secs, a)
<1> DEFINE s == Do("signal", Top, x)
           t == Do("list", Top, x)
           q == <<t, s>>
<1>1. s \in Section /\ s.op = "signal" /\ t \in Section /\ t.op = "list"
  BY Made DEF Nodes, Ends
<1>2. q \in Seq(Section) /\ Len(q) = 2 /\ q[1] = t /\ q[2] = s
  BY <1>1, Short
<1> HIDE DEF q, s, t
<1>3. \A i \in 1..Len(q) : i = 1 \/ i = 2
  BY <1>2
<1>4. InOrder(q, a)
  BY <1>1, <1>2, <1>3 DEF InOrder, Final
<1>5. (\E i \in 1..Len(q) : q[i] = s) /\ (\E i \in 1..Len(q) : q[i] = t)
      /\ (\A i \in 1..Len(q) : q[i] = s \/ q[i] = t)
  BY <1>2, <1>3
<1> QED
  BY <1>2, <1>4, <1>5 DEF q, s, t

(* A node moves to running: an ended one only at the start of a shared task. *)
LEMMA MoveKeeps ==
    ASSUME TasksInv, NEW a \in Threads, thread[a] # <<>>, Then(a, <<>>),
           The(a).op \in {"set", "running"},
           NEW n \in Nodes, n # Top => ~Ended(n), Exists(n),
           node' = [node EXCEPT ![n].status = "running"],
           revived' = (revived \/ Ended(n)),
           UNCHANGED <<kids, holder, managerVars, userVars, late, mid>>,
           CountInv'
    PROVE  TasksInv'
<1> DEFINE secs == <<>>
<1>1. secs \in Seq(Section) /\ Len(secs) = 0 /\ Then(a, secs)
  BY Short
<1> HIDE DEF secs
<1>2. node \in [Nodes -> [status : Statuses, error : Results]] /\ revived \in BOOLEAN
  BY Parts DEF Types
<1>3. /\ node' \in [Nodes -> [status : Statuses, error : Results]]
      /\ \A m \in Nodes : m # n => node'[m] = node[m]
      /\ node'[n].status = "running" /\ revived' \in BOOLEAN
  BY <1>2 DEF Statuses
<1>4. /\ \A s \in Todo : s = The(a) \/ s \in Todo'
      /\ \A s \in Todo' : s \in Todo
  <2>1. /\ \A s \in Todo : s = The(a) \/ s \in Todo'
        /\ \A s \in Todo' : s \in Todo \/ \E i \in 1..Len(secs) : secs[i] = s
    BY <1>1, Parts, ThenTodo
  <2> QED
    BY <1>1, <2>1
<1>5. \A m \in Nodes : /\ Ended(m)' => Ended(m)
                       /\ Exists(m)' <=> Exists(m)
                       /\ ~(m = Top /\ revived') /\ Ended(m) => node'[m] = node[m]
  BY <1>3 DEF Ended, Exists, Terminal
<1>6. EndInv'
  BY <1>4, <1>5, Parts, EndKept
<1>7. AgreeInv'
  BY <1>4, <1>5, Parts, AgreeKept
<1>8. RemovalInv'
  <2>1. Ended(Top)' => Ended(Top)
    BY <1>5, Parts
  <2>2. \A s \in Todo : TopSignal(s) => s \in Todo'
    BY <1>4 DEF TopSignal
  <2> QED
    BY <2>1, <2>2, Parts, RemovalKept DEF managerVars
<1>9. TreeInv'
  BY <1>5, Parts, TreeKept
<1>10. CoverInv'
  <2>1. node'[Top].status = "failed" => node[Top].status = "failed"
    BY <1>3, Parts
  <2>2. \A k \in Kids : Exists(k)' <=> Exists(k)
    BY <1>5, Parts
  <2>3. \A k \in Kids : Ended(k) => Ended(k)'
    <3> SUFFICES ASSUME NEW k \in Kids, Ended(k) PROVE Ended(k)'
      OBVIOUS
    <3>1. k # n /\ k \in Nodes
      BY Parts, TasksAssumption
    <3> QED
      BY <1>3, <3>1 DEF Ended
  <2>4. \A m, l \in Nodes : Child(m, l) => Child(m, l)'
    BY DEF Child
  <2>5. \A s \in Todo : s.op \in {"mark", "list"} => s \in Todo'
    BY <1>4
  <2> QED
    BY <2>1, <2>2, <2>3, <2>4, <2>5, Parts, CoverKept DEF userVars
<1>11. ThreadInv'
  <2>1. \A i \in 1..Len(secs) :
             /\ ~Final(secs[i]) /\ secs[i].op \notin {"managed", "ready", "running", "scoped"}
             /\ Fitting(secs[i])'
    BY <1>1
  <2> QED
    BY <1>1, <1>5, <2>1, Parts, ThenThread DEF userVars
<1>12. thread' \in [Threads -> Seq(Section)]
  BY <1>1, Parts, ThenFacts
<1>13. StartInv'
  <2>1. phase # "new"
    BY Parts DEF StartInv
  <2> QED
    BY <1>5, <2>1, Parts, StartKept DEF userVars, managerVars
<1>14. ThrottleInv'
  BY <1>4, Parts, ThrottleKept DEF managerVars
<1>16. Types' /\ MidInv' /\ sleeping' \in 0..2
  BY <1>3, Parts DEF Types, MidInv, managerVars, userVars
<1>17. Rest'
  BY <1>6, <1>7, <1>8, <1>9, <1>10 DEF Rest
<1> QED
  BY <1>11, <1>12, <1>13, <1>14, <1>16, <1>17, Whole

(* setStatus *)
LEMMA setStatusKeeps ==
    ASSUME TasksInv, NEW a \in Threads, setStatus(a)
    PROVE  TasksInv'
<1>0. /\ At(a, "set")
      /\ UNCHANGED <<kids, holder, managerVars, userVars, historyVars, mid>>
  BY DEF setStatus
<1>1. PICK s \in Section : s = The(a)
  BY <1>0, Parts, AtFacts
<1>2. /\ thread[a] # <<>> /\ s.op = "set" /\ s.n \in Nodes /\ Fitting(s)
      /\ s.x \in {"running", "completed"}
  BY <1>0, <1>1, Parts, AtFacts DEF Section
<1>3. PICK n \in Nodes : n = s.n
  BY <1>2
<1>4. Exists(n)
  BY <1>2, <1>3 DEF Fitting
<1>5. CASE Ended(n)
  <2>1. Then(a, <<>>) /\ UNCHANGED node
    BY <1>1, <1>3, <1>5 DEF setStatus
  <2> QED
    BY <1>0, <1>1, <1>2, <2>1, NothingKeeps
<1>6. CASE ~Ended(n) /\ s.x = "running"
  <2>1. Then(a, <<>>) /\ node' = [node EXCEPT ![n].status = "running"]
    BY <1>1, <1>3, <1>6 DEF setStatus
  <2>2. node \in [Nodes -> [status : Statuses, error : Results]]
    BY Parts DEF Types
  <2>3. Ended(Top) => Ended(Top)'
    BY <1>6, <2>1, <2>2, Parts DEF Ended
  <2>4. \A t \in Todo' : t \in Todo
    <3> DEFINE secs == <<>>
    <3>1. secs \in Seq(Section) /\ Len(secs) = 0 /\ Then(a, secs)
      BY <2>1, Short
    <3> HIDE DEF secs
    <3>2. \A t \in Todo' : t \in Todo \/ \E i \in 1..Len(secs) : secs[i] = t
      BY <1>2, <3>1, Parts, ThenTodo
    <3> QED
      BY <3>1, <3>2
  <2>5. Starting' => Starting
    BY <1>0, <2>4 DEF Starting, userVars
  <2>6. Signallers' = Signallers
    <3> DEFINE secs == <<>>
    <3>1. secs \in Seq(Section) /\ Len(secs) = 0 /\ Then(a, secs)
      BY <2>1, Short
    <3> HIDE DEF secs
    <3>2. ~TopSignal(The(a)) /\ \A i \in 1..Len(secs) : ~TopSignal(secs[i])
      BY <1>1, <1>2, <3>1 DEF TopSignal
    <3> QED
      BY <1>2, <3>1, <3>2, Parts, ThenSignals
  <2>7. CountInv'
    BY <1>0, <2>3, <2>5, <2>6, Parts, CountKept DEF userVars, managerVars
  <2>8. revived' = (revived \/ Ended(n))
    BY <1>0, <1>6, Parts DEF historyVars, Types
  <2> QED
    BY <1>0, <1>1, <1>2, <1>4, <1>6, <2>1, <2>7, <2>8, MoveKeeps DEF historyVars
<1>7. CASE ~Ended(n) /\ s.x = "completed"
  <2>1. Then(a, <<Do("signal", n, "ok")>>) /\ node' = [node EXCEPT ![n].status = "completed"]
    BY <1>1, <1>3, <1>7 DEF setStatus
  <2>2. PICK secs \in Seq(Section) :
             /\ secs = <<Do("signal", n, "ok")>>
             /\ \E i \in 1..Len(secs) : secs[i] = Do("signal", n, "ok")
             /\ \A i \in 1..Len(secs) : secs[i] = Do("signal", n, "ok")
             /\ InOrder(secs, a)
    BY OneSignal DEF Ends
  <2>3. Then(a, secs)
    BY <2>1, <2>2
  <2>4. /\ node' \in [Nodes -> [status : Statuses, error : Results]]
        /\ \A m \in Nodes : m # n => node'[m] = node[m]
        /\ node'[n].status = "completed"
    BY <2>1, Parts DEF Types, Statuses
  <2>5. Final(The(a))
    BY <1>1, <1>2, <1>7 DEF Final
  <2>6. Ending(a, n, "ok", secs)
    BY <1>0, <1>1, <1>2, <1>3, <1>4, <1>7, <2>2, <2>3, <2>4, <2>5 DEF Ending
  <2> QED
    BY <2>6, EndingKeeps DEF Ends
<1> QED
  BY <1>2, <1>5, <1>6, <1>7

(* setFailed *)
LEMMA setFailedKeeps ==
    ASSUME TasksInv, NEW a \in Threads, setFailed(a)
    PROVE  TasksInv'
<1>0. /\ At(a, "fail")
      /\ UNCHANGED <<kids, holder, managerVars, userVars, historyVars, mid>>
  BY DEF setFailed
<1>1. PICK s \in Section : s = The(a)
  BY <1>0, Parts, AtFacts
<1>2. /\ thread[a] # <<>> /\ s.op = "fail" /\ s.n \in Nodes /\ Fitting(s) /\ s.x \in Failures
  BY <1>0, <1>1, Parts, AtFacts DEF Section
<1>3. PICK n \in Nodes, x \in Failures : n = s.n /\ x = s.x
  BY <1>2
<1>4. Exists(n)
  BY <1>2, <1>3 DEF Fitting
<1>5. CASE Ended(n)
  <2>1. Then(a, <<>>) /\ UNCHANGED node
    BY <1>1, <1>3, <1>5 DEF setFailed
  <2> QED
    BY <1>0, <1>1, <1>2, <2>1, NothingKeeps
<1>6. CASE ~Ended(n)
  <2>1. /\ Then(a, <<Do("signal", n, x)>>)
        /\ node' = [node EXCEPT ![n].status = "failed", ![n].error = x]
    BY <1>1, <1>3, <1>6 DEF setFailed
  <2>2. PICK secs \in Seq(Section) :
             /\ secs = <<Do("signal", n, x)>>
             /\ \E i \in 1..Len(secs) : secs[i] = Do("signal", n, x)
             /\ \A i \in 1..Len(secs) : secs[i] = Do("signal", n, x)
             /\ InOrder(secs, a)
    BY OneSignal DEF Ends
  <2>3. Then(a, secs)
    BY <2>1, <2>2
  <2>4. /\ node' \in [Nodes -> [status : Statuses, error : Results]]
        /\ \A m \in Nodes : m # n => node'[m] = node[m]
        /\ node'[n].status = "failed" /\ node'[n].error = x
    BY <2>1, Parts DEF Types, Statuses, Failures, Results
  <2>5. Final(The(a)) /\ x # "ok"
    BY <1>1, <1>2 DEF Final, Failures
  <2>6. n = Top => ~Shared
    BY <1>2, <1>3 DEF Fitting
  <2>7. Ending(a, n, x, secs)
    BY <1>0, <1>1, <1>2, <1>3, <1>4, <1>6, <2>2, <2>3, <2>4, <2>5, <2>6 DEF Ending
  <2> QED
    BY <2>7, EndingKeeps DEF Ends
<1> QED
  BY <1>5, <1>6

(* completeTop *)
LEMMA completeTopKeeps ==
    ASSUME TasksInv, NEW a \in Threads, completeTop(a)
    PROVE  TasksInv'
<1>0. /\ At(a, "completeTop")
      /\ UNCHANGED <<kids, holder, managerVars, userVars, historyVars, mid>>
  BY DEF completeTop
<1>1. /\ thread[a] # <<>> /\ The(a).op = "completeTop" /\ Fitting(The(a)) /\ The(a) \in Section
  BY <1>0, Parts, AtFacts
<1>2. The(a).n = Top
  BY <1>1 DEF Section
<1>3. CASE ~Live(Top)
  <2>1. Then(a, <<>>) /\ UNCHANGED node
    BY <1>0, <1>3 DEF completeTop
  <2> QED
    BY <1>0, <1>1, <2>1, NothingKeeps
<1>4. CASE Live(Top)
  <2>1. Then(a, <<Do("signal", Top, "ok")>>) /\ node' = [node EXCEPT ![Top].status = "completed"]
    BY <1>4 DEF completeTop
  <2>2. PICK secs \in Seq(Section) :
             /\ secs = <<Do("signal", Top, "ok")>>
             /\ \E i \in 1..Len(secs) : secs[i] = Do("signal", Top, "ok")
             /\ \A i \in 1..Len(secs) : secs[i] = Do("signal", Top, "ok")
             /\ InOrder(secs, a)
    BY Parts, OneSignal DEF Ends
  <2>3. Then(a, secs)
    BY <2>1, <2>2
  <2>4. /\ node' \in [Nodes -> [status : Statuses, error : Results]]
        /\ \A m \in Nodes : m # Top => node'[m] = node[m]
        /\ node'[Top].status = "completed"
    BY <2>1, Parts DEF Types, Statuses
  <2>5. Final(The(a)) /\ Exists(Top) /\ ~Ended(Top)
    BY <1>1, <1>4 DEF Final, Exists, Ended, Live, Terminal
  <2>7. Ending(a, Top, "ok", secs)
    BY <1>0, <1>1, <1>2, <2>2, <2>3, <2>4, <2>5 DEF Ending
  <2> QED
    BY <2>7, Parts, EndingKeeps DEF Ends
<1> QED
  BY <1>3, <1>4

(* failTop *)
LEMMA failTopKeeps ==
    ASSUME TasksInv, NEW a \in Threads, failTop(a)
    PROVE  TasksInv'
<1>0. /\ At(a, "failTop")
      /\ UNCHANGED <<kids, holder, managerVars, userVars, historyVars, mid>>
  BY DEF failTop
<1>1. /\ thread[a] # <<>> /\ The(a).op = "failTop" /\ Fitting(The(a)) /\ The(a) \in Section
  BY <1>0, Parts, AtFacts
<1>2. The(a).n = Top /\ The(a).x \in Failures
  BY <1>1 DEF Section
<1>3. CASE ~Live(Top)
  <2>1. Then(a, <<>>) /\ UNCHANGED node
    BY <1>0, <1>3 DEF failTop
  <2> QED
    BY <1>0, <1>1, <2>1, NothingKeeps
<1>4. CASE Live(Top)
  <2>0. PICK x \in Failures : x = The(a).x
    BY <1>2
  <2>1. /\ Then(a, <<Do("list", Top, x), Do("signal", Top, x)>>)
        /\ node' = [node EXCEPT ![Top].status = "failed", ![Top].error = x]
    BY <1>4, <2>0 DEF failTop
  <2>2. PICK secs \in Seq(Section) :
             /\ secs = <<Do("list", Top, x), Do("signal", Top, x)>>
             /\ \E i \in 1..Len(secs) : secs[i] = Do("signal", Top, x)
             /\ \E i \in 1..Len(secs) : secs[i] = Do("list", Top, x)
             /\ \A i \in 1..Len(secs) : secs[i] = Do("signal", Top, x) \/ secs[i] = Do("list", Top, x)
             /\ InOrder(secs, a)
    BY ListSignal
  <2>3. Then(a, secs)
    BY <2>1, <2>2
  <2>4. /\ node' \in [Nodes -> [status : Statuses, error : Results]]
        /\ \A m \in Nodes : m # Top => node'[m] = node[m]
        /\ node'[Top].status = "failed" /\ node'[Top].error = x
    BY <2>1, Parts DEF Types, Statuses, Failures, Results
  <2>5. Final(The(a)) /\ Exists(Top) /\ ~Ended(Top) /\ x # "ok"
    BY <1>1, <1>4 DEF Final, Exists, Ended, Live, Terminal, Failures
  <2>7. Ending(a, Top, x, secs)
    BY <1>0, <1>1, <1>2, <2>2, <2>3, <2>4, <2>5 DEF Ending
  <2> QED
    BY <2>7, Parts, EndingKeeps DEF Ends
<1> QED
  BY <1>3, <1>4

(* The cascade goes on: it marks and lists, and changes nothing else. *)
LEMMA CascadeKeeps ==
    ASSUME TasksInv, NEW a \in Threads, thread[a] # <<>>,
           NEW secs \in Seq(Section), Then(a, secs),
           The(a).op \in {"list", "mark"},
           \A i \in 1..Len(secs) : secs[i].op \in {"list", "mark"} /\ Exists(secs[i].n),
           UNCHANGED <<nodeVars, managerVars, userVars, historyVars, mid>>,
           CoverInv'
    PROVE  TasksInv'
<1>1. /\ \A s \in Todo : s = The(a) \/ s \in Todo'
      /\ \A s \in Todo' : s \in Todo \/ \E i \in 1..Len(secs) : secs[i] = s
  BY Parts, ThenTodo
<1>2. \A n \in Nodes : Ended(n)' = Ended(n) /\ Exists(n)' = Exists(n)
  BY DEF nodeVars, Ended, Exists
<1>3. Signallers' = Signallers
  BY Parts, ThenSignals DEF TopSignal
<1>4. EndInv'
  BY <1>1, <1>2, Parts, EndKept
<1>5. AgreeInv'
  BY <1>1, Parts, AgreeKept DEF nodeVars, historyVars
<1>6. CountInv'
  <2>1. Starting' => Starting
    BY <1>1 DEF Starting, userVars
  <2>2. Ended(Top) => Ended(Top)'
    BY <1>2, Parts
  <2> QED
    BY <1>3, <2>1, <2>2, Parts, CountKept DEF userVars, managerVars
<1>7. RemovalInv'
  <2>1. Ended(Top)' => Ended(Top)
    BY <1>2, Parts
  <2>2. \A s \in Todo : TopSignal(s) => s \in Todo'
    BY <1>1 DEF TopSignal
  <2> QED
    BY <2>1, <2>2, Parts, RemovalKept DEF managerVars
<1>8. TreeInv'
  BY <1>2, Parts, TreeKept DEF nodeVars
<1>9. ThreadInv'
  <2>1. \A i \in 1..Len(secs) :
             /\ ~Final(secs[i]) /\ secs[i].op \notin {"managed", "ready", "running", "scoped"}
             /\ Fitting(secs[i])'
    BY DEF Final, Fitting, Exists, nodeVars
  <2> QED
    BY <1>2, <2>1, Parts, ThenThread DEF userVars
<1>10. thread' \in [Threads -> Seq(Section)]
  BY Parts, ThenFacts
<1>11. StartInv'
  <2>1. phase # "new"
    BY Parts DEF StartInv
  <2> QED
    BY <1>2, <2>1, Parts, StartKept DEF nodeVars, userVars, managerVars
<1>12. ThrottleInv'
  BY <1>1, Parts, ThrottleKept DEF managerVars
<1>14. Types' /\ MidInv' /\ sleeping' \in 0..2
  BY Parts DEF Types, MidInv, nodeVars, managerVars, userVars, historyVars
<1>15. Rest'
  BY <1>4, <1>5, <1>6, <1>7, <1>8 DEF Rest
<1> QED
  BY <1>9, <1>10, <1>11, <1>12, <1>14, <1>15, Whole

(* failChild *)
LEMMA failChildKeeps ==
    ASSUME TasksInv, NEW a \in Threads, failChild(a)
    PROVE  TasksInv'
<1>0. /\ At(a, "mark")
      /\ UNCHANGED <<kids, holder, managerVars, userVars, historyVars, mid>>
  BY DEF failChild
<1>1. PICK s \in Section : s = The(a)
  BY <1>0, Parts, AtFacts
<1>2. /\ thread[a] # <<>> /\ s.op = "mark" /\ s.n \in Kids /\ Fitting(s) /\ s.x \in Failures
  BY <1>0, <1>1, Parts, AtFacts DEF Section
<1>3. PICK n \in Kids, x \in Failures : n = s.n /\ x = s.x
  BY <1>2
<1>4. Exists(n) /\ n \in Nodes /\ n # Top
  BY <1>2, <1>3, Parts, TasksAssumption DEF Fitting
<1>5. node \in [Nodes -> [status : Statuses, error : Results]]
  BY Parts DEF Types
<1>6. Live(n) \/ Ended(n)
  BY <1>4, <1>5 DEF Live, Ended, Terminal, Exists, Statuses
<1>7. CASE ~Live(n)
  <2>1. Then(a, <<>>) /\ UNCHANGED node
    BY <1>1, <1>3, <1>7 DEF failChild
  <2>2. CoverInv'
    <3> SUFFICES ASSUME Shared, node[Top].status = "failed",
                        NEW k \in Kids, Exists(k), k \notin late
                 PROVE  Covered(k)'
      BY <1>0, <2>1 DEF CoverInv, Shared, Exists, userVars, historyVars
    <3>1. Covered(k)
      BY Parts DEF CoverInv
    <3>2. \A t \in Todo : t # s => t \in Todo'
      BY <1>1, <1>2, <2>1, FlushesKept
    <3>3. \A m, l \in Nodes : Child(m, l) => Child(m, l)'
      BY <1>0 DEF Child
    <3>4. CASE Ended(k)
      BY <2>1, <3>4 DEF Covered, Ended
    <3>5. ASSUME NEW t \in Todo, t.op = "mark", t.n = k PROVE Covered(k)'
      <4>1. CASE t = s
        BY <1>3, <1>6, <1>7, <2>1, <3>5, <4>1 DEF Covered, Ended
      <4>2. CASE t # s
        BY <3>2, <3>5, <4>2 DEF Covered
      <4> QED
        BY <4>1, <4>2
    <3>6. ASSUME NEW t \in Todo, t.op = "list", Above(t.n, k) PROVE Covered(k)'
      <4>1. t \in Todo'
        BY <1>2, <3>2, <3>6
      <4>2. Above(t.n, k)'
        BY <3>3, <3>6, AboveKept
      <4> QED
        BY <3>6, <4>1, <4>2 DEF Covered
    <3> QED
      BY <3>1, <3>4, <3>5, <3>6 DEF Covered
  <2>3. PICK secs \in Seq(Section) : secs = <<>> /\ Len(secs) = 0
    BY Short
  <2>4. \A i \in 1..Len(secs) : secs[i].op \in {"list", "mark"} /\ Exists(secs[i].n)
    BY <2>3
  <2> QED
    BY <1>0, <1>1, <1>2, <2>1, <2>2, <2>3, <2>4, CascadeKeeps DEF nodeVars
<1>8. CASE Live(n)
  <2>1. /\ Then(a, <<Do("signal", n, x)>>)
        /\ node' = [node EXCEPT ![n].status = "failed", ![n].error = x]
    BY <1>1, <1>3, <1>8 DEF failChild
  <2>2. PICK secs \in Seq(Section) :
             /\ secs = <<Do("signal", n, x)>>
             /\ \E i \in 1..Len(secs) : secs[i] = Do("signal", n, x)
             /\ \A i \in 1..Len(secs) : secs[i] = Do("signal", n, x)
             /\ InOrder(secs, a)
    BY <1>4, OneSignal DEF Ends
  <2>3. Then(a, secs)
    BY <2>1, <2>2
  <2>4. /\ node' \in [Nodes -> [status : Statuses, error : Results]]
        /\ \A m \in Nodes : m # n => node'[m] = node[m]
        /\ node'[n].status = "failed" /\ node'[n].error = x
    BY <1>4, <1>5, <2>1 DEF Statuses, Failures, Results
  <2>5. ~Ended(n) /\ x # "ok"
    BY <1>8 DEF Failures, Ended, Live, Terminal
  <2>7. Ending(a, n, x, secs)
    BY <1>0, <1>1, <1>2, <1>3, <1>4, <2>2, <2>3, <2>4, <2>5 DEF Ending
  <2> QED
    BY <1>4, <2>7, EndingKeeps DEF Ends
<1> QED
  BY <1>7, <1>8

(* The cascade marks each child, then lists its children. *)
LEMMA CascadeFacts ==
    ASSUME NEW c \in Seq(Kids), NEW x \in Failures
    PROVE  /\ Cascade(c, x) \in Seq(Section)
           /\ \A i \in 1..Len(Cascade(c, x)) :
                /\ Cascade(c, x)[i].op \in {"list", "mark"}
                /\ \E j \in 1..Len(c) : Cascade(c, x)[i].n = c[j]
           /\ \A j \in 1..Len(c) :
                /\ \E i \in 1..Len(Cascade(c, x)) : Cascade(c, x)[i] = Do("mark", c[j], x)
                /\ \E i \in 1..Len(Cascade(c, x)) : Cascade(c, x)[i] = Do("list", c[j], x)
<1> DEFINE q == Cascade(c, x)
           L == Len(c)
<1>1. L \in Nat /\ \A j \in 1..L : c[j] \in Kids /\ c[j] \in Nodes
  <2>1. Len(c) \in Nat /\ c \in [1..Len(c) -> Kids]
    BY LenProperties
  <2> QED
    BY <2>1 DEF Nodes
<1>2. q = [i \in 1..2 * L |-> IF i % 2 = 1 THEN Do("mark", c[(i + 1) \div 2], x)
                              ELSE Do("list", c[i \div 2], x)]
  BY DEF Cascade
<1> HIDE DEF q, L
<1>3. ASSUME NEW i \in 1..2 * L, i % 2 = 1
      PROVE  (i + 1) \div 2 \in 1..L /\ q[i] = Do("mark", c[(i + 1) \div 2], x)
  <2>1. (i + 1) \div 2 \in 1..L
    BY <1>1, <1>3
  <2> QED
    BY <1>2, <1>3, <2>1
<1>4. ASSUME NEW i \in 1..2 * L, i % 2 # 1
      PROVE  i \div 2 \in 1..L /\ q[i] = Do("list", c[i \div 2], x)
  <2>1. i \div 2 \in 1..L
    BY <1>1, <1>4
  <2> QED
    BY <1>2, <1>4, <2>1
<1>5. ASSUME NEW i \in 1..2 * L
      PROVE  q[i] \in Section /\ q[i].op \in {"list", "mark"} /\ \E j \in 1..L : q[i].n = c[j]
  <2>1. CASE i % 2 = 1
    BY <1>1, <1>3, <2>1, Made
  <2>2. CASE i % 2 # 1
    BY <1>1, <1>4, <2>2, Made
  <2> QED
    BY <2>1, <2>2
<1>6. q \in [1..2 * L -> Section] /\ 2 * L \in Nat
  BY <1>1, <1>2, <1>5
<1>7. q \in Seq(Section) /\ Len(q) = 2 * L
  BY <1>6
<1>8. ASSUME NEW j \in 1..L
      PROVE  /\ 2 * j - 1 \in 1..2 * L /\ q[2 * j - 1] = Do("mark", c[j], x)
             /\ 2 * j \in 1..2 * L /\ q[2 * j] = Do("list", c[j], x)
  <2>1. 2 * j - 1 \in 1..2 * L /\ 2 * j \in 1..2 * L
    BY <1>1
  <2>2. (2 * j - 1) % 2 = 1 /\ ((2 * j - 1) + 1) \div 2 = j
    BY <1>1
  <2>3. (2 * j) % 2 # 1 /\ (2 * j) \div 2 = j
    BY <1>1
  <2> QED
    BY <1>3, <1>4, <2>1, <2>2, <2>3
<1>9. \A j \in 1..L : /\ \E i \in 1..Len(q) : q[i] = Do("mark", c[j], x)
                      /\ \E i \in 1..Len(q) : q[i] = Do("list", c[j], x)
  BY <1>7, <1>8
<1>10. \A i \in 1..Len(q) : q[i].op \in {"list", "mark"} /\ \E j \in 1..L : q[i].n = c[j]
  BY <1>5, <1>7
<1> QED
  BY <1>7, <1>9, <1>10 DEF q, L

(* Below m is a child of m, or below one. *)
LEMMA AboveStep ==
    ASSUME NEW m \in Nodes, NEW k \in Nodes, Above(m, k)
    PROVE  \E c \in Nodes : Child(m, c) /\ (c = k \/ Above(c, k))
<1>1. PICK p \in Paths : Len(p) > 1 /\ Leads(p, m, k)
  BY DEF Above
<1>2. p \in Seq(Nodes) /\ Len(p) \in Nat /\ p \in [1..Len(p) -> Nodes]
  BY LenProperties DEF Paths
<1>3. p[1] = m /\ p[Len(p)] = k /\ \A i \in 1..Len(p) - 1 : Child(p[i], p[i + 1])
  BY <1>1 DEF Leads
<1>4. 1 \in 1..Len(p) - 1 /\ 1 + 1 = 2 /\ p[2] \in Nodes
  BY <1>1, <1>2
<1>5. Child(m, p[2])
  BY <1>3, <1>4
<1>6. CASE Len(p) = 2
  BY <1>3, <1>4, <1>5, <1>6
<1>7. CASE Len(p) # 2
  <2> DEFINE q == Tail(p)
  <2>1. /\ q \in Seq(Nodes) /\ Len(q) = Len(p) - 1
        /\ \A i \in 1..Len(q) : q[i] = p[i + 1]
    BY <1>1, <1>2, HeadTailProperties
  <2> HIDE DEF q
  <2>2. Len(q) > 1 /\ Len(q) \in Nat
    BY <1>1, <1>2, <1>7, <2>1
  <2>3. q[1] = p[2] /\ q[Len(q)] = k
    BY <1>2, <1>3, <2>1, <2>2
  <2>4. ASSUME NEW i \in 1..Len(q) - 1 PROVE Child(q[i], q[i + 1])
    <3>1. i + 1 \in 1..Len(p) - 1 /\ i \in 1..Len(q) /\ i + 1 \in 1..Len(q)
      BY <1>2, <2>1, <2>2
    <3>2. q[i] = p[i + 1] /\ q[i + 1] = p[(i + 1) + 1]
      BY <2>1, <3>1
    <3> QED
      BY <1>3, <3>1, <3>2
  <2>5. Leads(q, p[2], k)
    BY <2>2, <2>3, <2>4 DEF Leads
  <2>6. Above(p[2], k)
    BY <2>1, <2>2, <2>5 DEF Above, Paths
  <2> QED
    BY <1>4, <1>5, <2>6
<1> QED
  BY <1>6, <1>7

(* failChildren *)
LEMMA failChildrenKeeps ==
    ASSUME TasksInv, NEW a \in Threads, failChildren(a)
    PROVE  TasksInv'
<1>0. /\ At(a, "list") /\ UNCHANGED <<nodeVars, managerVars, userVars, historyVars, mid>>
  BY DEF failChildren
<1>1. PICK s \in Section : s = The(a)
  BY <1>0, Parts, AtFacts
<1>2. /\ thread[a] # <<>> /\ s.op = "list" /\ s.n \in Nodes /\ s.x \in Failures
  BY <1>0, <1>1, Parts, AtFacts DEF Section
<1>3. PICK c \in Seq(Kids) : c = kids[s.n]
  BY <1>2, Parts DEF Types
<1>4. PICK secs \in Seq(Section) :
        /\ secs = Cascade(c, s.x)
        /\ \A i \in 1..Len(secs) : /\ secs[i].op \in {"list", "mark"}
                                   /\ \E j \in 1..Len(c) : secs[i].n = c[j]
        /\ \A j \in 1..Len(c) : /\ \E i \in 1..Len(secs) : secs[i] = Do("mark", c[j], s.x)
                                /\ \E i \in 1..Len(secs) : secs[i] = Do("list", c[j], s.x)
  BY <1>2, CascadeFacts
<1>5. Then(a, secs)
  BY <1>1, <1>3, <1>4 DEF failChildren
<1>6. \A j \in 1..Len(c) : c[j] \in Nodes /\ Exists(c[j])
  <2> TAKE j \in 1..Len(c)
  <2>1. c[j] \in Kids /\ c[j] \in Nodes
    BY ElementOfSeq, Parts
  <2>2. Child(s.n, c[j])
    BY <1>3 DEF Child
  <2> QED
    BY <1>2, <2>1, <2>2, Parts DEF TreeInv
<1>7. \A i \in 1..Len(secs) : secs[i].op \in {"list", "mark"} /\ Exists(secs[i].n)
  BY <1>4, <1>6
<1>8. CoverInv'
  <2> SUFFICES ASSUME Shared, node[Top].status = "failed",
                      NEW k \in Kids, Exists(k), k \notin late
               PROVE  Covered(k)'
    BY <1>0 DEF CoverInv, Shared, Exists, nodeVars, userVars, historyVars
  <2>1. Covered(k) /\ k \in Nodes
    BY Parts DEF CoverInv
  <2>2. /\ \A t \in Todo : t # s => t \in Todo'
        /\ \A i \in 1..Len(secs) : secs[i] \in Todo'
    BY <1>1, <1>2, <1>5, Parts, ThenTodo
  <2>3. \A m, l \in Nodes : Child(m, l) => Child(m, l)'
    BY <1>0 DEF Child, nodeVars
  <2>4. CASE Ended(k)
    BY <1>0, <2>4 DEF Covered, Ended, nodeVars
  <2>5. ASSUME NEW t \in Todo, t.op = "mark", t.n = k PROVE Covered(k)'
    BY <1>2, <2>2, <2>5 DEF Covered
  <2>6. ASSUME NEW t \in Todo, t.op = "list", Above(t.n, k), t # s PROVE Covered(k)'
    <3>1. t \in Todo'
      BY <2>2, <2>6
    <3>2. Above(t.n, k)'
      BY <2>3, <2>6, AboveKept
    <3> QED
      BY <2>6, <3>1, <3>2 DEF Covered
  <2>7. ASSUME Above(s.n, k) PROVE Covered(k)'
    <3>1. PICK m \in Nodes : Child(s.n, m) /\ (m = k \/ Above(m, k))
      BY <1>2, <2>1, <2>7, AboveStep
    <3>2. PICK j \in 1..Len(c) : c[j] = m
      BY <1>3, <3>1 DEF Child
    <3>3. Do("mark", m, s.x) \in Todo' /\ Do("list", m, s.x) \in Todo'
      BY <1>4, <2>2, <3>2
    <3>4. Do("mark", m, s.x).op = "mark" /\ Do("mark", m, s.x).n = m
          /\ Do("list", m, s.x).op = "list" /\ Do("list", m, s.x).n = m
      BY Made
    <3>5. CASE m = k
      BY <3>3, <3>4, <3>5 DEF Covered
    <3>6. CASE Above(m, k)
      <4>1. Above(m, k)'
        BY <2>3, <3>6, AboveKept
      <4> QED
        BY <3>3, <3>4, <4>1 DEF Covered
    <3> QED
      BY <3>1, <3>5, <3>6
  <2> QED
    BY <2>1, <2>4, <2>5, <2>6, <2>7 DEF Covered
<1> QED
  BY <1>0, <1>1, <1>2, <1>5, <1>7, <1>8, CascadeKeeps

-----------------------------------------------------------------------------
(* The signal, and the start of a shared task. *)

(* What the signal x does to the middleware. *)
LEMMA SignalMid ==
    ASSUME TasksInv, NEW n \in Nodes, NEW x \in Ends,
           mid' = IF mid[n].ended # "none" THEN mid
                  ELSE [mid EXCEPT ![n].ended = x,
                                   ![n].done = IF mid[n].open THEN <<x>> ELSE @]
    PROVE  /\ mid' \in [Nodes -> Middleware] /\ MidInv'
           /\ \A m \in Nodes : mid'[m].pc = mid[m].pc
           /\ \A m \in Nodes : mid'[m].ended = mid[m].ended
                                \/ (m = n /\ mid[m].ended = "none" /\ mid'[m].ended = x)
           /\ mid'[n].ended # "none"
<1>1. mid \in [Nodes -> Middleware]
  BY Parts DEF Types
<1>2. x \in Results /\ x # "none"
  BY DEF Ends, Failures, Results
<1>3. CASE mid[n].ended # "none"
  BY <1>1, <1>3, Parts DEF MidInv
<1>4. CASE mid[n].ended = "none"
  <2> DEFINE d == IF mid[n].open THEN <<x>> ELSE mid[n].done
             r == [mid[n] EXCEPT !.ended = x, !.done = d]
  <2>1. mid' = [mid EXCEPT ![n] = r]
    BY <1>4
  <2>2. d \in {<<>>} \cup {<<y>> : y \in Results}
    BY <1>1, <1>2 DEF Middleware
  <2> HIDE DEF d
  <2>3. r \in Middleware /\ r.ended = x /\ r.done = d /\ r.pc = mid[n].pc /\ r.open = mid[n].open
    BY <1>1, <1>2, <2>2 DEF Middleware
  <2> HIDE DEF r
  <2>4. mid' \in [Nodes -> Middleware] /\ mid'[n] = r /\ \A m \in Nodes : m # n => mid'[m] = mid[m]
    BY <1>1, <2>1, <2>3
  <2>5. mid[n].done = <<>> /\ mid[n].pc # "returned" /\ (mid[n].pc # "none" => mid[n].open)
    BY <1>4, Parts DEF MidInv
  <2>6. d = (IF mid[n].open THEN <<x>> ELSE <<>>)
    BY <2>5 DEF d
  <2>7. MidInv'
    <3> SUFFICES ASSUME NEW m \in Nodes
                 PROVE  /\ mid'[m].pc # "none" => mid'[m].open
                        /\ mid'[m].done # <<>> =>
                             mid'[m].ended # "none" /\ mid'[m].done = <<mid'[m].ended>>
                        /\ mid'[m].pc = "wait" /\ mid'[m].ended # "none" => mid'[m].done # <<>>
                        /\ mid'[m].pc = "returned" =>
                             mid'[m].ended # "none" /\ mid'[m].got = mid'[m].ended
      BY DEF MidInv
    <3>1. CASE m # n
      BY <2>4, <3>1, Parts DEF MidInv
    <3>2. CASE m = n
      <4>1. <<x>> # <<>>
        OBVIOUS
      <4> QED
        BY <1>2, <2>3, <2>4, <2>5, <2>6, <3>2, <4>1
    <3> QED
      BY <3>1, <3>2
  <2> QED
    BY <1>2, <1>4, <2>3, <2>4, <2>7
<1> QED
  BY <1>3, <1>4

(* signalMiddlewareEnd *)
LEMMA signalMiddlewareEndKeeps ==
    ASSUME TasksInv, NEW a \in Threads, signalMiddlewareEnd(a)
    PROVE  TasksInv'
<1>0. /\ At(a, "signal") /\ Then(a, <<>>)
      /\ UNCHANGED <<nodeVars, userVars, historyVars>>
  BY DEF signalMiddlewareEnd
<1>1. PICK s \in Section : s = The(a)
  BY <1>0, Parts, AtFacts
<1>2. thread[a] # <<>> /\ s.op = "signal" /\ s.n \in Nodes /\ s.x \in Ends /\ s \in Todo
  BY <1>0, <1>1, Parts, AtFacts DEF Section
<1>3. PICK n \in Nodes, x \in Ends : n = s.n /\ x = s.x
  BY <1>2
<1>4. /\ mid' = IF mid[n].ended # "none" THEN mid
                ELSE [mid EXCEPT ![n].ended = x,
                                 ![n].done = IF mid[n].open THEN <<x>> ELSE @]
      /\ sleeping' = IF n = Top /\ Shared THEN sleeping + 1 ELSE sleeping
      /\ UNCHANGED <<tasks, throttle, timers>>
  BY <1>1, <1>3 DEF signalMiddlewareEnd, armRemoval
<1>5. /\ mid' \in [Nodes -> Middleware] /\ MidInv'
      /\ \A m \in Nodes : mid'[m].pc = mid[m].pc
      /\ \A m \in Nodes : mid'[m].ended = mid[m].ended
                           \/ (m = n /\ mid[m].ended = "none" /\ mid'[m].ended = x)
      /\ mid'[n].ended # "none"
  BY <1>4, SignalMid
<1>6. PICK secs \in Seq(Section) : secs = <<>> /\ Len(secs) = 0
  BY Short
<1>7. Then(a, secs)
  BY <1>0, <1>6
<1>8. /\ \A t \in Todo : t = s \/ t \in Todo'
      /\ \A t \in Todo' : t \in Todo \/ \E i \in 1..Len(secs) : secs[i] = t
  BY <1>1, <1>2, <1>7, Parts, ThenTodo
<1>9. \A t \in Todo' : t \in Todo
  BY <1>6, <1>8
<1>10. \A m \in Nodes : Ended(m)' = Ended(m) /\ Exists(m)' = Exists(m)
  BY <1>0 DEF nodeVars, Ended, Exists
<1>11. EndInv'
  <2>1. \A m \in Nodes : mid[m].ended # "none" => mid'[m].ended # "none"
    BY <1>5
  <2>2. \A t \in Todo : t.op = "signal" => t \in Todo' \/ mid'[t.n].ended # "none"
    BY <1>3, <1>5, <1>8
  <2> QED
    BY <1>10, <2>1, <2>2, Parts, EndKept
<1>12. AgreeInv'
  <2>1. \A m \in Nodes : \/ mid'[m].ended = mid[m].ended
                         \/ \E t \in Todo : t.op = "signal" /\ t.n = m /\ t.x = mid'[m].ended
    BY <1>2, <1>3, <1>5
  <2> QED
    BY <1>0, <1>9, <2>1, Parts, AgreeKept DEF nodeVars, historyVars
<1>13. Starting' => Starting
  BY <1>0, <1>9 DEF Starting, userVars
<1>14. Starting => Starting'
  BY <1>0, <1>2, <1>8 DEF Starting, userVars
<1>15. EndsSoFar' = EndsSoFar /\ EndsSoFar \in 0..2 /\ Ended(Top)' = Ended(Top)
  BY <1>10, <1>13, <1>14, Parts DEF EndsSoFar
<1>16. CountInv' /\ sleeping' \in 0..2
  <2>1. CASE n = Top /\ Shared
    <3>1. TopSignal(The(a))
      BY <1>1, <1>2, <1>3, <2>1 DEF TopSignal
    <3>2. a \in Signallers /\ Signallers' = Signallers \ {a}
      BY <1>2, <1>6, <1>7, <3>1, Parts, ThenSignals
    <3>3. IsFiniteSet(Signallers) /\ sleeping + Cardinality(Signallers) <= EndsSoFar
      BY <2>1, Parts DEF CountInv
    <3>4. /\ IsFiniteSet(Signallers') /\ Cardinality(Signallers') = Cardinality(Signallers) - 1
          /\ Cardinality(Signallers) \in Nat
      BY <3>2, <3>3, FS_RemoveElement, FS_CardinalityType
    <3>5. Cardinality(Signallers') \in Nat
      BY <3>4, FS_CardinalityType
    <3>6. sleeping' + Cardinality(Signallers') <= EndsSoFar' /\ sleeping' \in 0..2
      BY <1>4, <1>15, <2>1, <3>3, <3>4, <3>5, Parts
    <3>7. Shared'
      BY <1>0, <2>1 DEF Shared, userVars
    <3> QED
      BY <3>4, <3>6, <3>7 DEF CountInv
  <2>2. CASE n # Top
    <3>1. ~TopSignal(The(a)) /\ \A i \in 1..Len(secs) : ~TopSignal(secs[i])
      BY <1>1, <1>3, <1>6, <2>2 DEF TopSignal
    <3>2. Signallers' = Signallers
      BY <1>2, <1>7, <3>1, Parts, ThenSignals
    <3> QED
      BY <1>0, <1>4, <1>13, <1>15, <2>2, <3>2, Parts, CountKept DEF userVars
  <2>3. CASE ~Shared
    BY <1>0, <1>4, <2>3, Parts DEF CountInv, Shared, userVars
  <2> QED
    BY <2>1, <2>2, <2>3
<1>17. RemovalInv'
  <2>1. CASE ~tasks
    BY <1>4, <2>1 DEF RemovalInv
  <2>2. CASE tasks
    <3>1. Shared
      BY <2>2, Parts DEF StartInv
    <3>2. \A t \in Todo : TopSignal(t) => t \in Todo' \/ sleeping' > 0
      BY <1>3, <1>4, <1>8, <3>1, Parts DEF TopSignal
    <3> QED
      BY <1>4, <1>15, <3>2, Parts, RemovalKept
  <2> QED
    BY <2>1, <2>2
<1>18. TreeInv'
  BY <1>0, <1>10, Parts, TreeKept DEF nodeVars
<1>19. CoverInv'
  <2>1. \A t \in Todo : t.op \in {"mark", "list"} => t \in Todo'
    BY <1>2, <1>8
  <2>2. \A m, l \in Nodes : Child(m, l) => Child(m, l)'
    BY <1>0 DEF Child, nodeVars
  <2>3. \A k \in Kids : Exists(k)' = Exists(k) /\ Ended(k)' = Ended(k)
    BY <1>10, Parts
  <2> QED
    BY <1>0, <2>1, <2>2, <2>3, Parts, CoverKept DEF nodeVars, userVars, historyVars
<1>20. ThreadInv'
  <2>1. \A i \in 1..Len(secs) :
             /\ ~Final(secs[i]) /\ secs[i].op \notin {"managed", "ready", "running", "scoped"}
             /\ Fitting(secs[i])'
    BY <1>6
  <2> QED
    BY <1>0, <1>2, <1>5, <1>7, <1>10, <2>1, Parts, ThenThread DEF userVars
<1>21. thread' \in [Threads -> Seq(Section)]
  BY <1>2, <1>7, Parts, ThenFacts
<1>22. StartInv'
  <2>1. phase # "new"
    BY <1>2, Parts DEF StartInv
  <2> QED
    BY <1>0, <1>4, <1>5, <1>10, <2>1, Parts, StartKept DEF nodeVars, userVars
<1>23. ThrottleInv'
  BY <1>2, <1>4, <1>8, Parts, ThrottleKept
<1>25. Types'
  BY <1>0, <1>4, <1>5, Parts DEF Types, nodeVars, userVars, historyVars
<1>26. Rest'
  BY <1>11, <1>12, <1>16, <1>17, <1>18, <1>19 DEF Rest
<1> QED
  BY <1>5, <1>16, <1>20, <1>21, <1>22, <1>23, <1>25, <1>26, Whole

(* The start of a shared task *)
LEMMA becomeRunningKeeps ==
    ASSUME TasksInv, NEW a \in Threads, becomeRunning(a)
    PROVE  TasksInv'
<1>0. /\ At(a, "running") /\ Then(a, <<>>) /\ node' = [node EXCEPT ![Top].status = "running"]
      /\ revived' = (revived \/ Ended(Top))
      /\ UNCHANGED <<kids, holder, managerVars, userVars, late, mid>>
  BY DEF becomeRunning
<1>1. /\ thread[a] # <<>> /\ The(a).op = "running" /\ a = Handler /\ The(a) \in Todo
      /\ The(a) \in Section /\ Fitting(The(a))
  BY <1>0, Parts, AtFacts
<1>2. Exists(Top) /\ Shared
  BY <1>1 DEF Fitting, Section
<1>3. PICK secs \in Seq(Section) : secs = <<>> /\ Len(secs) = 0
  BY Short
<1>4. Then(a, secs)
  BY <1>0, <1>3
<1>5. \A s \in Todo' : s.op # "running"
  <2> SUFFICES ASSUME NEW s \in Todo', s.op = "running" PROVE FALSE
    OBVIOUS
  <2>1. PICK b \in Threads : \E i \in 1..Len(thread'[b]) : thread'[b][i] = s
    BY DEF Todo
  <2>2. PICK i \in 1..Len(thread'[b]) : thread'[b][i] = s
    BY <2>1
  <2>3. CASE b # a
    <3>1. thread'[b] = thread[b]
      BY <1>1, <1>4, <2>3, Parts, ThenFacts
    <3>2. InOrder(thread[b], b)
      BY Parts DEF ThreadInv
    <3> QED
      BY <1>1, <2>2, <2>3, <3>1, <3>2 DEF InOrder
  <2>4. CASE b = a
    <3>1. i \in Len(secs) + 1..Len(thread'[a])
      BY <1>3, <2>2, <2>4
    <3>2. /\ i - Len(secs) + 1 \in 2..Len(thread[a])
          /\ thread'[a][i] = thread[a][i - Len(secs) + 1] /\ Len(thread[a]) \in Nat
      BY <1>1, <1>4, <3>1, Parts, ThenFacts
    <3>3. InOrder(thread[a], a)
      BY Parts DEF ThreadInv
    <3>4. i - Len(secs) + 1 \in 1..Len(thread[a]) /\ i - Len(secs) + 1 # 1
      BY <3>2
    <3> QED
      BY <2>2, <2>4, <3>2, <3>3, <3>4 DEF InOrder
  <2> QED
    BY <2>3, <2>4
<1>6. phase # "new" /\ Starting /\ ~Starting'
  BY <1>0, <1>1, <1>5, Parts DEF Starting, StartInv, userVars
<1>7. node \in [Nodes -> [status : Statuses, error : Results]]
  BY Parts DEF Types
<1>8. ~Ended(Top)'
  BY <1>0, <1>7, Parts DEF Ended, Terminal
<1>9. Signallers' = Signallers
  <2>1. ~TopSignal(The(a)) /\ \A i \in 1..Len(secs) : ~TopSignal(secs[i])
    BY <1>1, <1>3 DEF TopSignal
  <2> QED
    BY <1>1, <1>4, <2>1, Parts, ThenSignals
<1>10. CountInv'
  <2>1. IsFiniteSet(Signallers) /\ sleeping + Cardinality(Signallers) <= EndsSoFar
    BY <1>2, Parts DEF CountInv
  <2>2. Cardinality(Signallers) \in Nat
    BY <2>1, FS_CardinalityType
  <2>3. EndsSoFar \in 0..1 /\ EndsSoFar' = 1
    BY <1>6, <1>8 DEF EndsSoFar
  <2>4. sleeping' = sleeping /\ Shared'
    BY <1>0, <1>2 DEF managerVars, userVars, Shared
  <2>5. sleeping' + Cardinality(Signallers') <= EndsSoFar'
    BY <1>9, <2>1, <2>2, <2>3, <2>4, Parts
  <2> QED
    BY <1>9, <2>1, <2>4, <2>5 DEF CountInv
<1> QED
  BY <1>0, <1>1, <1>2, <1>10, Parts, MoveKeeps

-----------------------------------------------------------------------------
(* Steps that make a node. *)

(* The three sections of a start are in order. *)
LEMMA StartOrder ==
    ASSUME NEW s \in Section, NEW t \in Section, NEW u \in Section,
           (s.op = "set" /\ s.x = "running") \/ s.op = "running",
           t.op \in {"managed", "scoped"}, u.op = "body"
    PROVE  InOrder(<<s, t, u>>, Handler)
<1> DEFINE q == <<s, t, u>>
<1>1. Len(q) = 3 /\ q[1] = s /\ q[2] = t /\ q[3] = u
  BY Short
<1> HIDE DEF q
<1>2. \A i \in 1..Len(q) : i = 1 \/ i = 2 \/ i = 3
  BY <1>1
<1>3. Handler \in Callables
  BY DEF Callables
<1>4. \A i \in 1..Len(q) : ~Final(q[i])
  BY <1>1, <1>2 DEF Final
<1>5. ASSUME NEW i \in 1..Len(q), q[i].op \in {"managed", "ready"}, NEW j \in i+1..Len(q)
      PROVE  q[j].op = "body"
  <2>1. i = 2
    <3>1. i # 1 /\ i # 3
      BY <1>1, <1>5
    <3> QED
      BY <1>2, <3>1
  <2>2. j = 3
    BY <1>1, <2>1
  <2> QED
    BY <1>1, <2>2
<1>6. \A i \in 1..Len(q) : q[i].op = "running" => i = 1
  BY <1>1, <1>2
<1>7. InOrder(q, Handler)
  BY <1>3, <1>4, <1>5, <1>6 DEF InOrder
<1> QED
  BY <1>7 DEF q

(* The task is announced. *)
LEMMA AnnounceKeeps ==
    ASSUME TasksInv, NEW inline \in BOOLEAN, NEW s \in Section, NEW t \in Section,
           Announce(inline, <<s, t>>),
           (s.op = "set" /\ s.x = "running" /\ ~Shared) \/ (s.op = "running" /\ Shared),
           t.op = "managed" \/ (t.op = "scoped" /\ Shared), s.n = Top, t.n = Top
    PROVE  TasksInv'
<1> DEFINE u == Do("body", Top, None)
           secs == <<s, t, u>>
<1>1. u \in Section /\ u.op = "body" /\ u.n = Top
  BY Parts, Made
<1>2. secs \in Seq(Section) /\ Len(secs) = 3 /\ secs[1] = s /\ secs[2] = t /\ secs[3] = u
      /\ <<s, t>> \o <<u>> = secs
  BY <1>1, Short
<1>3. InOrder(secs, Handler)
  BY <1>1, StartOrder
<1>4. Handler \in Threads
  BY DEF Threads, Callables
<1>5. /\ phase = "new" /\ phase' = "starting" /\ tasks' = Shared /\ slot' = inline
      /\ node' = [node EXCEPT ![Top].status = "created"]
      /\ UNCHANGED <<kids, holder, mid, sleeping, throttle, timers, kind, calls,
                     cancels, historyVars>>
  BY DEF Announce
<1>6. Put(Handler, secs)
  BY <1>2 DEF Announce, Put
<1> HIDE DEF u, secs
<1>7. /\ \A a \in Threads : thread[a] = <<>>
      /\ \A n \in Nodes : ~Exists(n) /\ timers[n] = 0
      /\ sleeping = 0
  BY <1>5, Parts DEF StartInv
<1>8. node \in [Nodes -> [status : Statuses, error : Results]]
  BY Parts DEF Types
<1>9. /\ node' \in [Nodes -> [status : Statuses, error : Results]]
      /\ \A m \in Nodes : m # Top => node'[m] = node[m]
      /\ node'[Top].status = "created"
  BY <1>5, <1>8, Parts DEF Statuses
<1>10. \A n \in Nodes : ~Ended(n)' /\ ~Ended(n) /\ (Exists(n)' <=> n = Top)
  BY <1>7, <1>9 DEF Ended, Exists, Terminal
<1>11. \A i \in 1..Len(secs) : secs[i] \in {s, t, u}
  <2>1. \A i \in 1..Len(secs) : i = 1 \/ i = 2 \/ i = 3
    BY <1>2
  <2> QED
    BY <1>2, <2>1
<1>12. /\ thread' \in [Threads -> Seq(Section)]
       /\ \A v \in Todo : v \in Todo'
       /\ \A v \in Todo' : v \in Todo \/ \E i \in 1..Len(secs) : secs[i] = v
  BY <1>2, <1>4, <1>6, <1>7, Parts, PutTodo
<1>13. \A v \in Todo' : v \in Todo \/ v \in {s, t, u}
  BY <1>11, <1>12
<1>14. EndInv' /\ RemovalInv' /\ CoverInv'
  <2>1. ~Ended(Top)' /\ node'[Top].status # "failed"
    BY <1>9, <1>10, Parts
  <2> QED
    BY <1>10, <2>1 DEF EndInv, RemovalInv, CoverInv
<1>15. AgreeInv'
  <2>1. \A v \in Todo' : v.op = "signal" => v \in Todo
    BY <1>1, <1>13
  <2> QED
    BY <1>5, <1>10, <2>1, Parts, AgreeKept DEF historyVars
<1>16. CountInv'
  <2>1. \A i \in 1..Len(secs) : ~TopSignal(secs[i])
    BY <1>1, <1>11 DEF TopSignal
  <2>2. Signallers' = Signallers
    BY <1>2, <1>4, <1>6, <1>7, <2>1, Parts, PutSignals
  <2>3. Starting
    BY <1>5 DEF Starting
  <2>4. ~Ended(Top)
    BY <1>10, Parts
  <2> QED
    BY <1>5, <2>2, <2>3, <2>4, Parts, CountKept
<1>17. TreeInv'
  <2>1. \A m, n \in Nodes : Child(m, n)' => FALSE
    BY <1>5, <1>7, Parts DEF TreeInv, Child
  <2>2. \A k \in Kids : ~Exists(k)'
    BY <1>10, Parts, TasksAssumption
  <2> QED
    BY <2>1, <2>2 DEF TreeInv
<1>18. Exists(Top)' /\ Shared' = Shared
  BY <1>5, <1>10, Parts DEF Shared
<1>19. ThreadInv'
  <2>1. Fitting(s)' /\ Fitting(t)' /\ Fitting(u)'
    BY <1>1, <1>18 DEF Fitting
  <2>2. \A i \in 1..Len(secs) : Fitting(secs[i])'
    BY <1>11, <2>1
  <2> QED
    BY <1>2, <1>3, <1>4, <1>5, <1>6, <1>7, <2>2, Parts, PutThread
<1>20. StartInv'
  <2>1. \A n \in Nodes : holder'[n] = None
    BY <1>5, <1>7, Parts DEF StartInv, Held
  <2> QED
    BY <1>5, <1>18, <2>1 DEF StartInv
<1>21. MidInv' /\ ThrottleInv'
  BY <1>5, <1>12, Parts, ThrottleKept DEF MidInv
<1>23. Types' /\ sleeping' \in 0..2
  BY <1>5, <1>9, Parts DEF Types, historyVars, Shared
<1>24. Rest'
  BY <1>14, <1>15, <1>16, <1>17 DEF Rest
<1> QED
  BY <1>12, <1>19, <1>20, <1>21, <1>23, <1>24, Whole

(* startRequestTask, startSharedTask and SharedSubTask *)
LEMMA StartKeeps ==
    ASSUME TasksInv, startRequestTask \/ startSharedTask \/ SharedSubTask
    PROVE  TasksInv'
<1>1. PICK s \in Section, t \in Section, inline \in BOOLEAN :
        /\ Announce(inline, <<s, t>>) /\ s.n = Top /\ t.n = Top
        /\ (s.op = "set" /\ s.x = "running" /\ ~Shared) \/ (s.op = "running" /\ Shared)
        /\ t.op = "managed" \/ (t.op = "scoped" /\ Shared)
  <2> DEFINE set == Do("set", Top, "running")
             run == Do("running", Top, None)
             man == Do("managed", Top, None)
             sco == Do("scoped", Top, None)
  <2>1. /\ set \in Section /\ set.op = "set" /\ set.n = Top /\ set.x = "running"
        /\ run \in Section /\ run.op = "running" /\ run.n = Top
        /\ man \in Section /\ man.op = "managed" /\ man.n = Top
        /\ sco \in Section /\ sco.op = "scoped" /\ sco.n = Top
    BY Parts, Made
  <2>2. CASE startRequestTask
    <3>1. Announce(TRUE, <<set, man>>) /\ ~Shared
      BY <2>2 DEF startRequestTask, Shared
    <3> HIDE DEF set, man
    <3> QED
      BY <2>1, <3>1
  <2>3. CASE startSharedTask
    <3>1. Announce(kind = "shared", <<run, man>>) /\ Shared
      BY <2>3 DEF startSharedTask, Shared
    <3>2. (kind = "shared") \in BOOLEAN
      OBVIOUS
    <3> HIDE DEF run, man
    <3> QED
      BY <2>1, <3>1, <3>2
  <2>4. CASE SharedSubTask
    <3>1. Announce(FALSE, <<run, sco>>) /\ Shared
      BY <2>4 DEF SharedSubTask, Shared
    <3> HIDE DEF run, sco
    <3> QED
      BY <2>1, <3>1
  <2> QED
    BY <2>2, <2>3, <2>4
<1> QED
  BY <1>1, AnnounceKeeps

(* A child of what is below m is below m. *)
LEMMA AboveAppend ==
    ASSUME NEW m \in Nodes, NEW p \in Nodes, NEW k \in Nodes,
           (m = p \/ Above(m, p)'), Child(p, k)'
    PROVE  Above(m, k)'
<1>1. PICK q \in Seq(Nodes) : /\ Len(q) > 0 /\ q[1] = m /\ q[Len(q)] = p
                              /\ \A i \in 1..Len(q) - 1 : Child(q[i], q[i + 1])'
  <2>1. CASE m = p
    <3> DEFINE q == <<m>>
    <3>1. q \in Seq(Nodes) /\ Len(q) = 1 /\ q[1] = m
      OBVIOUS
    <3> HIDE DEF q
    <3>2. Len(q) > 0 /\ q[Len(q)] = p /\ \A i \in 1..Len(q) - 1 : Child(q[i], q[i + 1])'
      BY <2>1, <3>1
    <3> QED
      BY <3>1, <3>2
  <2>2. CASE Above(m, p)'
    BY <2>2 DEF Above, Leads, Paths
  <2> QED
    BY <2>1, <2>2
<1> DEFINE r == Append(q, k)
<1>2. Len(q) \in Nat /\ r \in Seq(Nodes) /\ Len(r) = Len(q) + 1
      /\ r[Len(r)] = k /\ \A i \in 1..Len(q) : r[i] = q[i]
  BY LenProperties, AppendProperties
<1> HIDE DEF r
<1>3. Len(r) > 1 /\ r[1] = m
  BY <1>1, <1>2
<1>4. ASSUME NEW i \in 1..Len(r) - 1 PROVE Child(r[i], r[i + 1])'
  <2>1. CASE i < Len(q)
    <3>1. i \in 1..Len(q) - 1 /\ i \in 1..Len(q) /\ i + 1 \in 1..Len(q)
      BY <1>2, <2>1
    <3>2. r[i] = q[i] /\ r[i + 1] = q[i + 1]
      BY <1>2, <3>1
    <3> QED
      BY <1>1, <3>1, <3>2
  <2>2. CASE i = Len(q)
    <3>1. i \in 1..Len(q) /\ i + 1 = Len(r)
      BY <1>1, <1>2, <2>2
    <3>2. r[i] = p /\ r[i + 1] = k
      BY <1>1, <1>2, <2>2, <3>1
    <3> QED
      BY <3>2
  <2> QED
    BY <1>2, <2>1, <2>2
<1>5. Leads(r, m, k)'
  BY <1>2, <1>3, <1>4 DEF Leads
<1> QED
  BY <1>2, <1>3, <1>5 DEF Above, Paths

(* createChild *)
LEMMA createChildKeeps ==
    ASSUME TasksInv, NEW a \in Callables, NEW p \in Nodes, NEW how \in {"scoped", "managed"},
           createChild(a, p, how)
    PROVE  TasksInv'
<1>0. /\ MayCall(a) /\ HasHandle(p) /\ \E k \in Kids : node[k].status = "absent"
      /\ UNCHANGED <<holder, mid, managerVars, kind, phase, slot, revived>>
  BY DEF createChild
<1>1. PICK k \in Kids : k = allocID /\ node[k].status = "absent"
  BY <1>0 DEF allocID
<1> DEFINE s == Do("set", k, "running")
           t == Do(how, k, None)
           secs == <<s, t>>
<1>2. /\ node' = [node EXCEPT ![k].status = "created"]
      /\ kids' = [kids EXCEPT ![p] = Append(@, k)]
      /\ late' = IF Ended(Top) THEN late \cup {k} ELSE late
      /\ Call(a, secs)
  BY <1>1 DEF createChild
<1>3. k \in Nodes /\ k # Top /\ ~Exists(k)
  BY <1>1, Parts, TasksAssumption DEF Exists
<1>4. /\ s \in Section /\ s.op = "set" /\ s.n = k /\ s.x = "running"
      /\ t \in Section /\ t.op = how /\ t.n = k
  BY <1>3, Made
<1>5. secs \in Seq(Section) /\ Len(secs) = 2 /\ secs[1] = s /\ secs[2] = t
  BY <1>4, Short
<1>6. /\ a \in Threads /\ thread[a] = <<>> /\ phase # "new" /\ Exists(Top)
      /\ calls' \in 0..MaxCalls[kind] /\ cancels' = cancels
      /\ Put(a, secs)
  BY <1>0, <1>2, CallFacts
<1> HIDE DEF s, t, secs
<1>7. \A i \in 1..Len(secs) : (i = 1 \/ i = 2) /\ secs[i] \in {s, t}
  <2>1. \A i \in 1..Len(secs) : i = 1 \/ i = 2
    BY <1>5
  <2> QED
    BY <1>5, <2>1
<1>8. InOrder(secs, a)
  <2>1. \A i \in 1..Len(secs) : ~Final(secs[i]) /\ secs[i].op # "running"
    BY <1>4, <1>7 DEF Final
  <2>2. ASSUME NEW i \in 1..Len(secs), secs[i].op \in {"managed", "ready"},
               NEW j \in i+1..Len(secs)
        PROVE  secs[j].op = "body"
    <3>1. i = 2
      BY <1>4, <1>5, <1>7, <2>2
    <3> QED
      BY <1>5, <2>2, <3>1
  <2> QED
    BY <2>1, <2>2 DEF InOrder
<1>9. node \in [Nodes -> [status : Statuses, error : Results]] /\ kids \in [Nodes -> Seq(Kids)]
  BY Parts DEF Types
<1>10. /\ node' \in [Nodes -> [status : Statuses, error : Results]]
       /\ \A m \in Nodes : m # k => node'[m] = node[m]
       /\ node'[k].status = "created"
  BY <1>2, <1>3, <1>9 DEF Statuses
<1>11. \A m \in Nodes : /\ Ended(m)' <=> Ended(m)
                        /\ Exists(m)' <=> (Exists(m) \/ m = k)
                        /\ Ended(m) => node'[m] = node[m]
  BY <1>3, <1>10 DEF Ended, Exists, Terminal
<1>12. /\ kids' \in [Nodes -> Seq(Kids)] /\ \A m \in Nodes : m # p => kids'[m] = kids[m]
       /\ kids'[p] = Append(kids[p], k)
  <2>1. Append(kids[p], k) \in Seq(Kids)
    BY <1>9, AppendProperties
  <2> QED
    BY <1>2, <1>9, <2>1
<1>13. /\ Len(kids[p]) \in Nat /\ Len(kids'[p]) = Len(kids[p]) + 1
       /\ kids'[p][Len(kids[p]) + 1] = k
       /\ \A i \in 1..Len(kids[p]) : kids'[p][i] = kids[p][i]
  <2>1. kids[p] \in Seq(Kids)
    BY <1>9
  <2> QED
    BY <1>12, <2>1, LenProperties, AppendProperties
<1>14. /\ \A m, n \in Nodes : Child(m, n) => Child(m, n)'
       /\ \A m, n \in Nodes : Child(m, n)' => Child(m, n) \/ n = k
       /\ Child(p, k)'
  <2>1. Child(p, k)'
    <3>1. Len(kids[p]) + 1 \in 1..Len(kids'[p])
      BY <1>13
    <3> QED
      BY <1>13, <3>1 DEF Child
  <2>2. ASSUME NEW m \in Nodes, NEW n \in Nodes, Child(m, n) PROVE Child(m, n)'
    <3>1. CASE m # p
      BY <1>12, <2>2, <3>1 DEF Child
    <3>2. CASE m = p
      <4>1. PICK i \in 1..Len(kids[p]) : kids[p][i] = n
        BY <2>2, <3>2 DEF Child
      <4>2. i \in 1..Len(kids'[p]) /\ kids'[p][i] = n
        BY <1>13, <4>1
      <4> QED
        BY <3>2, <4>2 DEF Child
    <3> QED
      BY <3>1, <3>2
  <2>3. ASSUME NEW m \in Nodes, NEW n \in Nodes, Child(m, n)' PROVE Child(m, n) \/ n = k
    <3>1. CASE m # p
      BY <1>12, <2>3, <3>1 DEF Child
    <3>2. CASE m = p
      <4>1. PICK i \in 1..Len(kids'[p]) : kids'[p][i] = n
        BY <2>3, <3>2 DEF Child
      <4>2. i = Len(kids[p]) + 1 \/ i \in 1..Len(kids[p])
        BY <1>13
      <4> QED
        BY <1>13, <3>2, <4>1, <4>2 DEF Child
    <3> QED
      BY <3>1, <3>2
  <2> QED
    BY <2>1, <2>2, <2>3
<1>15. /\ thread' \in [Threads -> Seq(Section)]
       /\ \A v \in Todo : v \in Todo'
       /\ \A v \in Todo' : v \in Todo \/ \E i \in 1..Len(secs) : secs[i] = v
  BY <1>5, <1>6, Parts, PutTodo
<1>16. \A v \in Todo' : v \in Todo \/ v \in {s, t}
  BY <1>7, <1>15
<1>17. EndInv'
  BY <1>0, <1>11, <1>15, Parts, EndKept
<1>18. AgreeInv'
  <2>1. \A v \in Todo' : v.op = "signal" => v \in Todo
    BY <1>4, <1>16
  <2> QED
    BY <1>0, <1>11, <2>1, Parts, AgreeKept
<1>19. Ended(Top)' <=> Ended(Top)
  BY <1>11, Parts
<1>20. CountInv'
  <2>1. \A i \in 1..Len(secs) : ~TopSignal(secs[i])
    BY <1>4, <1>7 DEF TopSignal
  <2>2. Signallers' = Signallers
    BY <1>5, <1>6, <2>1, Parts, PutSignals
  <2>3. Starting' => Starting
    BY <1>0, <1>4, <1>16 DEF Starting
  <2> QED
    BY <1>0, <1>19, <2>2, <2>3, Parts, CountKept DEF managerVars
<1>21. RemovalInv'
  BY <1>0, <1>15, <1>19, Parts, RemovalKept DEF managerVars
<1>22. TreeInv'
  <2>1. Exists(p)
    BY <1>0, <1>6, Parts DEF HasHandle, StartInv, Held
  <2>2. p = Top \/ Above(Top, p)
    BY <2>1, Parts DEF TreeInv, Nodes
  <2>3. Top = p \/ Above(Top, p)'
    BY <1>14, <2>2, AboveKept
  <2>4. Above(Top, k)'
    BY <1>3, <1>14, <2>3, Parts, AboveAppend
  <2>5. ASSUME NEW j \in Kids, Exists(j)' PROVE Above(Top, j)'
    <3>1. CASE j = k
      BY <2>4, <3>1
    <3>2. CASE j # k
      <4>1. Exists(j)
        BY <1>11, <2>5, <3>2, Parts
      <4>2. Above(Top, j)
        BY <4>1, Parts DEF TreeInv
      <4> QED
        BY <1>14, <4>2, AboveKept
    <3> QED
      BY <3>1, <3>2
  <2>6. \A m, n \in Nodes : Child(m, n)' => Exists(n)'
    BY <1>11, <1>14, Parts DEF TreeInv
  <2> QED
    BY <2>5, <2>6 DEF TreeInv
<1>23. CoverInv'
  <2>1. node'[Top] = node[Top]
    BY <1>3, <1>10, Parts
  <2>2. node'[Top].status = "failed" =>
          \A j \in Kids : Exists(j)' /\ j \notin late' => Exists(j) /\ j \notin late
    <3> SUFFICES ASSUME node[Top].status = "failed", NEW j \in Kids, Exists(j)', j \notin late'
                 PROVE  Exists(j) /\ j \notin late
      BY <2>1
    <3>1. late' = late \cup {k}
      BY <1>2 DEF Ended, Terminal
    <3> QED
      BY <1>11, <3>1, Parts
  <2>3. \A j \in Kids : Ended(j) => Ended(j)'
    BY <1>11, Parts
  <2> QED
    BY <1>0, <1>14, <1>15, <2>1, <2>2, <2>3, Parts, CoverKept
<1>24. ThreadInv'
  <2>1. Exists(k)'
    BY <1>3, <1>11
  <2>2. Fitting(s)' /\ Fitting(t)'
    BY <1>3, <1>4, <2>1 DEF Fitting
  <2>3. \A i \in 1..Len(secs) : Fitting(secs[i])'
    BY <1>7, <2>2
  <2> QED
    BY <1>0, <1>5, <1>6, <1>8, <1>11, <2>3, Parts, PutThread
<1>25. StartInv'
  BY <1>0, <1>6, <1>11, Parts, StartKept DEF managerVars
<1>26. MidInv' /\ ThrottleInv'
  BY <1>0, <1>15, Parts, ThrottleKept DEF MidInv, managerVars
<1>28. Types' /\ sleeping' \in 0..2
  <2>1. late' \subseteq Kids
    BY <1>2, Parts DEF Types
  <2> QED
    BY <1>0, <1>6, <1>10, <1>12, <2>1, Parts DEF Types, managerVars
<1>29. Rest'
  BY <1>17, <1>18, <1>20, <1>21, <1>22, <1>23 DEF Rest
<1> QED
  BY <1>15, <1>24, <1>25, <1>26, <1>28, <1>29, Whole

-----------------------------------------------------------------------------
(* The theorems. *)

(* The invariant holds before the task is started. *)
LEMMA InitHolds == Init => TasksInv
<1> SUFFICES ASSUME Init PROVE TasksInv
  OBVIOUS
<1>1. /\ kind \in Kinds
      /\ phase = "new" /\ slot = FALSE /\ tasks = FALSE /\ revived = FALSE
      /\ node = [n \in Nodes |-> [status |-> "absent", error |-> "none"]]
      /\ kids = [n \in Nodes |-> <<>>]
      /\ holder = [n \in Nodes |-> None]
      /\ mid = [n \in Nodes |-> [pc |-> "none", open |-> FALSE, done |-> <<>>,
                                 ended |-> "none", got |-> "none"]]
      /\ sleeping = 0
      /\ throttle = [n \in Nodes |-> None]
      /\ timers = [n \in Nodes |-> 0]
     
      /\ late = {}
      /\ thread = [a \in Threads |-> <<>>]
      /\ calls = 0 /\ cancels = 0
  BY DEF Init
<1>2. Len(<<>>) = 0 /\ <<>> \in Seq(Section) /\ <<>> \in Seq(Kids)
  BY Short
<1>3. thread \in [Threads -> Seq(Section)] /\ \A a \in Threads : thread[a] = <<>>
  BY <1>1, <1>2
<1>4. Todo = {}
  BY <1>2, <1>3 DEF Todo
<1>5. Types /\ sleeping \in 0..2
  <2>1. MaxCalls[kind] \in Nat /\ MaxCancels \in Nat
    BY <1>1, TasksAssumption
  <2>2. node \in [Nodes -> [status : Statuses, error : Results]]
    BY <1>1 DEF Statuses, Results
  <2>3. mid \in [Nodes -> Middleware]
    BY <1>1 DEF Middleware, Results
  <2>4. /\ kids \in [Nodes -> Seq(Kids)] /\ holder \in [Nodes -> Callables \cup {None}]
        /\ throttle \in [Nodes -> Entry \cup {None}] /\ timers \in [Nodes -> Nat]
    BY <1>1, <1>2
  <2>5. calls \in 0..MaxCalls[kind] /\ cancels \in 0..MaxCancels /\ sleeping \in 0..2
    <3>1. calls = 0 /\ cancels = 0 /\ sleeping = 0
      BY <1>1
    <3> QED
      BY <2>1, <3>1
  <2>6. /\ kind \in Kinds /\ phase = "new"
        /\ slot \in BOOLEAN /\ tasks \in BOOLEAN /\ revived \in BOOLEAN
        /\ late = {}
    BY <1>1
  <2> QED
    BY <2>2, <2>3, <2>4, <2>5, <2>6 DEF Types
<1>6. \A n \in Nodes : ~Exists(n) /\ ~Ended(n) /\ node[n].status = "absent"
  BY <1>1 DEF Exists, Ended, Terminal
<1>7. Top \in Nodes /\ Kids \subseteq Nodes
  BY DEF Nodes
<1>8. ThreadInv
  <2>1. \A a \in Threads : InOrder(thread[a], a)
    BY <1>2, <1>3 DEF InOrder
  <2> QED
    BY <1>4, <2>1 DEF ThreadInv
<1>9. StartInv
  BY <1>1, <1>3, <1>6 DEF StartInv
<1>10. MidInv
  BY <1>1 DEF MidInv
<1>11. EndInv /\ RemovalInv /\ CoverInv
  BY <1>6, <1>7 DEF EndInv, RemovalInv, CoverInv
<1>12. AgreeInv
  BY <1>1, <1>4 DEF AgreeInv
<1>13. CountInv
  <2>1. Signallers = {}
    BY <1>2, <1>3 DEF Signallers
  <2>2. IsFiniteSet(Signallers) /\ Cardinality(Signallers) = 0
    BY <2>1, FS_EmptySet
  <2>3. EndsSoFar = 0
    BY <1>1, <1>6, <1>7 DEF EndsSoFar, Starting
  <2> QED
    BY <1>1, <2>2, <2>3 DEF CountInv
<1>14. TreeInv
  <2>1. \A m, n \in Nodes : ~Child(m, n)
    BY <1>1, <1>2 DEF Child
  <2> QED
    BY <1>6, <1>7, <2>1 DEF TreeInv
<1>15. ThrottleInv
  BY <1>1 DEF ThrottleInv
<1> QED
  BY <1>3, <1>5, <1>8, <1>9, <1>10, <1>11, <1>12, <1>13, <1>14, <1>15, TypesSplit
     DEF TasksInv, BaseInv

(* Every step keeps it. *)
LEMMA NextKeeps == TasksInv /\ [Next]_vars => TasksInv'
<1> SUFFICES ASSUME TasksInv, [Next]_vars PROVE TasksInv'
  OBVIOUS
<1>1. CASE UNCHANGED vars
  <2>0. UNCHANGED <<kind, phase, slot, node, kids, holder, mid, tasks, sleeping,
                    throttle, timers, thread, calls, cancels, revived, late>>
    BY <1>1 DEF vars
  <2>1. Quiet
    BY <2>0, QuietFrame
  <2>2. Todo' = Todo
    BY <2>0, SameTodo
  <2>3. MidInv' /\ ThrottleInv' /\ Types'
    BY <2>0, <2>2, Parts, ThrottleKept DEF MidInv, Types
  <2> QED
    BY <2>0, <2>1, <2>3, QuietStill
<1>2. CASE startRequestTask \/ startSharedTask \/ SharedSubTask
  BY <1>2, StartKeeps
<1>3. CASE startReturns
  BY <1>3, startReturnsKeeps
<1>4. CASE HandlerPanics
  BY <1>4, HandlerPanicsKeeps
<1>5. ASSUME NEW r \in {"ok", "error", "canceled"}, HandlerReturns(r) PROVE TasksInv'
  BY <1>5, HandlerReturnsKeeps DEF Ends, Failures
<1>6. ASSUME NEW a \in Callables, APICall(a) PROVE TasksInv'
  <2>1. ASSUME NEW p \in Nodes, \/ SubTask(a, p) \/ TaskSubTask(a, p)
                                \/ OutputWriter(a, p) \/ WriterProgress(a, p)
        PROVE  TasksInv'
    BY <2>1, createChildKeeps DEF SubTask, TaskSubTask, OutputWriter, WriterProgress
  <2>2. ASSUME NEW k \in Kids, NEW r \in {"ok", "error"},
               EndSub(a, k, r) \/ SubTaskEnds(a, k, r)
        PROVE  TasksInv'
    BY <2>2, EndSubKeeps, SubTaskEndsKeeps DEF Ends, Failures
  <2>3. ASSUME NEW r \in {"ok", "error"}, EndTask(a, r) \/ SharedSubTaskEnds(a, r)
        PROVE  TasksInv'
    BY <2>3, EndTaskKeeps, SharedSubTaskEndsKeeps DEF Ends, Failures
  <2>4. ASSUME NEW n \in Nodes, Progress(a, n) PROVE TasksInv'
    BY <2>4, ProgressKeeps
  <2> QED
    BY <1>6, <2>1, <2>2, <2>3, <2>4 DEF APICall
<1>8. ASSUME NEW a \in Cancelers, CancelTaskByID(a) PROVE TasksInv'
  BY <1>8, CancelTaskByIDKeeps
<1>9. ASSUME NEW a \in Threads, RunSection(a) PROVE TasksInv'
  BY <1>9, setStatusKeeps, setFailedKeeps, becomeRunningKeeps, completeTopKeeps, failTopKeeps,
     failChildrenKeeps, failChildKeeps, signalMiddlewareEndKeeps, runManagedKeeps,
     runManagedReturnsKeeps, runScopedKeeps, collectIDsKeeps, dropThrottlesKeeps,
     sendUpdateKeeps, flushProgressKeeps
     DEF RunSection
<1>10. ASSUME NEW n \in Nodes, \/ MiddlewareNext(n) \/ MiddlewareDone(n) \/ MiddlewareSkips(n)
                               \/ MiddlewarePanics(n)
                               \/ WindowEnds(n) \/ TimerFires(n)
       PROVE  TasksInv'
  BY <1>10, MiddlewareNextKeeps, MiddlewareDoneKeeps, MiddlewareSkipsKeeps,
     MiddlewarePanicsKeeps, WindowEndsKeeps, TimerFiresKeeps
<1>11. CASE remove \/ stop
  BY <1>11, removeKeeps, stopKeeps
<1> QED
  BY <1>1, <1>2, <1>3, <1>4, <1>5, <1>6, <1>8, <1>9, <1>10, <1>11 DEF Next

(* The inductive invariant holds in every reachable state, for any number   *)
(* of sub-tasks, goroutines, calls and cancels.                             *)
THEOREM TasksInvariant == Spec => []TasksInv
<1> QED
  BY InitHolds, NextKeeps, PTL DEF Spec

(* What is in Todo is queued by somebody. *)
LEMMA TodoQueued ==
    ASSUME TypeInv, NEW s \in Todo
    PROVE  Queued(s.op, s.n)
<1>1. PICK a \in Threads : \E i \in 1..Len(thread[a]) : thread[a][i] = s
  BY DEF Todo
<1>2. thread[a] \in Seq(Section)
  BY DEF TypeInv
<1>3. DOMAIN thread[a] = 1..Len(thread[a])
  BY <1>2, LenProperties
<1> QED
  BY <1>1, <1>3 DEF Queued

(* And a goroutine that has marks or lists to do is cascading. *)
LEMMA TodoCascading ==
    ASSUME TypeInv, NEW s \in Todo, s.op \in {"mark", "list"}
    PROVE  \E a \in Threads : Cascading(a)
<1>1. PICK a \in Threads : \E i \in 1..Len(thread[a]) : thread[a][i] = s
  BY DEF Todo
<1>2. thread[a] \in Seq(Section)
  BY DEF TypeInv
<1>3. DOMAIN thread[a] = 1..Len(thread[a])
  BY <1>2, LenProperties
<1> QED
  BY <1>1, <1>3 DEF Cascading

(* The middleware of a task sees the end that its status records, an ended *)
(* task's middleware is not left waiting, and a finished cascade has ended *)
(* every sub-task made before the failure (signalMiddlewareEnd,            *)
(* failChildren).                                                          *)
THEOREM EndReached == Spec => []EndReachesEverybody
<1>1. TasksInv => EndReachesEverybody
  <2> SUFFICES ASSUME TasksInv PROVE EndReachesEverybody
    OBVIOUS
  <2>1. NextSeesTheEnd
    BY Parts DEF NextSeesTheEnd, MidInv, AgreeInv, Agrees
  <2>2. NextNotForgotten
    <3> SUFFICES ASSUME NEW n \in Nodes, Ended(n), mid[n].pc \in {"begin", "wait"}
                 PROVE  \/ Queued("signal", n)
                        \/ mid[n].ended # "none" /\ (mid[n].pc = "wait" => mid[n].done # <<>>)
      BY DEF NextNotForgotten
    <3>1. CASE mid[n].ended # "none"
      BY <3>1, Parts DEF MidInv
    <3>2. ASSUME NEW s \in Todo, s.op = "signal", s.n = n PROVE Queued("signal", n)
      BY <3>2, Parts, TodoQueued
    <3> QED
      BY <3>1, <3>2, Parts DEF EndInv
  <2>3. CascadeReachesAll
    <3> SUFFICES ASSUME Shared, node[Top].status = "failed", \A a \in Threads : ~Cascading(a),
                        NEW k \in Kids, node[k].status # "absent", k \notin late
                 PROVE  Ended(k)
      BY DEF CascadeReachesAll
    <3>1. Covered(k)
      BY Parts DEF CoverInv, Exists
    <3>2. \A s \in Todo : s.op \notin {"mark", "list"}
      BY Parts, TodoCascading
    <3> QED
      BY <3>1, <3>2 DEF Covered
  <2> QED
    BY <2>1, <2>2, <2>3 DEF EndReachesEverybody
<1> QED
  BY <1>1, TasksInvariant, PTL

(* A suppressed progress value has a flush due, and an ended shared task is *)
(* on its way out of the registry (sendUpdate, completeTop, failTop).       *)
THEOREM NothingIsLeft == Spec => []NothingLeftDue
<1>1. TasksInv => NothingLeftDue
  <2> SUFFICES ASSUME TasksInv PROVE NothingLeftDue
    OBVIOUS
  <2>1. TypeOK
    BY Parts DEF TypeInv
  <2>2. PendingHasFlush
    <3> SUFFICES ASSUME NEW n \in Nodes, throttle[n] # None, throttle[n].pending
                 PROVE  timers[n] > 0 \/ Queued("flush", n)
      BY DEF PendingHasFlush
    <3>1. timers[n] > 0 \/ \E s \in Todo : s.op = "flush" /\ s.n = n
      BY Parts DEF ThrottleInv
    <3>2. ASSUME NEW s \in Todo, s.op = "flush", s.n = n PROVE Queued("flush", n)
      BY <3>2, Parts, TodoQueued
    <3> QED
      BY <3>1, <3>2
  <2>3. EndedIsRemoved
    <3> SUFFICES ASSUME tasks, Ended(Top) PROVE sleeping > 0 \/ Queued("signal", Top)
      BY DEF EndedIsRemoved
    <3>1. sleeping > 0 \/ \E s \in Todo : s.op = "signal" /\ s.n = Top
      BY Parts DEF RemovalInv
    <3>2. ASSUME NEW s \in Todo, s.op = "signal", s.n = Top PROVE Queued("signal", Top)
      BY <3>2, Parts, TodoQueued
    <3> QED
      BY <3>1, <3>2
  <2> QED
    BY <2>1, <2>2, <2>3 DEF NothingLeftDue
<1> QED
  BY <1>1, TasksInvariant, PTL

(* A sub-task, and a request's own task, keeps the first terminal status it *)
(* reaches (taskNode.setStatus, failChildren).                              *)
THEOREM TerminalIsKept == Spec => TerminalStays
<1> DEFINE Keeps == \A n \in Nodes : (n \in Kids \/ ~Shared) /\ Ended(n) => node'[n] = node[n]
<1>1. TasksInv /\ [Next]_vars => Keeps
  <2> SUFFICES ASSUME TasksInv, [Next]_vars, NEW n \in Nodes, n \in Kids \/ ~Shared, Ended(n)
               PROVE  node'[n] = node[n]
    OBVIOUS
  <2>0. node \in [Nodes -> [status : Statuses, error : Results]]
    BY Parts DEF Types
  <2>1. CASE UNCHANGED node
    BY <2>1
  <2>2. ASSUME NEW inline, NEW secs, Announce(inline, secs) PROVE node'[n] = node[n]
    BY <2>2, Parts DEF Announce, StartInv, Exists, Ended, Terminal
  <2>3. ASSUME NEW a, NEW p, NEW how, createChild(a, p, how) PROVE node'[n] = node[n]
    <3>1. /\ \E k \in Kids : node[k].status = "absent"
          /\ node' = [node EXCEPT ![allocID].status = "created"]
      BY <2>3 DEF createChild
    <3>2. node[allocID].status = "absent"
      BY <3>1 DEF allocID
    <3>3. n # allocID
      BY <3>2 DEF Ended, Terminal
    <3> QED
      BY <2>0, <3>1, <3>3
  <2>4. ASSUME NEW a \in Threads, RunSection(a) PROVE node'[n] = node[n]
    <3>1. CASE setStatus(a) \/ setFailed(a) \/ failChild(a)
      <4>1. \/ UNCHANGED node
            \/ ~Ended(The(a).n) /\ (\/ node' = [node EXCEPT ![The(a).n].status = The(a).x]
                                    \/ node' = [node EXCEPT ![The(a).n].status = "failed",
                                                            ![The(a).n].error = The(a).x])
        BY <3>1 DEF setStatus, setFailed, failChild, Ended, Live, Terminal
      <4> QED
        BY <2>0, <4>1
    <3>2. CASE completeTop(a) \/ failTop(a)
      <4>1. \/ UNCHANGED node
            \/ ~Ended(Top) /\ (\/ node' = [node EXCEPT ![Top].status = "completed"]
                               \/ node' = [node EXCEPT ![Top].status = "failed",
                                                       ![Top].error = The(a).x])
        BY <3>2 DEF completeTop, failTop, Ended, Live, Terminal
      <4> QED
        BY <2>0, <4>1
    <3>3. CASE becomeRunning(a)
      <4>1. At(a, "running") /\ node' = [node EXCEPT ![Top].status = "running"]
        BY <3>3 DEF becomeRunning
      <4>2. Fitting(The(a)) /\ The(a).op = "running"
        BY <4>1, Parts, AtFacts
      <4>3. n # Top
        BY <4>2, TasksAssumption DEF Fitting
      <4> QED
        BY <2>0, <4>1, <4>3
    <3>4. CASE \/ failChildren(a) \/ signalMiddlewareEnd(a) \/ runManaged(a)
               \/ runManagedReturns(a) \/ runScoped(a) \/ collectIDs(a)
               \/ dropThrottles(a) \/ sendUpdate(a) \/ flushProgress(a)
      BY <2>1, <3>4 DEF failChildren, signalMiddlewareEnd, runManaged, runManagedReturns,
         runScoped, collectIDs, dropThrottles, sendUpdate, flushProgress, nodeVars
    <3> QED
      BY <2>4, <3>1, <3>2, <3>3, <3>4 DEF RunSection
  <2>5. ASSUME NEW a \in Callables, APICall(a) PROVE node'[n] = node[n]
    <3>1. ASSUME NEW p, \/ SubTask(a, p) \/ TaskSubTask(a, p)
                        \/ OutputWriter(a, p) \/ WriterProgress(a, p)
          PROVE  node'[n] = node[n]
      BY <2>3, <3>1 DEF SubTask, TaskSubTask, OutputWriter, WriterProgress
    <3>2. ASSUME NEW k, NEW r, EndSub(a, k, r) \/ SubTaskEnds(a, k, r) PROVE node'[n] = node[n]
      BY <2>1, <3>2 DEF EndSub, SubTaskEnds, nodeVars
    <3>3. ASSUME NEW r, EndTask(a, r) \/ SharedSubTaskEnds(a, r) PROVE node'[n] = node[n]
      BY <2>1, <3>3 DEF EndTask, SharedSubTaskEnds, nodeVars
    <3>4. ASSUME NEW m, Progress(a, m) PROVE node'[n] = node[n]
      BY <2>1, <3>4 DEF Progress, nodeVars
    <3> QED
      BY <2>5, <3>1, <3>2, <3>3, <3>4 DEF APICall
  <2>6. CASE startRequestTask \/ startSharedTask \/ SharedSubTask
    BY <2>2, <2>6 DEF startRequestTask, startSharedTask, SharedSubTask
  <2>7. CASE \/ startReturns \/ HandlerPanics \/ remove \/ stop \/ UNCHANGED vars
             \/ \E r \in {"ok", "error", "canceled"} : HandlerReturns(r)
    BY <2>1, <2>7 DEF startReturns, HandlerPanics, remove, stop, vars,
       HandlerReturns, nodeVars
  <2>8. CASE \E a \in Cancelers : CancelTaskByID(a)
    BY <2>1, <2>8 DEF CancelTaskByID, nodeVars
  <2>9. CASE \E m \in Nodes :
               \/ MiddlewareNext(m) \/ MiddlewareDone(m) \/ MiddlewareSkips(m)
               \/ MiddlewarePanics(m) \/ WindowEnds(m) \/ TimerFires(m)
    BY <2>1, <2>9 DEF MiddlewareNext, MiddlewareDone, MiddlewareSkips, MiddlewarePanics,
       WindowEnds, TimerFires, nodeVars
  <2> QED
    BY <2>4, <2>5, <2>6, <2>7, <2>8, <2>9 DEF Next
<1> QED
  BY <1>1, TasksInvariant, PTL DEF Spec, TerminalStays
=============================================================================
