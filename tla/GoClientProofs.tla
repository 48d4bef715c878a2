--------------------------- MODULE GoClientProofs ---------------------------
(***************************************************************************)
(* What the Go client promises, proved of GoClient for any number of       *)
(* calls, token refreshes, connections and options.                        *)
(*                                                                         *)
(* The inductive invariant has five parts: the types (TypeInv), what the   *)
(* supervisor's place says of the connections (SupInv) and of the fields   *)
(* under Client.mu (ClientInv), where the one result of a call is          *)
(* (CallInv), and which auth frame the next verdict answers (AuthInv).     *)
(***************************************************************************)
EXTENDS GoClient, FiniteSetTheorems, SequenceTheorems, TLAPS

-----------------------------------------------------------------------------
(* The inductive invariant.                                                *)

\* What a reader in the middle of a hand-over carries.
ReaderHands ==
  /\ \A c \in Conns : rd[c].pc = "give" => rd[c].to \in Calls /\ rd[c].res = "answer"
  /\ \A c \in Conns : rd[c].pc = "verdict" => rd[c].to \in Actors
                                               /\ rd[c].res \in {"ok", "refused"}

\* An authenticate under way is about some connection.
AuthConns ==
  /\ \A a \in Actors : auth[a].pc \in {"watch", "lock", "send", "await", "handed"}
                          => auth[a].c \in Conns
  /\ \A a \in Actors : auth[a].pc \in {"lock", "send", "await", "handed"}
                          => auth[a].w \in Conns

\* From dial to markDisconnected the supervisor has a connection.
SupConn ==
  sup.pc \in {"first", "token", "auth", "unwind", "mark", "marked", "spawn", "up",
              "leave", "drop"} => sup.c \in Conns

TypeInv == TypeOK /\ ReaderHands /\ AuthConns /\ SupConn

\* A connection that is over: its socket is closed and no reader is left.
Over(c) == link[c] = "closed" /\ rd[c].pc \in {"none", "ended"}

\* The steps of the supervisor at which no connection is its own.
Between == {"dial", "failStart", "give", "decide", "loop", "delay", "shutting", "end"}

\* Connections are brought up one after the other: the later ones are untouched
\* and the earlier ones are over.
SupInv ==
  /\ \A c \in Conns : c > sup.c => link[c] = "none" /\ rd[c].pc = "none"
  /\ \A c \in Conns : c < sup.c => Over(c)
  /\ \A c \in Conns : c <= sup.c => link[c] # "none"
  /\ \A c \in Conns : rd[c].pc = "ended" => link[c] = "closed"
  /\ sup.pc = "first" => rd[sup.c].pc = "none"
  /\ sup.pc \in Between \cup {"drop"} => \A c \in Conns : c <= sup.c => Over(c)

\* The fields under Client.mu against the stage of shutdown and of the
\* supervisor.
ClientInv ==
  /\ cl.closed <=> sd.pc # "no"
  /\ cl.done => sd.pc = "done"
  /\ cl.cancelled => cl.closed
  /\ cl.state = "closed" => cl.closed
  /\ cl.closed => cl.conn = NoConn
  /\ cl.cancelRun /\ cl.closed => cl.cancelled \/ (sd.pc = "close" /\ sd.cancel)
  /\ cl.conn # NoConn => /\ sup.pc \in {"marked", "spawn", "up", "drop"}
                         /\ cl.conn = sup.c /\ cl.watch = cl.conn
  /\ ~cl.closed => (sup.pc \in {"marked", "spawn", "up", "drop"} <=> cl.conn # NoConn)
  /\ ~cl.closed => (cl.ready <=> cl.conn # NoConn)
  /\ sup.pc \in {"leave", "shutting", "end"} => cl.closed
  /\ sd.conn <= sup.c
  /\ cl.refused /\ opts.retry = -1 =>
        cl.closed \/ sup.pc = "failStart" \/ (sup.pc = "loop" /\ sup.rejected)

\* The readers that have taken call k and have yet to send its answer.
Givers(k) == {c \in Conns : rd[c].pc = "give" /\ rd[c].to = k}

\* A call in the table is bound to the current connection and has not
\* returned; a result is promised from the registration on, and only one.
CallInv ==
  /\ sd.pc = "no" => sd.give = {}
  /\ sup.pc # "give" => supGive = {}
  /\ \A k \in Calls :
       /\ call[k].pc \in {"idle", "wait", "register"} => Promised(k) = 0
       /\ call[k].pc \in {"send", "await", "mustTake"} => Promised(k) = 1
       /\ Promised(k) <= 1
       /\ call[k].pc = "register" => call[k].c # NoConn
       /\ k \in pending => /\ call[k].pc \in {"send", "await"}
                           /\ call[k].c = cl.conn /\ cl.conn # NoConn

\* Actor a has sent its auth frame on c and the verdict has not been read.
Asked(a, c) == auth[a].pc = "await" /\ auth[a].c = c /\ watch.authWait = a

\* authenticate runs under authMu and on the connection whose watch it counts
\* on, unless that connection is over.
AuthPlace ==
  /\ \A a \in Actors : auth[a].pc \in {"send", "await", "handed"} => authMu = a
  /\ \A a \in Actors : watch.authWait = a => auth[a].pc \in {"send", "await"}
  /\ \A a \in Actors : auth[a].pc = "watch"
        => link[auth[a].c] # "none" /\ (link[auth[a].c] = "closed" \/ cl.watch \in {NoConn, auth[a].c})
  /\ \A a \in Actors : auth[a].pc \in {"lock", "send"}
        => link[auth[a].c] # "none" /\ (link[auth[a].c] = "closed" \/ auth[a].w = auth[a].c)
  /\ \A a \in Actors : auth[a].pc \in {"await", "handed"}
        => link[auth[a].c] # "none" /\ auth[a].w = auth[a].c
  /\ cl.watch # NoConn => link[cl.watch] # "none"
  /\ sup.pc # "auth" => auth["sup"].pc = "idle"

\* While a link is up the server answers the auth frames sent on it in order:
\* first the abandoned ones, then the one that is asked, if any.
AuthQueues ==
  \A c \in Conns :
    /\ link[c] = "none" => srvAuths[c] = <<>> /\ watch.sent[c] = 0 /\ watch.abandoned[c] = 0
    /\ link[c] = "open" =>
         /\ watch.sent[c] = Len(srvAuths[c])
         /\ (\A a \in Actors : ~Asked(a, c)) => Len(srvAuths[c]) = watch.abandoned[c]
         /\ \A a \in Actors : Asked(a, c) =>
              /\ Len(srvAuths[c]) = watch.abandoned[c] + 1
              /\ srvAuths[c][Len(srvAuths[c])] = <<a, c, auth[a].n>>

\* A verdict that was taken is on its way to the actor whose frame it answers,
\* which waits for it and for no other.
AuthHands ==
  /\ \A c \in Conns : rd[c].pc = "verdict" =>
        /\ auth[rd[c].to].pc \in {"await", "handed"} /\ auth[rd[c].to].c = c
        /\ rd[c].frame = <<rd[c].to, c, auth[rd[c].to].n>>
        /\ watch.authWait # rd[c].to /\ wch[rd[c].to].res = "none"
  /\ \A a \in Actors : auth[a].pc \in {"send", "await", "handed"} /\ wch[a].res # "none" =>
        /\ auth[a].pc # "send" /\ watch.authWait # a
        /\ wch[a].frame = <<a, auth[a].c, auth[a].n>>
  /\ \A a \in Actors : auth[a].pc = "send" => watch.authWait = a

\* The client is never sent an unasked auth_error.
Asking == opts.token \/ ~opts.needAuth

AuthInv ==
  /\ AuthPlace
  /\ Asking => AuthQueues /\ AuthHands

ClientIndInv == TypeInv /\ SupInv /\ ClientInv /\ CallInv /\ AuthInv

\* What EndIsFinal says of one step.
EndStep ==
  /\ cl'.conn # cl.conn /\ cl'.conn # NoConn => ~(cl.refused /\ opts.retry = -1)
  /\ cl.closed => /\ cl'.closed /\ cl'.closeErr = cl.closeErr /\ cl'.conn = NoConn
                  /\ (cl.state = "closed" => cl'.state = "closed")

\* What is shown of every step.
Keeps == ClientIndInv' /\ EndStep

-----------------------------------------------------------------------------
(* The constants, and the initial state.                                   *)

\* What the proofs use of the constants.
LEMMA Domains ==
  /\ MaxConns \in Nat /\ CountCap \in Nat /\ MaxRefresh \in Nat
  /\ Conns \subseteq Nat /\ 0 \notin Conns /\ IsFiniteSet(Conns)
  /\ Conns \subseteq 0..MaxConns
  /\ "sup" \in Actors /\ Nobody \notin Actors /\ Nobody \notin Calls /\ Calls \cap Actors = {}
BY FS_Interval, ClientAssumption DEF Conns, Actors, Nobody

\* The results promised to a call, counted place by place.
One(b) == IF b THEN 1 ELSE 0

Places(k, p, s, d) == {x \in {"table", "drop", "shutdown"} :
                         \/ x = "table" /\ k \in p
                         \/ x = "drop" /\ k \in s
                         \/ x = "shutdown" /\ k \in d}

\* The table, the drop and the shutdown hold at most one promise each.
LEMMA CountPlaces ==
  ASSUME NEW k, NEW p, NEW s, NEW d
  PROVE  Cardinality(Places(k, p, s, d)) = One(k \in p) + One(k \in s) + One(k \in d)
<1> DEFINE T == IF k \in p THEN {"table"} ELSE {}
           D == IF k \in s THEN T \cup {"drop"} ELSE T
           S == IF k \in d THEN D \cup {"shutdown"} ELSE D
<1>1. Places(k, p, s, d) = S
  BY DEF Places
<1>2. IsFiniteSet(T) /\ Cardinality(T) = One(k \in p)
  BY FS_EmptySet, FS_Singleton DEF One
<1>3. IsFiniteSet(D) /\ Cardinality(D) = One(k \in p) + One(k \in s)
  <2>1. "drop" \notin T
    OBVIOUS
  <2>2. One(k \in p) \in Int
    BY DEF One
  <2>3. CASE k \in s
    <3>1. Cardinality(D) = Cardinality(T) + 1 /\ IsFiniteSet(D)
      BY <1>2, <2>1, <2>3, FS_AddElement
    <3> QED
      BY <1>2, <2>2, <2>3, <3>1 DEF One
  <2>4. CASE k \notin s
    BY <1>2, <2>2, <2>4 DEF One
  <2> QED
    BY <2>3, <2>4
<1>4. Cardinality(S) = One(k \in p) + One(k \in s) + One(k \in d)
  <2>1. "shutdown" \notin D
    OBVIOUS
  <2>2. One(k \in p) + One(k \in s) \in Int
    BY DEF One
  <2>3. CASE k \in d
    <3>1. Cardinality(S) = Cardinality(D) + 1
      BY <1>3, <2>1, <2>3, FS_AddElement
    <3> QED
      BY <1>3, <2>2, <2>3, <3>1 DEF One
  <2>4. CASE k \notin d
    BY <1>3, <2>2, <2>4 DEF One
  <2> QED
    BY <2>3, <2>4
<1> QED
  BY <1>1, <1>4

\* The promises to a call, place by place, before a step
LEMMA PromisedIs ==
  ASSUME NEW k \in Calls
  PROVE  Promised(k) = One(k \in pending) + One(k \in supGive) + One(k \in sd.give)
                       + Cardinality(Givers(k)) + Len(ch[k])
<1>1. Promised(k) = Cardinality(Places(k, pending, supGive, sd.give))
                    + Cardinality(Givers(k)) + Len(ch[k])
  BY DEF Promised, Places, Givers
<1> QED
  BY <1>1, CountPlaces

\* and after it.
LEMMA PromisedAfter ==
  ASSUME NEW k \in Calls
  PROVE  Promised(k)' = One(k \in pending') + One(k \in supGive') + One(k \in sd'.give)
                        + Cardinality(Givers(k)') + Len(ch'[k])
<1>1. Promised(k)' = Cardinality(Places(k, pending', supGive', sd'.give))
                     + Cardinality(Givers(k)') + Len(ch'[k])
  BY DEF Promised, Places, Givers
<1> QED
  BY <1>1, CountPlaces

\* The places are counted with naturals.
LEMMA PlacesCounted ==
  ASSUME TypeInv, NEW k \in Calls
  PROVE  /\ IsFiniteSet(Givers(k)) /\ Cardinality(Givers(k)) \in Nat /\ Len(ch[k]) \in Nat
         /\ One(k \in pending) \in {0, 1} /\ One(k \in supGive) \in {0, 1}
         /\ One(k \in sd.give) \in {0, 1}
<1>1. IsFiniteSet(Givers(k)) /\ Cardinality(Givers(k)) \in Nat
  BY Domains, FS_Subset, FS_CardinalityType DEF Givers
<1>2. ch[k] \in Seq(Results)
  BY DEF TypeInv, TypeOK
<1> QED
  BY <1>1, <1>2 DEF One

\* start() has built the client: nothing is dialed, asked or promised.
LEMMA InitInv == ASSUME Init PROVE ClientIndInv
<1> USE Domains
<1>1. opts \in Options /\ opts \in OptionSet /\ opts.maxAttempts < CountCap
  BY ClientAssumption DEF Init
<1>2. cl \in ClientRec
  BY <1>1 DEF Init, Options, ClientRec, NoConn, Errors
<1>3. sup \in SupRec /\ sd \in ShutdownRec
  BY DEF Init, SupRec, ShutdownRec, NoConn, Errors, App
<1>4. /\ rd \in [Conns -> ReaderRec] /\ auth \in [Actors -> AuthRec]
      /\ wch \in [Actors -> WaitRec] /\ call \in [Calls -> CallRec]
  BY DEF Init, ReaderRec, AuthRec, WaitRec, CallRec, Idle, Hand, NoConn, Results, Errors
<1>5. watch \in WatchRec
  BY DEF Init, WatchRec
<1>6. TypeInv
  BY <1>1, <1>2, <1>3, <1>4, <1>5
     DEF Init, TypeInv, TypeOK, ReaderHands, AuthConns, SupConn, Idle, Hand
<1>7. SupInv
  BY DEF Init, SupInv, Over, Idle, Hand, NoConn
<1>8. ClientInv
  BY <1>3 DEF Init, ClientInv, NoConn, SupRec
<1>9. CallInv
  <2> SUFFICES ASSUME NEW k \in Calls
               PROVE  Promised(k) = 0 /\ call[k].pc = "idle" /\ k \notin pending
    BY DEF CallInv, Init
  <2>1. Givers(k) = {} /\ ch[k] = <<>> /\ k \notin pending /\ k \notin supGive
        /\ k \notin sd.give /\ call[k].pc = "idle"
    BY DEF Init, Givers, Idle, Hand
  <2>2. One(k \in pending) = 0 /\ One(k \in supGive) = 0 /\ One(k \in sd.give) = 0
        /\ Cardinality(Givers(k)) = 0 /\ Len(ch[k]) = 0
    BY <2>1, FS_EmptySet DEF One
  <2>3. Promised(k) = 0
    BY <2>2, PromisedIs
  <2> QED
    BY <2>1, <2>3
<1>10. AuthInv
  <2>1. AuthPlace
    BY DEF Init, AuthPlace, NoConn
  <2>2. AuthQueues
    BY DEF Init, AuthQueues, Asked
  <2>3. AuthHands
    BY DEF Init, AuthHands, Idle, Hand
  <2> QED
    BY <2>1, <2>2, <2>3 DEF AuthInv
<1> QED
  BY <1>6, <1>7, <1>8, <1>9, <1>10 DEF ClientIndInv

-----------------------------------------------------------------------------
(* What a step that leaves a part of the state alone keeps.                *)

\* Links only fade: none appears, and a closed one stays closed.
LinksFade ==
  /\ link' \in [Conns -> {"none", "open", "broken", "closed"}]
  /\ \A c \in Conns : /\ link[c] = "none" <=> link'[c] = "none"
                      /\ link[c] = "closed" => link'[c] = "closed"
                      /\ link'[c] = "open" => link[c] = "open"

\* No reader takes up or puts down a call; none takes up a verdict.
GivesKept ==
  \A c \in Conns : /\ rd'[c].pc = "give" <=> rd[c].pc = "give"
                   /\ rd[c].pc = "give" => rd'[c] = rd[c]
VerdictsKept ==
  \A c \in Conns : rd'[c].pc = "verdict" => rd'[c] = rd[c]

\* The fields of the client that the invariant is about.
ClientKept ==
  /\ cl' \in ClientRec
  /\ cl'.closed = cl.closed /\ cl'.conn = cl.conn /\ cl'.watch = cl.watch
  /\ cl'.ready = cl.ready /\ cl'.done = cl.done /\ cl'.cancelRun = cl.cancelRun
  /\ cl'.cancelled = cl.cancelled /\ cl'.closeErr = cl.closeErr
  /\ cl.state = "closed" <=> cl'.state = "closed"

\* The promises to the calls, when nobody takes or gives a result.
LEMMA PromisesKept ==
  ASSUME GivesKept, NEW k \in Calls,
         UNCHANGED <<pending, supGive, sd, ch>>
  PROVE  Promised(k)' = Promised(k)
<1>1. Givers(k)' = Givers(k)
  BY DEF GivesKept, Givers
<1> QED
  BY <1>1 DEF Promised, Givers

\* A step in which no result changes hands keeps CallInv.
LEMMA CallKept ==
  ASSUME CallInv, GivesKept, UNCHANGED <<pending, supGive, sd, ch, call>>,
         cl'.conn = cl.conn, sup'.pc # "give" => supGive = {}
  PROVE  CallInv'
<1>1. \A k \in Calls : Promised(k)' = Promised(k)
  BY PromisesKept
<1> QED
  BY <1>1 DEF CallInv

\* A step outside authenticate, in which links only fade, keeps AuthInv.
LEMMA AuthKept ==
  ASSUME TypeInv, AuthInv, LinksFade, VerdictsKept,
         UNCHANGED <<opts, auth, authMu, wch, watch, srvAuths>>,
         cl'.watch \in {NoConn, cl.watch}, cl.watch \in 0..MaxConns,
         sup'.pc # "auth" => sup.pc # "auth"
  PROVE  AuthInv'
<1>1. AuthPlace'
  <2>1. \A a \in Actors : /\ auth[a].pc \in {"watch", "lock", "send", "await", "handed"}
                                => auth[a].c \in Conns
    BY DEF TypeInv, AuthConns
  <2>2. cl.watch # NoConn => cl.watch \in Conns
    BY Domains DEF Conns, NoConn
  <2> QED
    BY <2>1, <2>2 DEF AuthInv, AuthPlace, LinksFade
<1>2. Asking' = Asking
  BY DEF Asking
<1>3. ASSUME Asking PROVE AuthQueues'
  BY <1>3 DEF AuthInv, AuthQueues, LinksFade, Asked
<1>4. ASSUME Asking PROVE AuthHands'
  BY <1>4 DEF AuthInv, AuthHands, VerdictsKept
<1> QED
  BY <1>1, <1>2, <1>3, <1>4 DEF AuthInv

\* wireConn.close on a connection that was dialed.
LEMMA LinkCloses ==
  ASSUME link \in [Conns -> {"none", "open", "broken", "closed"}],
         NEW c \in Conns, link[c] # "none", closeLink(c)
  PROVE  LinksFade /\ link'[c] = "closed" /\ \A d \in Conns : d # c => link'[d] = link[d]
BY DEF closeLink, LinksFade

\* No link changes.
LEMMA LinksStay ==
  ASSUME link \in [Conns -> {"none", "open", "broken", "closed"}], UNCHANGED link
  PROVE  LinksFade
BY DEF LinksFade

\* A step of the supervisor that moves it and perhaps closes its link.
LEMMA SupMoves ==
  ASSUME TypeInv, CallInv, AuthInv, LinksFade,
         UNCHANGED <<opts, sd, supGive, rd, authVars, callVars>>,
         sup' \in SupRec, SupConn', cl' \in ClientRec,
         cl'.conn = cl.conn, cl'.watch = cl.watch,
         sup'.pc # "give" => supGive = {}, sup'.pc # "auth" => sup.pc # "auth"
  PROVE  TypeInv' /\ CallInv' /\ AuthInv'
<1>1. TypeInv'
  BY DEF TypeInv, TypeOK, ReaderHands, AuthConns, authVars, callVars, LinksFade
<1>2. GivesKept /\ VerdictsKept
  BY DEF GivesKept, VerdictsKept
<1>3. CallInv'
  BY <1>2, CallKept DEF callVars
<1>4. cl.watch \in 0..MaxConns
  BY DEF TypeInv, TypeOK, ClientRec
<1>5. AuthInv'
  BY <1>2, <1>4, AuthKept DEF authVars
<1> QED
  BY <1>1, <1>3, <1>5

\* The supervisor keeps its connection; a connection it is done with is over.
LEMMA SupKept ==
  ASSUME TypeInv, SupInv, LinksFade, UNCHANGED rd, sup'.c = sup.c,
         sup'.pc = "first" => sup.pc = "first",
         sup'.pc \in Between \cup {"drop"} =>
            sup.pc \in Between \cup {"drop"} \/ (sup.c \in Conns /\ link'[sup.c] = "closed"
                                                 /\ rd[sup.c].pc \in {"none", "ended"})
  PROVE  SupInv'
<1>1. sup.c \in Nat /\ Conns \subseteq Nat
  BY Domains DEF TypeInv, TypeOK, SupRec
<1>2. \A c \in Conns : c < sup'.c => Over(c)'
  BY <1>1 DEF SupInv, Over, LinksFade
<1>3. sup'.pc \in Between \cup {"drop"} => \A c \in Conns : c <= sup'.c => Over(c)'
  <2> SUFFICES ASSUME sup'.pc \in Between \cup {"drop"}, NEW c \in Conns, c <= sup.c
               PROVE  Over(c)'
    OBVIOUS
  <2>1. CASE c = sup.c /\ link'[sup.c] = "closed" /\ rd[sup.c].pc \in {"none", "ended"}
    BY <2>1 DEF Over
  <2>2. CASE Over(c)
    BY <2>2 DEF Over, LinksFade
  <2> QED
    BY <1>1, <2>1, <2>2 DEF SupInv
<1>4. /\ \A c \in Conns : c > sup'.c => link'[c] = "none" /\ rd'[c].pc = "none"
      /\ \A c \in Conns : c <= sup'.c => link'[c] # "none"
      /\ \A c \in Conns : rd'[c].pc = "ended" => link'[c] = "closed"
  BY <1>1 DEF SupInv, LinksFade
<1>5. sup'.pc = "first" => rd'[sup'.c].pc = "none"
  BY DEF SupInv
<1> QED
  BY <1>2, <1>3, <1>4, <1>5 DEF SupInv

-----------------------------------------------------------------------------
(* The supervisor: connect.                                                *)

Published == {"marked", "spawn", "up", "drop"}

\* A step that leaves the connection, the shutdown and the state alone: only the
\* supervisor's place and the refusals matter.
LEMMA ClientMoves ==
  ASSUME ClientInv, ClientKept, UNCHANGED <<opts, sd>>, sup'.c = sup.c,
         ~cl.closed => (sup'.pc \in Published <=> sup.pc \in Published),
         sup'.pc \in {"leave", "shutting", "end"} => cl.closed,
         cl'.refused /\ opts.retry = -1 =>
            cl.closed \/ sup'.pc = "failStart" \/ (sup'.pc = "loop" /\ sup'.rejected)
  PROVE  ClientInv' /\ EndStep
<1>1. ClientInv'
  BY DEF ClientInv, ClientKept, Published
<1>2. EndStep
  BY DEF ClientInv, ClientKept, EndStep
<1> QED
  BY <1>1, <1>2

\* connect returns an error, with its link closed and its reader over.
LEMMA ConnectFails ==
  ASSUME ClientIndInv, NEW kind \in Errors, connectFails(kind), LinksFade,
         UNCHANGED <<opts, sd, supGive, rd, authVars, callVars>>,
         sup.pc \in {"dial", "first", "unwind"},
         sup.pc = "dial" \/ (sup.c \in Conns /\ link'[sup.c] = "closed"
                             /\ rd[sup.c].pc \in {"none", "ended"})
  PROVE  Keeps
<1>0. sup \in SupRec /\ cl \in ClientRec /\ CountCap \in Nat
  BY Domains DEF ClientIndInv, TypeInv, TypeOK
<1>1. PICK k \in Errors :
        /\ sup' = IF sup.first
                    THEN [sup EXCEPT !.pc = "failStart", !.err = k]
                    ELSE IF cl.cancelled
                      THEN [sup EXCEPT !.pc = "end"]
                      ELSE [sup EXCEPT !.pc = "loop", !.rejected = (k = "rejected"),
                                       !.attempt = IF k = "rejected" THEN 0 ELSE @]
        /\ cl' = [cl EXCEPT !.refused = @ \/ k = "rejected"]
  BY DEF connectFails, Errors
<1>2. ClientKept /\ cl'.refused = (cl.refused \/ k = "rejected")
  BY <1>0, <1>1 DEF ClientKept, ClientRec
<1>3. /\ sup' \in SupRec /\ sup'.c = sup.c /\ sup'.pc \in {"failStart", "end", "loop"}
      /\ sup'.pc = "end" => cl.cancelled
      /\ sup'.pc = "loop" => sup'.rejected = (k = "rejected")
  <2>1. CASE sup.first
    BY <1>0, <1>1, <2>1 DEF SupRec
  <2>2. CASE ~sup.first /\ cl.cancelled
    BY <1>0, <1>1, <2>2 DEF SupRec
  <2>3. CASE ~sup.first /\ ~cl.cancelled
    <3>1. PICK n \in 0..CountCap : n = IF k = "rejected" THEN 0 ELSE sup.attempt
      BY <1>0 DEF SupRec
    <3>2. sup' = [sup EXCEPT !.pc = "loop", !.rejected = (k = "rejected"), !.attempt = n]
      BY <1>1, <2>3, <3>1
    <3> QED
      BY <1>0, <3>1, <3>2 DEF SupRec
  <2> QED
    BY <1>0, <2>1, <2>2, <2>3 DEF SupRec, ClientRec
<1>4. supGive = {}
  BY DEF ClientIndInv, CallInv
<1>5. TypeInv' /\ CallInv' /\ AuthInv'
  BY <1>2, <1>3, <1>4, SupMoves DEF ClientIndInv, ClientKept, SupConn
<1>6. SupInv'
  BY <1>3, SupKept DEF ClientIndInv, Between
<1>7. ClientInv' /\ EndStep
  <2>1. sup'.pc = "end" => cl.closed
    BY <1>3 DEF ClientIndInv, ClientInv
  <2>2. cl.refused /\ opts.retry = -1 => cl.closed
    BY DEF ClientIndInv, ClientInv
  <2>3. cl'.refused /\ opts.retry = -1 =>
            cl.closed \/ sup'.pc = "failStart" \/ (sup'.pc = "loop" /\ sup'.rejected)
    BY <1>2, <1>3, <2>1, <2>2
  <2> QED
    BY <1>2, <1>3, <2>1, <2>3, ClientMoves DEF ClientIndInv, Published
<1> QED
  BY <1>5, <1>6, <1>7 DEF Keeps, ClientIndInv

\* What the supervisor's place says of its own connection.
LEMMA SupHas ==
  ASSUME ClientIndInv, sup.pc \in {"first", "token", "auth", "unwind", "mark", "marked",
                                   "spawn", "up", "leave", "drop"}
  PROVE  /\ sup.c \in Conns /\ link[sup.c] # "none"
         /\ link \in [Conns -> {"none", "open", "broken", "closed"}]
         /\ rd[sup.c].pc = "ended" => link[sup.c] = "closed"
         /\ sup.pc = "first" => rd[sup.c].pc = "none"
<1>1. sup.c \in Conns
  BY DEF ClientIndInv, TypeInv, SupConn
<1>2. sup.c <= sup.c
  <2>1. sup.c \in Nat
    BY <1>1, Domains
  <2> QED
    BY <2>1
<1> QED
  BY <1>1, <1>2 DEF ClientIndInv, TypeInv, TypeOK, SupInv

\* The dial fails: connect returns without a connection.
LEMMA DialFailsKeeps == ASSUME ClientIndInv, dialFails PROVE Keeps
<1>1. LinksFade
  BY LinksStay DEF dialFails, ClientIndInv, TypeInv, TypeOK
<1> QED
  BY <1>1, ConnectFails DEF dialFails, Errors

\* The server answers the dial with an error frame.
LEMMA FirstErrorKeeps == ASSUME ClientIndInv, firstError PROVE Keeps
<1>1. /\ sup.c \in Conns /\ LinksFade /\ link'[sup.c] = "closed"
      /\ rd[sup.c].pc = "none"
  BY SupHas, LinkCloses DEF firstError
<1> QED
  BY <1>1, ConnectFails DEF firstError, Errors

\* The first frame cannot be read.
LEMMA FirstFailsKeeps == ASSUME ClientIndInv, firstFails PROVE Keeps
<1>1. /\ sup.c \in Conns /\ LinksFade /\ link'[sup.c] = "closed"
      /\ rd[sup.c].pc = "none"
  BY SupHas, LinkCloses DEF firstFails
<1> QED
  BY <1>1, ConnectFails DEF firstFails, Errors

\* connect returns an error after its reader has ended.
LEMMA UnwindKeeps == ASSUME ClientIndInv, unwind PROVE Keeps
<1>1. sup.c \in Conns /\ link[sup.c] = "closed" /\ rd[sup.c].pc = "ended" /\ LinksFade
  BY SupHas, LinksStay DEF unwind
<1>2. sup.err \in Errors
  BY DEF ClientIndInv, TypeInv, TypeOK, SupRec
<1> QED
  BY <1>1, <1>2, ConnectFails DEF unwind

\* A step that moves the supervisor from one place to another, and changes
\* nothing else than its link, the state and the last rejection.
LEMMA SupSteps ==
  ASSUME ClientIndInv, LinksFade, ClientKept, cl'.refused = cl.refused,
         UNCHANGED <<opts, sd, supGive, rd, authVars, callVars>>,
         sup' \in SupRec, sup'.c = sup.c, sup'.pc # "first" \/ sup.pc = "first",
         sup.pc \in {"dial", "failStart", "shutting", "decide", "loop", "delay"} =>
            sup'.pc \in Between,
         sup.pc # "auth" \/ sup'.pc = "auth", sup'.pc # "give" => supGive = {},
         sup.pc = "give" => sup'.pc \in Between,
         sup.pc # "end",
         sup'.pc \in Between \cup {"drop"} =>
            sup.pc \in Between \cup {"drop"} \/ (sup.c \in Conns /\ link'[sup.c] = "closed"
                                                 /\ rd[sup.c].pc \in {"none", "ended"}),
         ~cl.closed => (sup'.pc \in Published <=> sup.pc \in Published),
         sup'.pc \in {"leave", "shutting", "end"} => cl.closed,
         sup.pc \notin {"failStart", "loop"} \/ (sup.pc = "loop" /\ ~sup.rejected)
            \/ opts.retry # -1
  PROVE  Keeps
<1>1. SupConn'
  BY DEF ClientIndInv, TypeInv, TypeOK, SupConn, SupRec, Between
<1>2. TypeInv' /\ CallInv' /\ AuthInv'
  BY <1>1, SupMoves DEF ClientIndInv, ClientKept
<1>3. SupInv'
  BY SupKept DEF ClientIndInv
<1>4. ClientInv' /\ EndStep
  BY ClientMoves DEF ClientIndInv, ClientInv
<1> QED
  BY <1>2, <1>3, <1>4 DEF Keeps, ClientIndInv

\* The facts that these steps are proved from.
LEMMA Kept ==
  ASSUME ClientIndInv
  PROVE  /\ sup \in SupRec /\ cl \in ClientRec
         /\ link \in [Conns -> {"none", "open", "broken", "closed"}]
         /\ UNCHANGED link => LinksFade
         /\ UNCHANGED cl => ClientKept /\ cl'.refused = cl.refused
         /\ sup.pc # "give" => supGive = {}
<1>1. sup \in SupRec /\ cl \in ClientRec
      /\ link \in [Conns -> {"none", "open", "broken", "closed"}]
  BY DEF ClientIndInv, TypeInv, TypeOK
<1>2. UNCHANGED link => LinksFade
  BY <1>1, LinksStay
<1>3. UNCHANGED cl => ClientKept /\ cl'.refused = cl.refused
  BY <1>1 DEF ClientKept
<1>4. sup.pc # "give" => supGive = {}
  BY DEF ClientIndInv, CallInv
<1> QED
  BY <1>1, <1>2, <1>3, <1>4

\* The connect context ends and the watchdog closes the connection.
LEMMA WatchdogKeeps == ASSUME ClientIndInv, watchdog PROVE Keeps
<1>1. sup' \in SupRec /\ sup'.c = sup.c /\ sup'.pc = sup.pc
  BY Kept DEF watchdog, SupRec
<1>2. LinksFade
  BY SupHas, LinkCloses DEF watchdog
<1> QED
  BY <1>1, <1>2, Kept, SupSteps DEF watchdog, Between, Published

\* Options.AuthToken fails.
LEMMA TokenFailsKeeps == ASSUME ClientIndInv, tokenFails PROVE Keeps
<1>1. sup' \in SupRec /\ sup'.c = sup.c /\ sup'.pc = "unwind"
  BY Kept DEF tokenFails, SupRec, Errors
<1>2. LinksFade
  BY SupHas, LinkCloses DEF tokenFails
<1> QED
  BY <1>1, <1>2, Kept, SupSteps DEF tokenFails, Between, Published

\* StateConnected is recorded, unless the client is closed.
LEMMA ConnectedKeeps == ASSUME ClientIndInv, connected PROVE Keeps
<1>1. sup' \in SupRec /\ sup'.c = sup.c /\ sup'.pc \in {"spawn", "up"}
  BY Kept DEF connected, SupRec
<1>2. ClientKept /\ cl'.refused = cl.refused
  <2>1. CASE cl.closed
    BY ZenonT(60), <2>1, Kept DEF connected, setState, ClientKept, ClientRec, SupRec
  <2>2. CASE ~cl.closed
    <3>1. cl.state # "closed"
      BY <2>2 DEF ClientIndInv, ClientInv
    <3> QED
      BY <2>2, <3>1, Kept DEF connected, setState, ClientKept, ClientRec, SupRec
  <2> QED
    BY <2>1, <2>2
<1> QED
  BY <1>1, <1>2, Kept, SupSteps DEF connected, Between, Published

\* run is cancelled while the connection is up.
LEMMA RunCancelledKeeps == ASSUME ClientIndInv, runCancelled PROVE Keeps
<1>0. UNCHANGED <<opts, cl, sd, supGive, rd, authVars, callVars>>
  BY DEF runCancelled
<1>1. CASE sup.pc = "up" /\ cl.cancelled /\ closeLink(sup.c)
           /\ sup' = [sup EXCEPT !.pc = "leave"]
  <2>1. sup' \in SupRec /\ sup'.c = sup.c /\ sup'.pc = "leave"
    BY <1>1, Kept DEF SupRec
  <2>2. LinksFade
    BY <1>1, SupHas, LinkCloses
  <2>3. cl.closed /\ cl.conn = NoConn
    BY <1>1 DEF ClientIndInv, ClientInv
  <2> QED
    BY <1>0, <1>1, <2>1, <2>2, <2>3, Kept, SupSteps DEF Between, Published
<1>2. CASE sup.pc = "leave" /\ rd[sup.c].pc = "ended"
           /\ sup' = [sup EXCEPT !.pc = "end"] /\ UNCHANGED link
  <2>1. sup' \in SupRec /\ sup'.c = sup.c /\ sup'.pc = "end"
    BY <1>2, Kept DEF SupRec
  <2>2. LinksFade /\ sup.c \in Conns /\ link'[sup.c] = "closed"
    BY <1>2, SupHas, LinksStay
  <2>3. cl.closed
    BY <1>2 DEF ClientIndInv, ClientInv
  <2> QED
    BY <1>0, <1>2, <2>1, <2>2, <2>3, Kept, SupSteps DEF Between, Published
<1> QED
  BY <1>1, <1>2 DEF runCancelled

\* The reader of the connection has ended.
LEMMA RunDropKeeps == ASSUME ClientIndInv, runDrop PROVE Keeps
<1>1. sup' \in SupRec /\ sup'.c = sup.c /\ sup'.pc = "drop"
  BY Kept DEF runDrop, SupRec, ClientRec
<1>2. ClientKept /\ cl'.refused = cl.refused
  BY Kept DEF runDrop, ClientKept, ClientRec
<1>3. LinksFade /\ sup.c \in Conns /\ link'[sup.c] = "closed" /\ rd[sup.c].pc = "ended"
  BY SupHas, LinksStay DEF runDrop
<1> QED
  BY <1>1, <1>2, <1>3, Kept, SupSteps DEF runDrop, Between, Published

\* markDisconnected has failed all the calls it took.
LEMMA DisconnectedEndsKeeps == ASSUME ClientIndInv, disconnectedEnds PROVE Keeps
<1>1. sup' \in SupRec /\ sup'.c = sup.c /\ sup'.pc = "decide"
  BY Kept DEF disconnectedEnds, SupRec
<1>2. ClientKept /\ cl'.refused = cl.refused
  <2>1. cl.state = "closed" => cl.closed
    BY DEF ClientIndInv, ClientInv
  <2> QED
    BY <2>1, Kept DEF disconnectedEnds, setState, ClientKept, ClientRec
<1> QED
  BY <1>1, <1>2, Kept, SupSteps DEF disconnectedEnds, Between, Published

\* The backoff is over, or run is cancelled during it.
LEMMA DelayEndsKeeps == ASSUME ClientIndInv, delayEnds PROVE Keeps
<1>1. PICK p \in {"dial", "end"} : sup' = [sup EXCEPT !.pc = p] /\ (p = "end" => cl.cancelled)
  BY DEF delayEnds
<1>2. sup' \in SupRec /\ sup'.c = sup.c /\ sup'.pc = p
  BY <1>1, Kept DEF SupRec
<1>3. p = "end" => cl.closed
  BY <1>1 DEF ClientIndInv, ClientInv
<1> QED
  BY <1>1, <1>2, <1>3, Kept, SupSteps DEF delayEnds, Between, Published

\* shutdown has returned to the supervisor.
LEMMA SupEndsKeeps == ASSUME ClientIndInv, supEnds PROVE Keeps
<1>1. sup' \in SupRec /\ sup'.c = sup.c /\ sup'.pc = "end"
  BY Kept DEF supEnds, SupRec
<1> QED
  BY <1>1, Kept, SupSteps DEF supEnds, Returned, Between, Published

\* start publishes cancelRun, and cancels run if the client was closed meanwhile.
LEMMA SpawnKeeps == ASSUME ClientIndInv, spawn PROVE Keeps
<1>1. sup' \in SupRec /\ sup'.c = sup.c /\ sup'.pc = "up"
  BY Kept DEF spawn, SupRec
<1>2. /\ cl' \in ClientRec /\ cl'.cancelRun = TRUE /\ cl'.cancelled = cl.closed
      /\ cl'.closed = cl.closed /\ cl'.conn = cl.conn /\ cl'.watch = cl.watch
      /\ cl'.ready = cl.ready /\ cl'.done = cl.done /\ cl'.closeErr = cl.closeErr
      /\ cl'.state = cl.state /\ cl'.refused = cl.refused
  BY Kept DEF spawn, ClientRec
<1>3. TypeInv' /\ CallInv' /\ AuthInv'
  <2>1. SupConn'
    BY <1>1 DEF ClientIndInv, TypeInv, SupConn, spawn
  <2> QED
    BY <1>1, <1>2, <2>1, Kept, SupMoves DEF ClientIndInv, spawn
<1>4. SupInv'
  BY <1>1, Kept, SupKept DEF ClientIndInv, spawn, Between
<1>5. ClientInv'
  BY <1>1, <1>2 DEF ClientIndInv, ClientInv, spawn
<1>6. EndStep
  BY <1>2 DEF ClientIndInv, ClientInv, EndStep
<1> QED
  BY <1>3, <1>4, <1>5, <1>6 DEF Keeps, ClientIndInv

\* A new connection: nobody has counted anything on it.
LEMMA DialKeeps == ASSUME ClientIndInv, dial PROVE Keeps
<1>0. sup.c \in 0..MaxConns /\ sup.c < MaxConns /\ MaxConns \in Nat
  BY Kept, Domains DEF dial, SupRec
<1>1. PICK n \in Conns : n = sup.c + 1
  BY <1>0 DEF Conns
<1>2. sup' \in SupRec /\ sup'.c = n /\ sup'.pc = "first"
  <2>1. sup' = [sup EXCEPT !.pc = "first", !.c = n, !.ctx = cl.cancelled]
    BY <1>1 DEF dial
  <2>2. n \in 0..MaxConns /\ cl.cancelled \in BOOLEAN
    BY Kept, Domains DEF ClientRec
  <2> QED
    BY <2>1, <2>2, Kept DEF SupRec
<1>3. /\ link' \in [Conns -> {"none", "open", "broken", "closed"}]
      /\ link'[n] = "open" /\ \A c \in Conns : c # n => link'[c] = link[c]
  BY <1>1, Kept DEF dial
<1>4. link[n] = "none" /\ rd[n].pc = "none" /\ sup.c \in Nat /\ Conns \subseteq Nat
  BY <1>0, <1>1, Domains DEF ClientIndInv, SupInv
<1>5. UNCHANGED <<opts, cl, sd, supGive, rd, auth, authMu, wch, watch, srvAuths,
                  srvReqs, pending, call, ch>>
  BY DEF dial, authVars, callVars
<1>6. TypeInv'
  BY <1>2, <1>3, <1>5
     DEF ClientIndInv, TypeInv, TypeOK, ReaderHands, AuthConns, SupConn
<1>7. SupInv'
  <2>1. \A c \in Conns : c < n => Over(c)'
    <3> SUFFICES ASSUME NEW c \in Conns, c < n PROVE Over(c)'
      OBVIOUS
    <3>1. c <= sup.c /\ c # n
      BY <1>1, <1>4
    <3>2. Over(c)
      BY <3>1 DEF ClientIndInv, SupInv, Between, dial
    <3> QED
      BY <1>3, <1>5, <3>1, <3>2 DEF Over
  <2>2. \A c \in Conns : c > n => c > sup.c
    BY <1>1, <1>4
  <2>3. \A c \in Conns : c <= n => c = n \/ c <= sup.c
    BY <1>1, <1>4
  <2>4. /\ \A c \in Conns : c > n => link'[c] = "none" /\ rd'[c].pc = "none"
        /\ \A c \in Conns : c <= n => link'[c] # "none"
        /\ \A c \in Conns : rd'[c].pc = "ended" => link'[c] = "closed"
    BY <1>1, <1>3, <1>4, <1>5, <2>2, <2>3 DEF ClientIndInv, SupInv
  <2> QED
    BY <1>2, <1>4, <1>5, <2>1, <2>4 DEF SupInv, Between
<1>8. ClientInv'
  <2>1. sd.conn <= n
    <3>1. sd.conn \in Nat /\ sd.conn <= sup.c
      BY Domains DEF ClientIndInv, ClientInv, TypeInv, TypeOK, ShutdownRec
    <3> QED
      BY <1>1, <1>4, <3>1
  <2> QED
    BY <1>2, <1>5, <2>1 DEF ClientIndInv, ClientInv, dial
<1>9. EndStep
  BY <1>5 DEF ClientIndInv, ClientInv, EndStep
<1>10. CallInv'
  BY <1>2, <1>5, Kept, CallKept DEF ClientIndInv, GivesKept, dial
<1>11. AuthPlace'
  <2>1. \A a \in Actors : auth[a].pc \in {"watch", "lock", "send", "await", "handed"}
                                => auth[a].c \in Conns /\ link[auth[a].c] # "none"
    BY DEF ClientIndInv, TypeInv, AuthConns, AuthInv, AuthPlace
  <2>2. cl.watch # NoConn => cl.watch \in Conns
    BY Kept, Domains DEF Conns, NoConn, ClientRec
  <2>3. \A a \in Actors : auth[a].pc \in {"watch", "lock", "send", "await", "handed"}
                                => link'[auth[a].c] = link[auth[a].c]
    BY <1>3, <1>4, <2>1
  <2>4. cl.watch # NoConn => link'[cl.watch] # "none"
    BY <1>3, <2>2 DEF ClientIndInv, AuthInv, AuthPlace
  <2> QED
    BY <1>2, <1>5, <2>3, <2>4 DEF ClientIndInv, AuthInv, AuthPlace, dial
<1>12. ASSUME Asking PROVE AuthQueues'
  <2>1. \A a \in Actors : ~Asked(a, n)
    BY <1>4 DEF ClientIndInv, AuthInv, AuthPlace, Asked
  <2>2. srvAuths[n] = <<>> /\ watch.sent[n] = 0 /\ watch.abandoned[n] = 0
    BY <1>4, <1>12 DEF ClientIndInv, AuthInv, AuthQueues
  <2>3. Len(srvAuths[n]) = 0
    BY <2>2
  <2> SUFFICES ASSUME NEW c \in Conns
               PROVE  /\ link'[c] = "none" => srvAuths[c] = <<>> /\ watch.sent[c] = 0
                                               /\ watch.abandoned[c] = 0
                      /\ link'[c] = "open" =>
                           /\ watch.sent[c] = Len(srvAuths[c])
                           /\ (\A a \in Actors : ~Asked(a, c)) =>
                                Len(srvAuths[c]) = watch.abandoned[c]
                           /\ \A a \in Actors : Asked(a, c) =>
                                /\ Len(srvAuths[c]) = watch.abandoned[c] + 1
                                /\ srvAuths[c][Len(srvAuths[c])] = <<a, c, auth[a].n>>
    BY <1>5 DEF AuthQueues, Asked
  <2>4. CASE c = n
    BY <1>3, <2>1, <2>2, <2>3, <2>4
  <2>5. CASE c # n
    BY <1>3, <1>12, <2>5 DEF ClientIndInv, AuthInv, AuthQueues
  <2> QED
    BY <2>4, <2>5
<1>13. ASSUME Asking PROVE AuthHands'
  BY <1>5, <1>13 DEF ClientIndInv, AuthInv, AuthHands
<1>14. AuthInv'
  BY <1>5, <1>11, <1>12, <1>13 DEF AuthInv, Asking
<1> QED
  BY <1>6, <1>7, <1>8, <1>9, <1>10, <1>14 DEF Keeps, ClientIndInv

\* A reader that is not idle belongs to the supervisor's connection.
LEMMA ReaderIsSups ==
  ASSUME ClientIndInv, NEW c \in Conns, rd[c].pc \notin {"none", "ended"}
  PROVE  c = sup.c /\ sup.pc \notin Between \cup {"drop", "first"} /\ link[c] # "none"
<1>1. c \in Nat /\ sup.c \in Nat
  BY Domains, Kept DEF SupRec
<1>2. ~(c > sup.c) /\ ~(c < sup.c)
  BY DEF ClientIndInv, SupInv, Over
<1>3. c = sup.c /\ c <= sup.c
  BY <1>1, <1>2
<1> QED
  BY <1>3 DEF ClientIndInv, SupInv, Over

\* The config frame: the reader of the connection starts.
LEMMA FirstConfigKeeps ==
  ASSUME ClientIndInv, NEW v \in ServerMax, firstConfig(v) PROVE Keeps
<1>1. sup' \in SupRec /\ sup'.c = sup.c /\ sup'.pc \in {"token", "mark"}
  BY Kept DEF firstConfig, SupRec
<1>2. ClientKept /\ cl'.refused = cl.refused
  <2>1. v \in 0..CountCap
    BY ClientAssumption
  <2> QED
    BY <2>1, Kept DEF firstConfig, applyConfig, ClientKept, ClientRec
<1>3. rd \in [Conns -> ReaderRec] /\ sup.c \in Conns /\ rd[sup.c].pc = "none" /\ LinksFade
      /\ link[sup.c] = "open"
  BY SupHas, LinksStay DEF ClientIndInv, TypeInv, TypeOK, firstConfig
<1>4. /\ rd' \in [Conns -> ReaderRec] /\ rd'[sup.c].pc = "reading"
      /\ \A c \in Conns : c # sup.c => rd'[c] = rd[c]
  BY <1>3 DEF firstConfig, ReaderRec
<1>5. UNCHANGED <<opts, sd, supGive, link, auth, authMu, wch, watch, srvAuths, srvReqs,
                  pending, call, ch>> /\ sup.pc = "first"
  BY DEF firstConfig, authVars, callVars
<1>6. GivesKept /\ VerdictsKept
  BY <1>3, <1>4 DEF GivesKept, VerdictsKept
<1>7. TypeInv'
  <2>1. ReaderHands'
    BY <1>3, <1>4 DEF ClientIndInv, TypeInv, ReaderHands
  <2> QED
    BY <1>1, <1>2, <1>3, <1>4, <1>5, <2>1
       DEF ClientIndInv, TypeInv, TypeOK, AuthConns, SupConn, ClientKept
<1>8. CallInv'
  BY <1>1, <1>2, <1>5, <1>6, Kept, CallKept DEF ClientIndInv, ClientKept
<1>9. AuthInv'
  <2>1. cl.watch \in 0..MaxConns
    BY Kept DEF ClientRec
  <2> QED
    BY <1>1, <1>2, <1>3, <1>5, <1>6, <2>1, AuthKept DEF ClientIndInv, ClientKept
<1>10. SupInv'
  <2>1. sup.c \in Nat /\ Conns \subseteq Nat
    BY <1>3, Domains
  <2>2. \A c \in Conns : c < sup.c => c # sup.c
    BY <2>1
  <2>3. \A c \in Conns : c > sup.c => c # sup.c
    BY <2>1
  <2> QED
    BY <1>1, <1>3, <1>4, <1>5, <2>2, <2>3 DEF ClientIndInv, SupInv, Over, Between
<1>11. ClientInv' /\ EndStep
  BY <1>1, <1>2, <1>5, ClientMoves DEF ClientIndInv, ClientInv, Published
<1> QED
  BY <1>7, <1>8, <1>9, <1>10, <1>11 DEF Keeps, ClientIndInv

\* An authenticate that has not asked and does not ask in this step.
LEMMA QuietAuth ==
  ASSUME TypeInv, AuthInv, NEW b \in Actors,
         auth[b].pc \notin {"send", "await", "handed"},
         auth'[b].pc \notin {"send", "await", "handed"},
         \A a \in Actors : a # b => auth'[a] = auth[a], LinksFade,
         UNCHANGED <<opts, rd, wch, watch, srvAuths>>
  PROVE  Asking => AuthQueues' /\ AuthHands'
<1> SUFFICES ASSUME Asking PROVE AuthQueues' /\ AuthHands'
  OBVIOUS
<1>1. \A a \in Actors, c \in Conns : Asked(a, c)' <=> Asked(a, c)
  BY DEF Asked
<1>2. \A a \in Actors, c \in Conns : Asked(a, c) => auth'[a] = auth[a]
  BY DEF Asked
<1>3. AuthQueues'
  BY <1>1, <1>2 DEF AuthInv, AuthQueues, LinksFade
<1>4. AuthHands'
  <2>1. \A c \in Conns : rd[c].pc = "verdict" => rd[c].to \in Actors /\ rd[c].to # b
    BY DEF AuthInv, AuthHands, TypeInv, ReaderHands
  <2>2. \A c \in Conns : rd[c].pc = "verdict" => auth'[rd[c].to] = auth[rd[c].to]
    BY <2>1
  <2> QED
    BY <2>2 DEF AuthInv, AuthHands
<1> QED
  BY <1>3, <1>4

\* connect starts authenticate on its connection.
LEMMA TokenOkKeeps == ASSUME ClientIndInv, tokenOk PROVE Keeps
<1>1. sup' \in SupRec /\ sup'.c = sup.c /\ sup'.pc = "auth" /\ sup.pc = "token"
  BY Kept DEF tokenOk, SupRec
<1>2. sup.c \in Conns /\ link[sup.c] # "none" /\ sup.c \in 0..MaxConns
  BY SupHas, Domains DEF tokenOk
<1>3. /\ auth \in [Actors -> AuthRec] /\ "sup" \in Actors
      /\ auth' = [auth EXCEPT !["sup"] = [pc |-> "lock", c |-> sup.c, w |-> sup.c, n |-> 0]]
      /\ auth["sup"].pc = "idle"
  BY Domains DEF tokenOk, ClientIndInv, TypeInv, TypeOK
<1>4. /\ auth' \in [Actors -> AuthRec]
      /\ auth'["sup"].pc = "lock" /\ auth'["sup"].c = sup.c /\ auth'["sup"].w = sup.c
      /\ \A a \in Actors : a # "sup" => auth'[a] = auth[a]
  BY <1>2, <1>3, Domains DEF AuthRec
<1>5. UNCHANGED <<opts, cl, sd, supGive, link, rd, authMu, wch, watch, srvAuths, srvReqs,
                  pending, call, ch>>
  BY DEF tokenOk, callVars
<1>6. TypeInv'
  <2>1. AuthConns'
    BY <1>2, <1>4 DEF ClientIndInv, TypeInv, AuthConns
  <2> QED
    BY <1>1, <1>2, <1>4, <1>5, <2>1
       DEF ClientIndInv, TypeInv, TypeOK, ReaderHands, SupConn
<1>7. CallInv'
  BY <1>1, <1>5, Kept, CallKept DEF ClientIndInv, GivesKept
<1>8. SupInv'
  BY <1>1, <1>5, Kept, SupKept DEF ClientIndInv, Between
<1>9. ClientInv' /\ EndStep
  BY <1>1, <1>5, Kept, ClientMoves DEF ClientIndInv, ClientInv, Published
<1>10. AuthPlace'
  <2>1. authMu' = authMu /\ watch' = watch /\ cl' = cl /\ link' = link /\ watch.authWait # "sup"
    BY <1>3, <1>5 DEF ClientIndInv, AuthInv, AuthPlace
  <2> QED
    BY <1>1, <1>2, <1>4, <2>1 DEF ClientIndInv, AuthInv, AuthPlace
<1>11. Asking => AuthQueues' /\ AuthHands'
  BY <1>3, <1>4, <1>5, Kept, QuietAuth DEF ClientIndInv
<1>12. AuthInv'
  BY <1>5, <1>10, <1>11 DEF AuthInv, Asking
<1> QED
  BY <1>6, <1>7, <1>8, <1>9, <1>12 DEF Keeps, ClientIndInv

\* authenticate has returned: connect goes on, or closes its link.
LEMMA AuthReturnsKeeps == ASSUME ClientIndInv, authReturns PROVE Keeps
<1>0. sup.pc = "auth" /\ sup.c \in Conns /\ link[sup.c] # "none"
  BY SupHas DEF authReturns
<1>1. sup' \in SupRec /\ sup'.c = sup.c /\ sup'.pc \in {"mark", "unwind"}
  <2>1. CASE auth["sup"].pc = "ok"
    BY <2>1, Kept DEF authReturns, SupRec
  <2>2. CASE auth["sup"].pc # "ok"
    <3>1. PICK e \in Errors : sup' = [sup EXCEPT !.pc = "unwind", !.err = e]
      BY <2>2 DEF authReturns, Errors
    <3> QED
      BY <3>1, Kept DEF SupRec
  <2> QED
    BY <2>1, <2>2
<1>2. LinksFade
  BY <1>0, Kept, LinkCloses DEF authReturns
<1>3. /\ auth \in [Actors -> AuthRec] /\ "sup" \in Actors
      /\ auth' = [auth EXCEPT !["sup"].pc = "idle"]
      /\ auth["sup"].pc \in {"ok", "refused", "failed"}
  BY Domains DEF authReturns, ClientIndInv, TypeInv, TypeOK
<1>4. /\ auth' \in [Actors -> AuthRec] /\ auth'["sup"].pc = "idle"
      /\ \A a \in Actors : a # "sup" => auth'[a] = auth[a]
  BY <1>3 DEF AuthRec
<1>5. UNCHANGED <<opts, cl, sd, supGive, rd, authMu, wch, watch, srvAuths, srvReqs,
                  pending, call, ch>>
  BY DEF authReturns, callVars
<1>6. TypeInv'
  <2>1. AuthConns'
    BY <1>4 DEF ClientIndInv, TypeInv, AuthConns
  <2> QED
    BY <1>0, <1>1, <1>2, <1>4, <1>5, <2>1
       DEF ClientIndInv, TypeInv, TypeOK, ReaderHands, SupConn, LinksFade
<1>7. CallInv'
  BY <1>0, <1>1, <1>5, Kept, CallKept DEF ClientIndInv, GivesKept
<1>8. SupInv'
  BY <1>1, <1>2, <1>5, SupKept DEF ClientIndInv, Between
<1>9. ClientInv' /\ EndStep
  BY <1>0, <1>1, <1>5, Kept, ClientMoves DEF ClientIndInv, ClientInv, Published
<1>10. AuthPlace'
  <2>1. authMu' = authMu /\ watch' = watch /\ cl' = cl /\ watch.authWait # "sup"
    BY <1>3, <1>5 DEF ClientIndInv, AuthInv, AuthPlace
  <2>2. \A a \in Actors : auth[a].pc \in {"watch", "lock", "send", "await", "handed"}
                                => auth[a].c \in Conns
    BY DEF ClientIndInv, TypeInv, AuthConns
  <2>3. cl.watch # NoConn => cl.watch \in Conns
    BY Kept, Domains DEF Conns, NoConn, ClientRec
  <2> QED
    BY <1>1, <1>2, <1>4, <2>1, <2>2, <2>3 DEF ClientIndInv, AuthInv, AuthPlace, LinksFade
<1>11. Asking => AuthQueues' /\ AuthHands'
  BY <1>2, <1>3, <1>4, <1>5, QuietAuth DEF ClientIndInv
<1>12. AuthInv'
  BY <1>5, <1>10, <1>11 DEF AuthInv, Asking
<1> QED
  BY <1>6, <1>7, <1>8, <1>9, <1>12 DEF Keeps, ClientIndInv

\* markConnected: no call is in the table of a client without a connection.
LEMMA MarkConnectedKeeps == ASSUME ClientIndInv, markConnected PROVE Keeps
<1>0. /\ sup.pc = "mark" /\ sup.c \in Conns /\ link[sup.c] # "none"
      /\ UNCHANGED <<opts, sd, supGive, rd, authVars, callVars>>
  BY SupHas DEF markConnected
<1>1. CASE cl.closed
  <2>1. sup' \in SupRec /\ sup'.c = sup.c /\ sup'.pc = "unwind"
    <3>1. sup' = [sup EXCEPT !.pc = "unwind", !.err = "ErrClosed"] /\ "ErrClosed" \in Errors
      BY <1>1 DEF markConnected, Errors
    <3> QED
      BY <3>1, Kept DEF SupRec
  <2>2. LinksFade
    BY <1>0, <1>1, Kept, LinkCloses DEF markConnected
  <2>3. ClientKept /\ cl'.refused = cl.refused
    BY <1>1, Kept DEF markConnected
  <2> QED
    BY <1>0, <1>1, <2>1, <2>2, <2>3, Kept, SupSteps DEF Between, Published
<1>2. CASE ~cl.closed
  <2>1. sup' \in SupRec /\ sup'.c = sup.c /\ sup'.pc = "marked"
    BY <1>2, Kept DEF markConnected, SupRec
  <2>2. /\ cl' \in ClientRec /\ cl'.conn = sup.c /\ cl'.watch = sup.c /\ cl'.ready = TRUE
        /\ cl'.closed = cl.closed /\ cl'.done = cl.done /\ cl'.cancelRun = cl.cancelRun
        /\ cl'.cancelled = cl.cancelled /\ cl'.state = cl.state /\ cl'.refused = cl.refused
    BY ZenonT(60), <1>0, <1>2, Kept, Domains DEF markConnected, ClientRec
  <2>3. UNCHANGED <<opts, sd, supGive, link, rd, auth, authMu, wch, watch, srvAuths,
                    srvReqs, pending, call, ch>>
    BY <1>2 DEF markConnected, authVars, callVars
  <2>4. LinksFade /\ cl.conn = NoConn /\ sup.c # NoConn /\ pending \subseteq Calls
    BY <1>0, <1>2, <2>3, Kept, Domains
       DEF ClientIndInv, ClientInv, NoConn, TypeInv, TypeOK
  <2>5. TypeInv'
    BY <1>0, <2>1, <2>2, <2>3
       DEF ClientIndInv, TypeInv, TypeOK, ReaderHands, AuthConns, SupConn
  <2>6. SupInv'
    BY <1>0, <2>1, <2>3, <2>4, SupKept DEF ClientIndInv, Between
  <2>7. ClientInv'
    BY <1>0, <1>2, <2>1, <2>2, <2>3, <2>4 DEF ClientIndInv, ClientInv
  <2>8. EndStep
    BY <1>0, <1>2, <2>2 DEF ClientIndInv, ClientInv, EndStep
  <2>9. CallInv'
    <3>1. GivesKept
      BY <2>3 DEF GivesKept
    <3>2. \A k \in Calls : Promised(k)' = Promised(k)
      BY <2>3, <3>1, PromisesKept
    <3>3. pending = {}
      BY <2>4 DEF ClientIndInv, CallInv
    <3> QED
      BY <1>0, <2>1, <2>3, <3>2, <3>3 DEF ClientIndInv, CallInv
  <2>10. AuthPlace'
    <3>1. ASSUME NEW a \in Actors, auth[a].pc = "watch", auth[a].c # sup.c
          PROVE  link[auth[a].c] = "closed"
      <4>1. auth[a].c \in Conns /\ link[auth[a].c] # "none"
        BY <3>1 DEF ClientIndInv, TypeInv, AuthConns, AuthInv, AuthPlace
      <4>2. auth[a].c < sup.c \/ auth[a].c > sup.c
        <5>1. auth[a].c \in Nat /\ sup.c \in Nat
          BY <1>0, <4>1, Domains
        <5> QED
          BY <3>1, <5>1
      <4> QED
        BY <4>1, <4>2 DEF ClientIndInv, SupInv, Over
    <3> QED
      BY <1>0, <2>1, <2>2, <2>3, <3>1 DEF ClientIndInv, AuthInv, AuthPlace
  <2>11. ASSUME Asking PROVE AuthQueues' /\ AuthHands'
    BY <2>3, <2>11 DEF ClientIndInv, AuthInv, AuthQueues, AuthHands, Asked
  <2>12. AuthInv'
    BY <2>3, <2>10, <2>11 DEF AuthInv, Asking
  <2> QED
    BY <2>5, <2>6, <2>7, <2>8, <2>9, <2>12 DEF Keeps, ClientIndInv
<1> QED
  BY <1>1, <1>2

-----------------------------------------------------------------------------
(* Shutdown.                                                               *)

\* The critical section of shutdown: every call in the table changes hands.
LEMMA ShutdownTakes ==
  ASSUME ClientIndInv, NEW who \in -1..MaxConns, NEW err \in Errors, shutdown(who, err)
  PROVE  /\ cl' \in ClientRec /\ sd' \in ShutdownRec /\ pending' \in SUBSET Calls
         /\ cl'.closed = TRUE /\ cl'.conn = NoConn /\ cl'.watch = cl.watch
         /\ cl.closed => UNCHANGED <<cl, sd, pending>>
         /\ ~cl.closed => /\ sd'.pc = "close" /\ sd'.cancel = cl.cancelRun
                          /\ sd'.give = pending /\ pending' = {} /\ sd.give = {}
                          /\ sd'.conn = cl.conn
                          /\ cl'.done = cl.done /\ cl'.cancelRun = cl.cancelRun
                          /\ cl'.cancelled = cl.cancelled /\ cl'.state = cl.state
<1>0. cl \in ClientRec /\ sd \in ShutdownRec /\ pending \in SUBSET Calls
      /\ (cl.closed => cl.conn = NoConn) /\ (~cl.closed => sd.give = {})
  BY DEF ClientIndInv, TypeInv, TypeOK, ClientInv, CallInv
<1>1. CASE cl.closed
  BY <1>0, <1>1 DEF shutdown, ClientRec
<1>2. CASE ~cl.closed
  <2>1. /\ cl' = [cl EXCEPT !.closed = TRUE, !.closeErr = err, !.conn = NoConn,
                            !.refused = @ \/ err = "rejected"]
        /\ sd' = [pc |-> "close", by |-> who, conn |-> cl.conn,
                  cancel |-> cl.cancelRun, give |-> pending]
        /\ pending' = {}
    BY <1>2 DEF shutdown
  <2>2. NoConn \in 0..MaxConns
    BY Domains DEF NoConn
  <2>3. cl' \in ClientRec
    BY <1>0, <2>1, <2>2 DEF ClientRec
  <2>4. sd' \in ShutdownRec
    BY <1>0, <2>1 DEF ClientRec, ShutdownRec
  <2> QED
    BY <1>0, <1>2, <2>1, <2>3, <2>4 DEF ClientRec
<1> QED
  BY <1>0, <1>1, <1>2 DEF ClientRec

\* What the promises and the fields are after it.
LEMMA ShutdownInv ==
  ASSUME ClientIndInv, NEW who \in -1..MaxConns, NEW err \in Errors, shutdown(who, err),
         GivesKept, UNCHANGED <<opts, supGive, ch, call>>,
         sup'.pc # "give" => supGive = {}, sup'.c = sup.c
  PROVE  CallInv' /\ ClientInv' /\ EndStep
<1>0. /\ cl'.closed = TRUE /\ cl'.conn = NoConn /\ cl'.watch = cl.watch
      /\ cl.closed => UNCHANGED <<cl, sd, pending>>
      /\ ~cl.closed => /\ sd'.pc = "close" /\ sd'.cancel = cl.cancelRun
                       /\ sd'.give = pending /\ pending' = {} /\ sd.give = {}
                       /\ sd'.conn = cl.conn
                       /\ cl'.done = cl.done /\ cl'.cancelRun = cl.cancelRun
                       /\ cl'.cancelled = cl.cancelled /\ cl'.state = cl.state
  BY ShutdownTakes
<1>1. ClientInv'
  <2>1. sd'.conn <= sup.c
    <3>1. sup.c \in Nat /\ cl.conn \in Nat /\ (cl.conn = 0 \/ cl.conn = sup.c)
      BY Kept, Domains DEF SupRec, ClientRec, ClientIndInv, ClientInv, NoConn
    <3> QED
      BY <1>0, <3>1 DEF ClientIndInv, ClientInv
  <2> QED
    BY <1>0, <2>1 DEF ClientIndInv, ClientInv
<1>2. EndStep
  BY <1>0 DEF ClientIndInv, ClientInv, EndStep
<1>3. \A k \in Calls : Promised(k)' = Promised(k)
  <2> SUFFICES ASSUME NEW k \in Calls PROVE Promised(k)' = Promised(k)
    OBVIOUS
  <2>1. CASE cl.closed
    BY <1>0, <2>1, PromisesKept
  <2>2. CASE ~cl.closed
    <3>1. Givers(k)' = Givers(k) /\ ch' = ch /\ supGive' = supGive
      BY DEF GivesKept, Givers
    <3>2. One(k \in pending') = 0 /\ One(k \in sd'.give) = One(k \in pending)
          /\ One(k \in sd.give) = 0
      BY <1>0, <2>2 DEF One
    <3>3. Promised(k) = One(k \in pending) + One(k \in supGive) + One(k \in sd.give)
                        + Cardinality(Givers(k)) + Len(ch[k])
      BY PromisedIs
    <3>4. Promised(k)' = One(k \in pending') + One(k \in supGive) + One(k \in sd'.give)
                         + Cardinality(Givers(k)) + Len(ch[k])
      BY <3>1, PromisedAfter
    <3>5. /\ One(k \in pending) \in {0, 1} /\ One(k \in supGive) \in {0, 1}
          /\ Cardinality(Givers(k)) \in Nat /\ Len(ch[k]) \in Nat
      BY PlacesCounted DEF ClientIndInv
    <3> QED
      BY <3>2, <3>3, <3>4, <3>5
  <2> QED
    BY <2>1, <2>2
<1>4. \A k \in Calls : k \notin pending'
  BY <1>0 DEF ClientIndInv, CallInv, ClientInv
<1>5. ClientIndInv => (cl.closed <=> sd.pc # "no")
  BY DEF ClientIndInv, ClientInv
<1>6. CallInv'
  BY <1>0, <1>3, <1>4, <1>5 DEF ClientIndInv, CallInv
<1> QED
  BY <1>1, <1>2, <1>6

\* shutdown as the application or the supervisor calls it.
LEMMA ShutdownKeeps ==
  ASSUME ClientIndInv, NEW who \in -1..MaxConns, NEW err \in Errors, shutdown(who, err),
         UNCHANGED <<opts, supGive, link, rd, authVars, call, ch, srvReqs>>,
         UNCHANGED sup \/ (/\ sup.pc \in {"failStart", "decide", "loop"}
                           /\ sup' = [sup EXCEPT !.pc = "shutting"])
  PROVE  Keeps
<1>1. /\ sup' \in SupRec /\ sup'.c = sup.c
      /\ sup'.pc = sup.pc \/ (sup'.pc = "shutting" /\ sup.pc \in {"failStart", "decide", "loop"})
  BY Kept DEF SupRec
<1>2. UNCHANGED <<opts, supGive, link, rd, auth, authMu, wch, watch, srvAuths, srvReqs,
                  call, ch>>
  BY DEF authVars
<1>3. GivesKept /\ VerdictsKept /\ LinksFade
  BY <1>2, Kept DEF GivesKept, VerdictsKept
<1>4. CallInv' /\ ClientInv' /\ EndStep
  BY <1>1, <1>2, <1>3, Kept, ShutdownInv
<1>5. cl' \in ClientRec /\ sd' \in ShutdownRec /\ pending' \in SUBSET Calls
      /\ cl'.watch = cl.watch
  BY ShutdownTakes
<1>6. TypeInv'
  <2>1. SupConn'
    BY <1>1 DEF ClientIndInv, TypeInv, SupConn
  <2> QED
    BY <1>1, <1>2, <1>5, <2>1 DEF ClientIndInv, TypeInv, TypeOK, ReaderHands, AuthConns
<1>7. SupInv'
  BY <1>1, <1>2, <1>3, SupKept DEF ClientIndInv, Between
<1>8. AuthInv'
  <2>1. cl.watch \in 0..MaxConns
    BY Kept DEF ClientRec
  <2> QED
    BY <1>1, <1>2, <1>3, <1>5, <2>1, AuthKept DEF ClientIndInv
<1> QED
  BY <1>4, <1>6, <1>7, <1>8 DEF Keeps, ClientIndInv

\* Who may run shutdown.
LEMMA Callers == App \in -1..MaxConns /\ Sup \in -1..MaxConns
BY Domains DEF App, Sup

\* The application closes the client.
LEMMA CloseKeeps == ASSUME ClientIndInv, Close PROVE Keeps
<1>1. "ErrClosed" \in Errors
  BY DEF Errors
<1> QED
  BY <1>1, Callers, ShutdownKeeps DEF Close

\* start fails and closes the client.
LEMMA FailStartKeeps == ASSUME ClientIndInv, failStart PROVE Keeps
<1>1. sup.err \in Errors
  BY Kept DEF SupRec
<1> QED
  BY <1>1, Callers, ShutdownKeeps DEF failStart

\* run closes the client.
LEMMA SupShutdownKeeps ==
  ASSUME ClientIndInv, NEW err \in Errors, supShutdown(err), sup.pc \in {"decide", "loop"}
  PROVE  Keeps
BY Callers, ShutdownKeeps DEF supShutdown

\* A counter stays below its cap.
LEMMA CountBounded == ASSUME NEW n \in 0..CountCap PROVE Count(n) \in 0..CountCap
BY Domains DEF Count

\* After a drop: close, or enter the reconnect loop.
LEMMA RunDecideKeeps == ASSUME ClientIndInv, runDecide PROVE Keeps
<1>1. CASE opts.noReconnect
  <2>1. PICK e \in Errors : supShutdown(e)
    BY <1>1 DEF runDecide, Errors
  <2> QED
    BY <2>1, SupShutdownKeeps DEF runDecide
<1>2. CASE ~opts.noReconnect
  <2>1. PICK n \in 0..CountCap :
          sup' = [sup EXCEPT !.pc = "loop", !.attempt = 0, !.rejections = n]
    <3>1. sup.rejections \in 0..CountCap /\ 0 \in 0..CountCap
      BY Kept, Domains DEF SupRec
    <3> QED
      BY <1>2, <3>1 DEF runDecide
  <2>2. sup' \in SupRec /\ sup'.c = sup.c /\ sup'.pc = "loop"
    <3>1. 0 \in 0..CountCap
      BY Domains
    <3> QED
      BY <2>1, <3>1, Kept DEF SupRec
  <2>3. UNCHANGED <<opts, cl, sd, supGive, link, rd, authVars, callVars>>
    BY <1>2 DEF runDecide
  <2> QED
    BY <2>2, <2>3, Kept, SupSteps DEF runDecide, Between, Published
<1> QED
  BY <1>1, <1>2

\* After a refusal: close unless the options retry it.
LEMMA RunRejectedKeeps == ASSUME ClientIndInv, runRejected PROVE Keeps
<1>1. CASE opts.retry = -1 \/ (opts.retry > 0 /\ sup.rejections >= opts.retry)
  BY <1>1, SupShutdownKeeps DEF runRejected, Errors
<1>2. CASE ~(opts.retry = -1 \/ (opts.retry > 0 /\ sup.rejections >= opts.retry))
  <2>1. PICK n \in 0..CountCap : sup' = [sup EXCEPT !.pc = "delay", !.rejections = n]
    <3>1. sup.rejections \in 0..CountCap
      BY Kept DEF SupRec
    <3> QED
      BY <1>2, <3>1, CountBounded DEF runRejected
  <2>2. sup' \in SupRec /\ sup'.c = sup.c /\ sup'.pc = "delay"
    BY <2>1, Kept DEF SupRec
  <2>3. ClientKept /\ cl'.refused = cl.refused
    BY ZenonT(60), <1>2, Kept DEF runRejected, ClientKept, ClientRec
  <2>4. UNCHANGED <<opts, sd, supGive, link, rd, authVars, callVars>>
    BY <1>2 DEF runRejected
  <2> QED
    BY <1>2, <2>2, <2>3, <2>4, Kept, SupSteps DEF runRejected, Between, Published
<1> QED
  BY <1>1, <1>2

\* After a failed attempt: back off, or give up.
LEMMA RunBackoffKeeps == ASSUME ClientIndInv, runBackoff PROVE Keeps
<1>1. CASE cl.maxAttempts > 0 /\ sup.attempt + 1 > cl.maxAttempts
  BY <1>1, SupShutdownKeeps DEF runBackoff, Errors
<1>2. CASE ~(cl.maxAttempts > 0 /\ sup.attempt + 1 > cl.maxAttempts)
  <2>1. PICK n \in 0..CountCap :
          sup' = [sup EXCEPT !.pc = "delay", !.rejections = 0, !.attempt = n]
    <3>1. sup.attempt \in 0..CountCap
      BY Kept DEF SupRec
    <3> QED
      BY <1>2, <3>1, CountBounded DEF runBackoff
  <2>2. sup' \in SupRec /\ sup'.c = sup.c /\ sup'.pc = "delay"
    <3>1. 0 \in 0..CountCap
      BY Domains
    <3> QED
      BY <2>1, <3>1, Kept DEF SupRec
  <2>3. UNCHANGED <<opts, cl, sd, supGive, link, rd, authVars, callVars>>
    BY <1>2 DEF runBackoff
  <2> QED
    BY <2>2, <2>3, Kept, SupSteps DEF runBackoff, Between, Published
<1> QED
  BY <1>1, <1>2

\* cancel() and conn.close(): the connection that was current is closed.
LEMMA ShutdownClosesKeeps == ASSUME ClientIndInv, shutdownCloses PROVE Keeps
<1>0. sd \in ShutdownRec /\ sd.pc = "close" /\ cl.closed /\ cl.conn = NoConn
  BY DEF ClientIndInv, TypeInv, TypeOK, ClientInv, shutdownCloses
<1>1. /\ sd' \in ShutdownRec /\ sd'.pc = "give" /\ sd'.give = sd.give
      /\ sd'.cancel = sd.cancel /\ sd'.conn = sd.conn
  BY <1>0 DEF shutdownCloses, ShutdownRec
<1>2. /\ cl' \in ClientRec /\ cl'.cancelled = (cl.cancelled \/ sd.cancel)
      /\ cl'.closed = cl.closed /\ cl'.conn = cl.conn /\ cl'.watch = cl.watch
      /\ cl'.ready = cl.ready /\ cl'.done = cl.done /\ cl'.closeErr = cl.closeErr
      /\ cl'.state = cl.state /\ cl'.refused = cl.refused /\ cl'.cancelRun = cl.cancelRun
  BY <1>0, Kept DEF shutdownCloses, ClientRec, ShutdownRec
<1>3. UNCHANGED <<opts, sup, supGive, rd, auth, authMu, wch, watch, srvAuths, srvReqs,
                  pending, call, ch>>
  BY DEF shutdownCloses, authVars, callVars
<1>4. LinksFade
  <2>1. CASE sd.conn = NoConn
    BY <2>1, Kept DEF shutdownCloses
  <2>2. CASE sd.conn # NoConn
    <3>1. sd.conn \in Conns
      BY <1>0, <2>2, Domains DEF ShutdownRec, Conns, NoConn
    <3>2. link[sd.conn] # "none"
      BY <3>1 DEF ClientIndInv, ClientInv, SupInv
    <3> QED
      BY <2>2, <3>1, <3>2, Kept, LinkCloses DEF shutdownCloses
  <2> QED
    BY <2>1, <2>2
<1>5. TypeInv'
  BY <1>1, <1>2, <1>3, <1>4
     DEF ClientIndInv, TypeInv, TypeOK, ReaderHands, AuthConns, SupConn, LinksFade
<1>6. SupInv'
  BY <1>3, <1>4, SupKept DEF ClientIndInv
<1>7. ClientInv'
  BY <1>0, <1>1, <1>2, <1>3 DEF ClientIndInv, ClientInv
<1>8. EndStep
  BY <1>0, <1>2 DEF EndStep
<1>9. CallInv'
  <2>1. \A k \in Calls : Promised(k)' = Promised(k)
    BY <1>1, <1>3 DEF Promised
  <2> QED
    BY <1>1, <1>2, <1>3, <2>1 DEF ClientIndInv, CallInv
<1>10. AuthInv'
  <2>1. cl.watch \in 0..MaxConns /\ VerdictsKept
    BY <1>3, Kept DEF ClientRec, VerdictsKept
  <2> QED
    BY <1>2, <1>3, <1>4, <2>1, AuthKept DEF ClientIndInv
<1> QED
  BY <1>5, <1>6, <1>7, <1>8, <1>9, <1>10 DEF Keeps, ClientIndInv

\* A result sent on the channel of call k.
LEMMA Given ==
  ASSUME TypeInv, NEW k \in Calls, NEW r \in Results, ch' = [ch EXCEPT ![k] = Append(@, r)]
  PROVE  /\ ch' \in [Calls -> Seq(Results)] /\ Len(ch'[k]) = Len(ch[k]) + 1
         /\ \A j \in Calls : j # k => ch'[j] = ch[j]
<1>1. ch \in [Calls -> Seq(Results)] /\ ch[k] \in Seq(Results)
  BY DEF TypeInv, TypeOK
<1>2. Append(ch[k], r) \in Seq(Results) /\ Len(Append(ch[k], r)) = Len(ch[k]) + 1
  BY <1>1
<1> QED
  BY <1>1, <1>2

\* shutdown fails one of the calls it took: the promise moves to the channel.
LEMMA ShutdownGivesKeeps ==
  ASSUME ClientIndInv, NEW k \in Calls, shutdownGives(k) PROVE Keeps
<1>0. sd \in ShutdownRec /\ sd.pc = "give" /\ k \in sd.give /\ TypeInv
  BY DEF ClientIndInv, TypeInv, TypeOK, shutdownGives
<1>1. /\ sd' \in ShutdownRec /\ sd'.pc = "give" /\ sd'.give = sd.give \ {k}
      /\ sd'.cancel = sd.cancel /\ sd'.conn = sd.conn
  BY <1>0 DEF shutdownGives, ShutdownRec
<1>2. cl.closeErr \in Results
  BY Kept DEF ClientRec, Results
<1>3. /\ ch' \in [Calls -> Seq(Results)] /\ Len(ch'[k]) = Len(ch[k]) + 1
      /\ \A j \in Calls : j # k => ch'[j] = ch[j]
  BY <1>0, <1>2, Given DEF shutdownGives
<1>4. UNCHANGED <<opts, cl, sup, supGive, link, rd, auth, authMu, wch, watch, srvAuths,
                  srvReqs, pending, call>>
  BY DEF shutdownGives, authVars
<1>5. TypeInv'
  BY <1>0, <1>1, <1>3, <1>4 DEF TypeInv, TypeOK, ReaderHands, AuthConns, SupConn
<1>6. SupInv'
  BY <1>0, <1>4, Kept, SupKept DEF ClientIndInv
<1>7. ClientInv'
  BY <1>0, <1>1, <1>4 DEF ClientIndInv, ClientInv
<1>8. EndStep
  BY <1>4 DEF ClientIndInv, ClientInv, EndStep
<1>9. \A j \in Calls : Promised(j)' = Promised(j)
  <2> SUFFICES ASSUME NEW j \in Calls PROVE Promised(j)' = Promised(j)
    OBVIOUS
  <2>1. Givers(j)' = Givers(j) /\ pending' = pending /\ supGive' = supGive
    BY <1>4 DEF Givers
  <2>2. CASE j = k
    <3>1. One(j \in sd.give) = 1 /\ One(j \in sd'.give) = 0
      BY <1>0, <1>1, <2>2 DEF One
    <3>2. Len(ch'[j]) = Len(ch[j]) + 1
      BY <1>3, <2>2
    <3>3. Promised(j) = One(j \in pending) + One(j \in supGive) + One(j \in sd.give) + Cardinality(Givers(j)) + Len(ch[j])
      BY PromisedIs
    <3>4. Promised(j)' = One(j \in pending) + One(j \in supGive) + One(j \in sd'.give) + Cardinality(Givers(j)) + Len(ch'[j])
      BY <2>1, PromisedAfter
    <3>5. /\ One(j \in pending) \in Nat /\ One(j \in supGive) \in Nat /\ One(j \in sd.give) \in Nat
          /\ Cardinality(Givers(j)) \in Nat /\ Len(ch[j]) \in Nat
      BY <1>0, PlacesCounted
    <3> QED
      BY <3>1, <3>2, <3>3, <3>4, <3>5
  <2>3. CASE j # k
    <3>1. (j \in sd'.give) = (j \in sd.give) /\ ch'[j] = ch[j]
      BY <1>1, <1>3, <2>3
    <3> QED
      BY <2>1, <3>1, PromisedIs, PromisedAfter
  <2> QED
    BY <2>2, <2>3
<1>10. CallInv'
  BY <1>1, <1>4, <1>9 DEF ClientIndInv, CallInv
<1>11. AuthInv'
  <2>1. cl.watch \in 0..MaxConns /\ VerdictsKept
    BY <1>4, Kept DEF ClientRec, VerdictsKept
  <2> QED
    BY <1>0, <1>4, <2>1, Kept, AuthKept DEF ClientIndInv
<1> QED
  BY <1>5, <1>6, <1>7, <1>8, <1>10, <1>11 DEF Keeps, ClientIndInv

\* shutdown records StateClosed and closes done.
LEMMA ShutdownEndsKeeps == ASSUME ClientIndInv, shutdownEnds PROVE Keeps
<1>0. sd \in ShutdownRec /\ sd.pc = "give" /\ cl.closed /\ cl.conn = NoConn
  BY DEF ClientIndInv, TypeInv, TypeOK, ClientInv, shutdownEnds
<1>1. /\ sd' \in ShutdownRec /\ sd'.pc = "done" /\ sd'.give = sd.give
      /\ sd'.cancel = sd.cancel /\ sd'.conn = sd.conn
  BY <1>0 DEF shutdownEnds, ShutdownRec
<1>2. /\ cl' \in ClientRec /\ cl'.cancelled = cl.cancelled /\ cl'.done = TRUE
      /\ cl'.closed = cl.closed /\ cl'.conn = cl.conn /\ cl'.watch = cl.watch
      /\ cl'.ready = cl.ready /\ cl'.closeErr = cl.closeErr
      /\ cl'.state = "closed" /\ cl'.refused = cl.refused /\ cl'.cancelRun = cl.cancelRun
  BY Kept DEF shutdownEnds, ClientRec
<1>3. UNCHANGED <<opts, sup, supGive, link, rd, auth, authMu, wch, watch, srvAuths, srvReqs,
                  pending, call, ch>>
  BY DEF shutdownEnds, authVars, callVars
<1>4. TypeInv'
  BY <1>1, <1>2, <1>3
     DEF ClientIndInv, TypeInv, TypeOK, ReaderHands, AuthConns, SupConn
<1>5. SupInv'
  BY <1>3, Kept, SupKept DEF ClientIndInv
<1>6. ClientInv'
  BY <1>0, <1>1, <1>2, <1>3 DEF ClientIndInv, ClientInv
<1>7. EndStep
  BY <1>0, <1>2 DEF EndStep
<1>8. CallInv'
  <2>1. \A k \in Calls : Promised(k)' = Promised(k)
    BY <1>1, <1>3 DEF Promised
  <2> QED
    BY <1>1, <1>2, <1>3, <2>1 DEF ClientIndInv, CallInv
<1>9. AuthInv'
  <2>1. cl.watch \in 0..MaxConns /\ VerdictsKept
    BY <1>3, Kept DEF ClientRec, VerdictsKept
  <2> QED
    BY <1>2, <1>3, <2>1, Kept, AuthKept DEF ClientIndInv
<1> QED
  BY <1>4, <1>5, <1>6, <1>7, <1>8, <1>9 DEF Keeps, ClientIndInv

\* markDisconnected takes the table, unless the client was closed meanwhile.
LEMMA MarkDisconnectedKeeps == ASSUME ClientIndInv, markDisconnected PROVE Keeps
<1>0. sup.pc = "drop" /\ supGive = {} /\ sup.c # NoConn
  BY Kept, SupHas, Domains DEF markDisconnected, NoConn
<1>1. CASE cl.conn # sup.c
  <2>1. cl.conn = NoConn /\ cl.closed
    BY <1>0, <1>1 DEF ClientIndInv, ClientInv
  <2>2. sup' \in SupRec /\ sup'.c = sup.c /\ sup'.pc = "decide"
    BY <1>1, Kept DEF markDisconnected, SupRec
  <2>3. UNCHANGED <<opts, cl, sd, supGive, link, rd, authVars, callVars>>
    BY <1>1 DEF markDisconnected, callVars
  <2> QED
    BY <1>0, <2>1, <2>2, <2>3, Kept, SupSteps DEF Between, Published
<1>2. CASE cl.conn = sup.c
  <2>1. sup' \in SupRec /\ sup'.c = sup.c /\ sup'.pc = "give"
    BY <1>2, Kept DEF markDisconnected, SupRec
  <2>2. /\ cl' \in ClientRec /\ cl'.conn = NoConn /\ cl'.watch = NoConn /\ cl'.ready = FALSE
        /\ cl'.closed = cl.closed /\ cl'.done = cl.done /\ cl'.cancelRun = cl.cancelRun
        /\ cl'.cancelled = cl.cancelled /\ cl'.state = cl.state /\ cl'.refused = cl.refused
        /\ cl'.closeErr = cl.closeErr
    <3>1. NoConn \in 0..MaxConns
      BY Domains DEF NoConn
    <3> QED
      BY ZenonT(60), <1>2, <3>1, Kept DEF markDisconnected, ClientRec
  <2>3. UNCHANGED <<opts, sd, link, rd, auth, authMu, wch, watch, srvAuths, srvReqs, call, ch>>
        /\ supGive' = pending /\ pending' = {}
    BY <1>2 DEF markDisconnected, authVars
  <2>4. TypeInv'
    BY <2>1, <2>2, <2>3
       DEF ClientIndInv, TypeInv, TypeOK, ReaderHands, AuthConns, SupConn
  <2>5. SupInv'
    BY <1>0, <2>1, <2>3, Kept, SupKept DEF ClientIndInv, Between
  <2>6. ClientInv'
    BY <1>0, <1>2, <2>1, <2>2, <2>3 DEF ClientIndInv, ClientInv
  <2>7. EndStep
    BY <2>2 DEF ClientIndInv, ClientInv, EndStep
  <2>8. \A k \in Calls : Promised(k)' = Promised(k)
    <3> SUFFICES ASSUME NEW k \in Calls PROVE Promised(k)' = Promised(k)
      OBVIOUS
    <3>1. Givers(k)' = Givers(k) /\ sd' = sd /\ ch' = ch
      BY <2>3 DEF Givers
    <3>2. One(k \in pending') = 0 /\ One(k \in supGive') = One(k \in pending)
          /\ One(k \in supGive) = 0
      BY <1>0, <2>3 DEF One
    <3> QED
      BY <3>1, <3>2, PromisedIs, PromisedAfter, PlacesCounted DEF ClientIndInv
  <2>9. CallInv'
    BY <2>1, <2>2, <2>3, <2>8 DEF ClientIndInv, CallInv
  <2>10. AuthInv'
    <3>1. cl.watch \in 0..MaxConns /\ VerdictsKept
      BY <2>3, Kept DEF ClientRec, VerdictsKept
    <3> QED
      BY <1>0, <2>1, <2>2, <2>3, <3>1, Kept, AuthKept DEF ClientIndInv
  <2> QED
    BY <2>4, <2>5, <2>6, <2>7, <2>9, <2>10 DEF Keeps, ClientIndInv
<1> QED
  BY <1>1, <1>2

\* markDisconnected fails one of the calls it took.
LEMMA DisconnectedGivesKeeps ==
  ASSUME ClientIndInv, NEW k \in Calls, disconnectedGives(k) PROVE Keeps
<1>0. TypeInv /\ sup.pc = "give" /\ k \in supGive
  BY DEF ClientIndInv, disconnectedGives
<1>1. "lost" \in Results
  BY DEF Results, Errors
<1>2. /\ ch' \in [Calls -> Seq(Results)] /\ Len(ch'[k]) = Len(ch[k]) + 1
      /\ \A j \in Calls : j # k => ch'[j] = ch[j]
  BY <1>0, <1>1, Given DEF disconnectedGives
<1>3. UNCHANGED <<opts, cl, sd, sup, link, rd, auth, authMu, wch, watch, srvAuths,
                  srvReqs, pending, call>> /\ supGive' = supGive \ {k}
  BY DEF disconnectedGives, authVars
<1>4. TypeInv'
  BY <1>0, <1>2, <1>3 DEF TypeInv, TypeOK, ReaderHands, AuthConns, SupConn
<1>5. SupInv'
  BY <1>0, <1>3, Kept, SupKept DEF ClientIndInv
<1>6. ClientInv' /\ EndStep
  BY <1>0, <1>3, Kept, ClientMoves DEF ClientIndInv, ClientInv
<1>7. \A j \in Calls : Promised(j)' = Promised(j)
  <2> SUFFICES ASSUME NEW j \in Calls PROVE Promised(j)' = Promised(j)
    OBVIOUS
  <2>1. Givers(j)' = Givers(j) /\ pending' = pending /\ sd' = sd
    BY <1>3 DEF Givers
  <2>2. CASE j = k
    <3>1. One(j \in supGive) = 1 /\ One(j \in supGive') = 0
      BY <1>0, <1>3, <2>2 DEF One
    <3>2. Len(ch'[j]) = Len(ch[j]) + 1
      BY <1>2, <2>2
    <3>3. Promised(j) = One(j \in pending) + One(j \in supGive) + One(j \in sd.give) + Cardinality(Givers(j)) + Len(ch[j])
      BY PromisedIs
    <3>4. Promised(j)' = One(j \in pending) + One(j \in supGive') + One(j \in sd.give) + Cardinality(Givers(j)) + Len(ch'[j])
      BY <2>1, PromisedAfter
    <3>5. /\ One(j \in pending) \in Nat /\ One(j \in supGive) \in Nat /\ One(j \in sd.give) \in Nat
          /\ Cardinality(Givers(j)) \in Nat /\ Len(ch[j]) \in Nat
      BY <1>0, PlacesCounted
    <3> QED
      BY <3>1, <3>2, <3>3, <3>4, <3>5
  <2>3. CASE j # k
    <3>1. (j \in supGive') = (j \in supGive) /\ ch'[j] = ch[j]
      BY <1>2, <1>3, <2>3
    <3> QED
      BY <2>1, <3>1, PromisedIs, PromisedAfter
  <2> QED
    BY <2>2, <2>3
<1>8. CallInv'
  BY <1>0, <1>3, <1>7 DEF ClientIndInv, CallInv
<1>9. AuthInv'
  <2>1. cl.watch \in 0..MaxConns /\ VerdictsKept
    BY <1>3, Kept DEF ClientRec, VerdictsKept
  <2> QED
    BY <1>0, <1>3, <2>1, Kept, AuthKept DEF ClientIndInv
<1> QED
  BY <1>4, <1>5, <1>6, <1>8, <1>9 DEF Keeps, ClientIndInv

-----------------------------------------------------------------------------
(* The readers.                                                            *)

\* The reader of c goes from one place to another.
LEMMA ReaderMoves ==
  ASSUME ClientIndInv, NEW c \in Conns, rd[c].pc \notin {"none", "ended"},
         \A d \in Conns : d # c => rd'[d] = rd[d],
         rd'[c].pc # "none", rd'[c].pc = "ended" => link'[c] = "closed",
         LinksFade, UNCHANGED sup
  PROVE  SupInv'
<1>1. c = sup.c /\ sup.pc \notin Between \cup {"drop", "first"} /\ link[c] # "none"
  BY ReaderIsSups
<1>2. sup.c \in Nat /\ Conns \subseteq Nat
  BY Domains, Kept DEF SupRec
<1>3. (\A d \in Conns : d < sup.c => d # c) /\ (\A d \in Conns : d > sup.c => d # c)
  BY <1>1, <1>2
<1>4. \A d \in Conns : d < sup'.c => Over(d)'
  BY <1>3 DEF ClientIndInv, SupInv, Over, LinksFade
<1>5. /\ \A d \in Conns : d > sup'.c => link'[d] = "none" /\ rd'[d].pc = "none"
      /\ \A d \in Conns : d <= sup'.c => link'[d] # "none"
  BY <1>3 DEF ClientIndInv, SupInv, LinksFade
<1>6. \A d \in Conns : rd'[d].pc = "ended" => link'[d] = "closed"
  BY DEF ClientIndInv, SupInv, LinksFade
<1> QED
  BY <1>1, <1>4, <1>5, <1>6 DEF SupInv

\* The link breaks.
LEMMA DropKeeps == ASSUME ClientIndInv, NEW c \in Conns, Drop(c) PROVE Keeps
<1>1. LinksFade
  BY Kept DEF Drop, LinksFade
<1>2. UNCHANGED <<opts, cl, sd, sup, supGive, rd, authVars, callVars>>
  BY DEF Drop
<1>3. TypeInv' /\ CallInv' /\ AuthInv'
  BY <1>1, <1>2, Kept, SupMoves DEF ClientIndInv, TypeInv, SupConn
<1>4. SupInv'
  BY <1>1, <1>2, SupKept DEF ClientIndInv
<1>5. ClientInv' /\ EndStep
  BY <1>2, Kept, ClientMoves DEF ClientIndInv, ClientInv
<1> QED
  BY <1>3, <1>4, <1>5 DEF Keeps, ClientIndInv

\* The read fails: the reader closes the link and ends.
LEMMA ReadFailsKeeps == ASSUME ClientIndInv, NEW c \in Conns, readFails(c) PROVE Keeps
<1>0. rd \in [Conns -> ReaderRec] /\ rd[c].pc = "reading" /\ link[c] # "none"
      /\ srvAuths \in [Conns -> Seq(Frames)] /\ srvReqs \in [Conns -> SUBSET Calls]
  BY DEF ClientIndInv, TypeInv, TypeOK, readFails
<1>1. rd' \in [Conns -> ReaderRec] /\ rd'[c].pc = "ended" /\ \A d \in Conns : d # c => rd'[d] = rd[d]
  BY ZenonT(60), <1>0 DEF readFails, ReaderRec
<1>2. LinksFade /\ link'[c] = "closed"
  BY <1>0, Kept, LinkCloses DEF readFails
<1>3. UNCHANGED <<opts, cl, sd, sup, supGive, auth, authMu, wch, watch, pending, call, ch>>
  BY DEF readFails
<1>4. /\ srvAuths' \in [Conns -> Seq(Frames)] /\ srvReqs' \in [Conns -> SUBSET Calls]
      /\ \A d \in Conns : d # c => srvAuths'[d] = srvAuths[d]
  BY <1>0 DEF readFails
<1>5. GivesKept /\ VerdictsKept
  BY <1>0, <1>1 DEF GivesKept, VerdictsKept
<1>6. TypeInv'
  <2>1. ReaderHands'
    BY <1>1 DEF ClientIndInv, TypeInv, ReaderHands
  <2> QED
    BY <1>1, <1>2, <1>3, <1>4, <2>1
       DEF ClientIndInv, TypeInv, TypeOK, AuthConns, SupConn, LinksFade
<1>7. SupInv'
  BY <1>0, <1>1, <1>2, <1>3, ReaderMoves
<1>8. ClientInv' /\ EndStep
  BY <1>3, Kept, ClientMoves DEF ClientIndInv, ClientInv
<1>9. CallInv'
  BY <1>3, <1>5, Kept, CallKept DEF ClientIndInv
<1>10. AuthPlace'
  <2>1. \A a \in Actors : auth[a].pc \in {"watch", "lock", "send", "await", "handed"}
                                => auth[a].c \in Conns
    BY DEF ClientIndInv, TypeInv, AuthConns
  <2>2. cl.watch # NoConn => cl.watch \in Conns
    BY Kept, Domains DEF Conns, NoConn, ClientRec
  <2> QED
    BY <1>2, <1>3, <2>1, <2>2 DEF ClientIndInv, AuthInv, AuthPlace, LinksFade
<1>11. ASSUME Asking PROVE AuthQueues'
  <2> SUFFICES ASSUME NEW d \in Conns, d # c
               PROVE  /\ link'[d] = "none" => srvAuths'[d] = <<>> /\ watch.sent[d] = 0
                                               /\ watch.abandoned[d] = 0
                      /\ link'[d] = "open" =>
                           /\ watch.sent[d] = Len(srvAuths'[d])
                           /\ (\A a \in Actors : ~Asked(a, d)) =>
                                Len(srvAuths'[d]) = watch.abandoned[d]
                           /\ \A a \in Actors : Asked(a, d) =>
                                /\ Len(srvAuths'[d]) = watch.abandoned[d] + 1
                                /\ srvAuths'[d][Len(srvAuths'[d])] = <<a, d, auth[a].n>>
    BY <1>2, <1>3 DEF AuthQueues, Asked
  <2> QED
    BY <1>2, <1>4, <1>11 DEF ClientIndInv, AuthInv, AuthQueues, LinksFade
<1>12. ASSUME Asking PROVE AuthHands'
  BY <1>3, <1>5, <1>12 DEF ClientIndInv, AuthInv, AuthHands, VerdictsKept
<1>13. AuthInv'
  BY <1>3, <1>10, <1>11, <1>12 DEF AuthInv, Asking
<1> QED
  BY <1>6, <1>7, <1>8, <1>9, <1>13 DEF Keeps, ClientIndInv

\* A frame that answers call k: the reader takes the call, if it is pending.
LEMMA AnswerKeeps ==
  ASSUME ClientIndInv, NEW c \in Conns, NEW k \in Calls, Meets(c), TakePending(c, k),
         srvReqs' = [srvReqs EXCEPT ![c] = @ \ {k}],
         UNCHANGED <<opts, cl, sd, sup, supGive, link, authVars, call, ch>>
  PROVE  Keeps
<1>0. rd \in [Conns -> ReaderRec] /\ rd[c].pc = "reading" /\ TypeInv
      /\ srvReqs \in [Conns -> SUBSET Calls]
  BY DEF ClientIndInv, TypeInv, TypeOK, Meets
<1>1. UNCHANGED <<opts, cl, sd, sup, supGive, link, auth, authMu, wch, watch, srvAuths,
                  call, ch>> /\ srvReqs' \in [Conns -> SUBSET Calls]
  BY <1>0 DEF authVars
<1>2. LinksFade /\ pending' \in SUBSET Calls
  BY <1>1, Kept DEF TakePending, ClientIndInv, TypeInv, TypeOK
<1>3. \A d \in Conns : d # c => rd'[d] = rd[d]
  BY <1>0 DEF TakePending
<1>4. rd' \in [Conns -> ReaderRec]
      /\ (k \in pending => rd'[c].pc = "give" /\ rd'[c].to = k /\ rd'[c].res = "answer")
      /\ (k \notin pending => rd' = rd)
  BY <1>0 DEF TakePending, Hand, ReaderRec, Results
<1>5. TypeInv'
  <2>1. ReaderHands'
    BY <1>0, <1>3, <1>4 DEF TypeInv, ReaderHands
  <2> QED
    BY <1>0, <1>1, <1>2, <1>4, <2>1 DEF TypeInv, TypeOK, AuthConns, SupConn
<1>6. SupInv'
  BY <1>0, <1>1, <1>2, <1>3, <1>4, ReaderMoves
<1>7. ClientInv' /\ EndStep
  BY <1>1, Kept, ClientMoves DEF ClientIndInv, ClientInv
<1>8. \A j \in Calls : Promised(j)' = Promised(j)
  <2>1. CASE k \notin pending
    BY <1>1, <1>4, <2>1, PromisesKept DEF TakePending, GivesKept
  <2>2. CASE k \in pending
    <3>0. pending' = pending \ {k} /\ supGive' = supGive /\ sd' = sd /\ ch' = ch
      BY <1>1, <2>2 DEF TakePending
    <3>1. ASSUME NEW j \in Calls, j # k PROVE Promised(j)' = Promised(j)
      <4>1. Givers(j)' = Givers(j)
        BY <1>0, <1>3, <1>4, <2>2, <3>1 DEF Givers
      <4>2. (j \in pending') = (j \in pending)
        BY <3>0, <3>1
      <4> QED
        BY <3>0, <4>1, <4>2, PromisedIs, PromisedAfter
    <3>2. Promised(k)' = Promised(k)
      <4>1. Givers(k)' = Givers(k) \cup {c} /\ c \notin Givers(k)
        BY <1>0, <1>3, <1>4, <2>2 DEF Givers
      <4>2. /\ IsFiniteSet(Givers(k)) /\ Cardinality(Givers(k)) \in Nat /\ Len(ch[k]) \in Nat
            /\ One(k \in supGive) \in Nat /\ One(k \in sd.give) \in Nat
        BY <1>0, PlacesCounted
      <4>3. Cardinality(Givers(k)') = Cardinality(Givers(k)) + 1
        BY <4>1, <4>2, FS_AddElement
      <4>4. One(k \in pending) = 1 /\ One(k \in pending') = 0
        BY <2>2, <3>0 DEF One
      <4>5. Promised(k) = One(k \in pending) + One(k \in supGive) + One(k \in sd.give)
                          + Cardinality(Givers(k)) + Len(ch[k])
        BY PromisedIs
      <4>6. Promised(k)' = One(k \in pending') + One(k \in supGive) + One(k \in sd.give)
                           + Cardinality(Givers(k)') + Len(ch[k])
        BY <3>0, PromisedAfter
      <4> QED
        BY <4>2, <4>3, <4>4, <4>5, <4>6
    <3> QED
      BY <3>1, <3>2
  <2> QED
    BY <2>1, <2>2
<1>9. CallInv'
  <2>1. pending' \subseteq pending
    BY DEF TakePending
  <2> QED
    BY <1>1, <1>8, <2>1 DEF ClientIndInv, CallInv
<1>10. AuthInv'
  <2>1. cl.watch \in 0..MaxConns
    BY Kept DEF ClientRec
  <2>2. VerdictsKept
    BY <1>0, <1>3, <1>4 DEF VerdictsKept
  <2> QED
    BY <1>0, <1>1, <1>2, <2>1, <2>2, AuthKept DEF ClientIndInv
<1> QED
  BY <1>5, <1>6, <1>7, <1>9, <1>10 DEF Keeps, ClientIndInv

\* The four kinds of frame that answer a call.
LEMMA AnswersKeep ==
  ASSUME ClientIndInv, NEW c \in Conns, NEW k \in Calls,
         \/ deliverResult(c, k) \/ handleError(c, k)
         \/ handleBinary(c, k) \/ rejectStreamForCall(c, k)
  PROVE  Keeps
BY AnswerKeeps DEF deliverResult, handleError, handleBinary, rejectStreamForCall

\* p.ch <- result
LEMMA ReaderGivesKeeps == ASSUME ClientIndInv, NEW c \in Conns, readerGives(c) PROVE Keeps
<1>0. rd \in [Conns -> ReaderRec] /\ rd[c].pc = "give" /\ TypeInv
      /\ rd[c].to \in Calls /\ rd[c].res = "answer"
  BY DEF ClientIndInv, TypeInv, TypeOK, ReaderHands, readerGives
<1>1. PICK k \in Calls : k = rd[c].to
  BY <1>0
<1>2. /\ ch' \in [Calls -> Seq(Results)] /\ Len(ch'[k]) = Len(ch[k]) + 1
      /\ \A j \in Calls : j # k => ch'[j] = ch[j]
  BY <1>0, <1>1, Given DEF readerGives, Results
<1>3. rd' \in [Conns -> ReaderRec] /\ rd'[c].pc = "reading"
      /\ \A d \in Conns : d # c => rd'[d] = rd[d]
  BY <1>0 DEF readerGives, Resume, Idle, Hand, ReaderRec, Results, Errors
<1>4. UNCHANGED <<opts, cl, sd, sup, supGive, link, auth, authMu, wch, watch, srvAuths,
                  srvReqs, pending, call>>
  BY DEF readerGives, authVars
<1>5. TypeInv'
  <2>1. ReaderHands'
    BY <1>0, <1>3 DEF TypeInv, ReaderHands
  <2> QED
    BY <1>0, <1>2, <1>3, <1>4, <2>1 DEF TypeInv, TypeOK, AuthConns, SupConn
<1>6. SupInv'
  BY <1>0, <1>3, <1>4, Kept, ReaderMoves
<1>7. ClientInv' /\ EndStep
  BY <1>4, Kept, ClientMoves DEF ClientIndInv, ClientInv
<1>8. ASSUME NEW j \in Calls, j # k PROVE Promised(j)' = Promised(j)
  <2>1. Givers(j)' = Givers(j)
    BY <1>0, <1>1, <1>3, <1>8 DEF Givers
  <2> QED
    BY <1>2, <1>4, <1>8, <2>1, PromisedIs, PromisedAfter
<1>9. Promised(k)' = Promised(k)
  <2>1. Givers(k)' = Givers(k) \ {c} /\ c \in Givers(k)
    BY <1>0, <1>1, <1>3 DEF Givers
  <2>2. /\ IsFiniteSet(Givers(k)) /\ Cardinality(Givers(k)) \in Nat /\ Len(ch[k]) \in Nat
        /\ One(k \in pending) \in Nat /\ One(k \in supGive) \in Nat /\ One(k \in sd.give) \in Nat
    BY <1>0, PlacesCounted
  <2>3. Cardinality(Givers(k)') = Cardinality(Givers(k)) - 1
    BY <2>1, <2>2, FS_RemoveElement
  <2>4. Promised(k) = One(k \in pending) + One(k \in supGive) + One(k \in sd.give)
                      + Cardinality(Givers(k)) + Len(ch[k])
    BY PromisedIs
  <2>5. Promised(k)' = One(k \in pending) + One(k \in supGive) + One(k \in sd.give)
                       + Cardinality(Givers(k)') + Len(ch'[k])
    BY <1>4, PromisedAfter
  <2> QED
    BY <1>2, <2>2, <2>3, <2>4, <2>5
<1>10. CallInv'
  BY <1>4, <1>8, <1>9 DEF ClientIndInv, CallInv
<1>11. AuthInv'
  <2>1. cl.watch \in 0..MaxConns /\ VerdictsKept
    BY <1>3, Kept DEF ClientRec, VerdictsKept
  <2> QED
    BY <1>0, <1>4, <2>1, Kept, AuthKept DEF ClientIndInv
<1> QED
  BY <1>5, <1>6, <1>7, <1>10, <1>11 DEF Keeps, ClientIndInv

\* shutdown has returned to a reader, which reads on.
LEMMA ReaderReturnsKeeps ==
  ASSUME ClientIndInv, NEW c \in Conns, readerReturns(c) PROVE Keeps
<1>0. rd \in [Conns -> ReaderRec] /\ rd[c].pc = "shutting" /\ TypeInv
  BY DEF ClientIndInv, TypeInv, TypeOK, readerReturns
<1>1. rd' \in [Conns -> ReaderRec] /\ rd'[c].pc = "reading"
      /\ \A d \in Conns : d # c => rd'[d] = rd[d]
  BY <1>0 DEF readerReturns, Resume, Idle, Hand, ReaderRec, Results, Errors
<1>2. UNCHANGED <<opts, cl, sd, sup, supGive, link, auth, authMu, wch, watch, srvAuths,
                  srvReqs, pending, call, ch>>
  BY DEF readerReturns, authVars, callVars
<1>3. GivesKept /\ VerdictsKept
  BY <1>0, <1>1 DEF GivesKept, VerdictsKept
<1>4. TypeInv'
  <2>1. ReaderHands'
    BY <1>0, <1>1 DEF TypeInv, ReaderHands
  <2> QED
    BY <1>0, <1>1, <1>2, <2>1 DEF TypeInv, TypeOK, AuthConns, SupConn
<1>5. SupInv'
  BY <1>0, <1>1, <1>2, Kept, ReaderMoves
<1>6. ClientInv' /\ EndStep
  BY <1>2, Kept, ClientMoves DEF ClientIndInv, ClientInv
<1>7. CallInv'
  BY <1>2, <1>3, Kept, CallKept DEF ClientIndInv
<1>8. AuthInv'
  <2>1. cl.watch \in 0..MaxConns
    BY Kept DEF ClientRec
  <2> QED
    BY <1>0, <1>2, <1>3, <2>1, Kept, AuthKept DEF ClientIndInv
<1> QED
  BY <1>4, <1>5, <1>6, <1>7, <1>8 DEF Keeps, ClientIndInv

\* A reader that shuts the client down, all but what authenticate sees of it.
LEMMA ReaderShutsDown ==
  ASSUME ClientIndInv, NEW c \in Conns, Meets(c), shutdown(c, "rejected"),
         rd' = [rd EXCEPT ![c].pc = "shutting"], LinksFade,
         UNCHANGED <<opts, sup, supGive, ch, call>>
  PROVE  /\ cl' \in ClientRec /\ sd' \in ShutdownRec /\ pending' \in SUBSET Calls
         /\ rd' \in [Conns -> ReaderRec] /\ ReaderHands' /\ VerdictsKept
         /\ cl'.watch = cl.watch
         /\ SupInv' /\ CallInv' /\ ClientInv' /\ EndStep
<1>0. rd \in [Conns -> ReaderRec] /\ rd[c].pc = "reading" /\ ReaderHands
  BY DEF ClientIndInv, TypeInv, TypeOK, Meets
<1>1. c \in -1..MaxConns /\ "rejected" \in Errors
  BY DEF Conns, Errors
<1>2. rd' \in [Conns -> ReaderRec] /\ rd'[c].pc = "shutting"
      /\ \A d \in Conns : d # c => rd'[d] = rd[d]
  BY <1>0 DEF ReaderRec
<1>3. GivesKept /\ VerdictsKept /\ ReaderHands'
  BY <1>0, <1>2 DEF GivesKept, VerdictsKept, ReaderHands
<1>4. /\ cl' \in ClientRec /\ sd' \in ShutdownRec /\ pending' \in SUBSET Calls
      /\ cl'.watch = cl.watch
  BY <1>1, ShutdownTakes
<1>5. CallInv' /\ ClientInv' /\ EndStep
  BY <1>1, <1>3, Kept, ShutdownInv
<1>6. SupInv'
  BY <1>0, <1>2, ReaderMoves
<1> QED
  BY <1>2, <1>3, <1>4, <1>5, <1>6

\* A rejection mid-session closes the connection or the client.
LEMMA ConnectionRejectedKeeps ==
  ASSUME ClientIndInv, NEW c \in Conns, connectionRejected(c) PROVE Keeps
<1>0. Meets(c) /\ UNCHANGED <<opts, sup, supGive, authVars, call, ch, srvReqs>>
      /\ rd[c].pc = "reading" /\ link[c] = "open"
  BY DEF connectionRejected, Meets
<1>1. CASE opts.retry # -1 /\ ~opts.noReconnect
  <2>1. /\ cl' = [cl EXCEPT !.dropRejection = @ \/ cl.conn = c, !.refused = TRUE]
        /\ closeLink(c) /\ UNCHANGED <<rd, sd, pending>>
    BY <1>1 DEF connectionRejected
  <2>2. ClientKept
    BY <2>1, Kept DEF ClientKept, ClientRec
  <2>3. LinksFade
    BY <1>0, <2>1, Kept, LinkCloses
  <2>4. UNCHANGED <<opts, sd, sup, supGive, rd, authVars, callVars>>
    BY <1>0, <2>1 DEF callVars
  <2>5. TypeInv' /\ CallInv' /\ AuthInv'
    BY <2>2, <2>3, <2>4, Kept, SupMoves DEF ClientIndInv, TypeInv, SupConn, ClientKept
  <2>6. SupInv'
    BY <2>3, <2>4, SupKept DEF ClientIndInv
  <2>7. ClientInv' /\ EndStep
    BY <1>1, <2>2, <2>4, ClientMoves DEF ClientIndInv, ClientInv
  <2> QED
    BY <2>5, <2>6, <2>7 DEF Keeps, ClientIndInv
<1>2. CASE ~(opts.retry # -1 /\ ~opts.noReconnect)
  <2>1. /\ shutdown(c, "rejected") /\ rd' = [rd EXCEPT ![c].pc = "shutting"]
        /\ UNCHANGED link /\ LinksFade
    BY <1>2, Kept DEF connectionRejected
  <2>2. /\ cl' \in ClientRec /\ sd' \in ShutdownRec /\ pending' \in SUBSET Calls
        /\ rd' \in [Conns -> ReaderRec] /\ ReaderHands' /\ VerdictsKept
        /\ cl'.watch = cl.watch
        /\ SupInv' /\ CallInv' /\ ClientInv' /\ EndStep
    BY <1>0, <2>1, ReaderShutsDown
  <2>3. TypeInv'
    BY <1>0, <2>1, <2>2 DEF ClientIndInv, TypeInv, TypeOK, AuthConns, SupConn, authVars
  <2>4. AuthInv'
    <3>1. cl.watch \in 0..MaxConns
      BY Kept DEF ClientRec
    <3> QED
      BY <1>0, <2>1, <2>2, <3>1, AuthKept DEF ClientIndInv, authVars
  <2> QED
    BY <2>2, <2>3, <2>4 DEF Keeps, ClientIndInv
<1> QED
  BY <1>1, <1>2

-----------------------------------------------------------------------------
(* Verdicts.                                                               *)

\* What an auth_ok or auth_error does, but for the queue of auth frames.
LEMMA AuthFrameKeeps ==
  ASSUME ClientIndInv, NEW c \in Conns, Meets(c), NEW v \in {"ok", "refused"},
         NEW f \in Frames \cup {<<>>}, authFrame(c, v, f), LinksFade,
         srvAuths' \in [Conns -> Seq(Frames)], srvReqs' \in [Conns -> SUBSET Calls],
         Asking => AuthQueues' /\ AuthHands'
  PROVE  Keeps
<1>0. /\ rd \in [Conns -> ReaderRec] /\ rd[c].pc = "reading" /\ TypeInv /\ watch \in WatchRec
      /\ UNCHANGED <<opts, sup, supGive, auth, authMu, wch, call, ch>>
  BY DEF ClientIndInv, TypeInv, TypeOK, Meets, authFrame
<1>1. watch' \in WatchRec /\ watch'.authWait \in {watch.authWait, Nobody}
  <2>1. PICK n \in Nat : n = IF watch.sent[c] > 0 THEN watch.sent[c] - 1 ELSE 0
    BY <1>0 DEF WatchRec
  <2>2. PICK m \in Nat : m = IF watch.sent[c] > 0 /\ watch.abandoned[c] > 0
                               THEN watch.abandoned[c] - 1 ELSE watch.abandoned[c]
    BY <1>0 DEF WatchRec
  <2>3. PICK w \in {watch.authWait, Nobody} :
          watch' = [watch EXCEPT !.sent[c] = n, !.abandoned[c] = m, !.authWait = w]
    BY <2>1, <2>2 DEF authFrame
  <2> QED
    BY <1>0, <2>3 DEF WatchRec
<1>2. /\ cl' \in ClientRec /\ sd' \in ShutdownRec /\ pending' \in SUBSET Calls
      /\ rd' \in [Conns -> ReaderRec] /\ ReaderHands' /\ cl'.watch = cl.watch
      /\ SupInv' /\ CallInv' /\ ClientInv' /\ EndStep
  <2>1. CASE ~(watch.sent[c] > 0) /\ v = "refused" /\ ~opts.token
    <3>1. shutdown(c, "rejected") /\ rd' = [rd EXCEPT ![c].pc = "shutting"]
      BY <2>1 DEF authFrame
    <3> QED
      BY <1>0, <3>1, ReaderShutsDown
  <2>2. CASE ~(~(watch.sent[c] > 0) /\ v = "refused" /\ ~opts.token)
    <3>1. /\ UNCHANGED <<cl, sd, pending>>
          /\ \/ rd' = rd
             \/ /\ watch.authWait # Nobody
                /\ rd' = [rd EXCEPT ![c] = Hand("verdict", watch.authWait, v, f)]
      BY <2>2 DEF authFrame
    <3>2. /\ rd' \in [Conns -> ReaderRec] /\ \A d \in Conns : d # c => rd'[d] = rd[d]
          /\ \/ rd'[c] = rd[c]
             \/ rd'[c].pc = "verdict" /\ rd'[c].to \in Actors /\ rd'[c].res = v
      <4>1. watch.authWait \in Actors \cup {Nobody}
        BY <1>0 DEF WatchRec
      <4>2. watch.authWait # Nobody => Hand("verdict", watch.authWait, v, f) \in ReaderRec
        BY <4>1 DEF Hand, ReaderRec
      <4>3. CASE rd' = rd
        BY <1>0, <4>3
      <4>4. CASE /\ watch.authWait # Nobody
                 /\ rd' = [rd EXCEPT ![c] = Hand("verdict", watch.authWait, v, f)]
        <5>1. rd' \in [Conns -> ReaderRec] /\ \A d \in Conns : d # c => rd'[d] = rd[d]
          BY <1>0, <4>2, <4>4
        <5>2. rd'[c].pc = "verdict" /\ rd'[c].to = watch.authWait /\ rd'[c].res = v
          BY <1>0, <4>4 DEF Hand
        <5> QED
          BY <4>1, <4>4, <5>1, <5>2
      <4> QED
        BY <3>1, <4>3, <4>4
    <3>3. ReaderHands'
      BY <1>0, <3>2 DEF TypeInv, ReaderHands
    <3>4. GivesKept
      BY <1>0, <3>2 DEF GivesKept
    <3>5. CallInv'
      BY <1>0, <3>1, <3>4, Kept, CallKept DEF ClientIndInv
    <3>6. SupInv'
      BY <1>0, <3>2, ReaderMoves
    <3>7. ClientInv' /\ EndStep
      BY <1>0, <3>1, Kept, ClientMoves DEF ClientIndInv, ClientInv
    <3> QED
      BY <1>0, <3>1, <3>2, <3>3, <3>5, <3>6, <3>7 DEF TypeInv, TypeOK
  <2> QED
    BY <2>1, <2>2
<1>3. TypeInv'
  BY <1>0, <1>1, <1>2 DEF TypeInv, TypeOK, AuthConns, SupConn, LinksFade
<1>4. AuthPlace'
  <2>1. \A a \in Actors : auth[a].pc \in {"watch", "lock", "send", "await", "handed"}
                                => auth[a].c \in Conns
    BY <1>0 DEF TypeInv, AuthConns
  <2>2. cl.watch # NoConn => cl.watch \in Conns
    BY Kept, Domains DEF Conns, NoConn, ClientRec
  <2>3. \A a \in Actors : watch'.authWait = a => watch.authWait = a
    BY <1>1, Domains
  <2> QED
    BY ZenonT(60), <1>0, <1>2, <2>1, <2>2, <2>3
       DEF ClientIndInv, AuthInv, AuthPlace, LinksFade
<1>5. AuthInv'
  BY <1>0, <1>4 DEF AuthInv, Asking
<1> QED
  BY <1>2, <1>3, <1>5 DEF Keeps, ClientIndInv

\* An unasked auth_error comes only where the client has no token and the
\* server wants one.
LEMMA AuthRequiredKeeps ==
  ASSUME ClientIndInv, NEW c \in Conns, NEW k \in Calls, authRequired(c, k) PROVE Keeps
<1>1. /\ Meets(c) /\ authFrame(c, "refused", <<>>) /\ ~Asking /\ UNCHANGED <<link, srvAuths>>
      /\ srvReqs' = [srvReqs EXCEPT ![c] = @ \ {k}]
  BY DEF authRequired, Asking
<1>2. LinksFade /\ srvAuths' \in [Conns -> Seq(Frames)] /\ srvReqs' \in [Conns -> SUBSET Calls]
  BY <1>1, Kept DEF ClientIndInv, TypeInv, TypeOK
<1>3. "refused" \in {"ok", "refused"} /\ <<>> \in Frames \cup {<<>>}
  OBVIOUS
<1> QED
  BY <1>1, <1>2, <1>3, AuthFrameKeeps

\* The server's authentication timeout breaks the link.
LEMMA AuthTimeoutKeeps ==
  ASSUME ClientIndInv, NEW c \in Conns, authTimeout(c) PROVE Keeps
<1>1. LinksFade
  BY Kept DEF authTimeout, Meets, LinksFade
<1>2. CASE opts.token
  <2>1. UNCHANGED <<opts, cl, sd, sup, supGive, rd, authVars, callVars>>
    BY <1>2 DEF authTimeout, authVars, callVars
  <2>2. TypeInv' /\ CallInv' /\ AuthInv'
    BY <1>1, <2>1, Kept, SupMoves DEF ClientIndInv, TypeInv, SupConn
  <2>3. SupInv'
    BY <1>1, <2>1, SupKept DEF ClientIndInv
  <2>4. ClientInv' /\ EndStep
    BY <2>1, Kept, ClientMoves DEF ClientIndInv, ClientInv
  <2> QED
    BY <2>2, <2>3, <2>4 DEF Keeps, ClientIndInv
<1>3. CASE ~opts.token
  <2>1. /\ Meets(c) /\ authFrame(c, "refused", <<>>) /\ ~Asking
        /\ srvAuths' \in [Conns -> Seq(Frames)] /\ srvReqs' \in [Conns -> SUBSET Calls]
    BY <1>3 DEF authTimeout, Asking, ClientIndInv, TypeInv, TypeOK
  <2>2. "refused" \in {"ok", "refused"} /\ <<>> \in Frames \cup {<<>>}
    OBVIOUS
  <2> QED
    BY <1>1, <2>1, <2>2, AuthFrameKeeps
<1> QED
  BY <1>2, <1>3

\* The first of a queue is answered, and the others keep their places.
LEMMA Answered ==
  ASSUME NEW S, NEW q \in Seq(S), q # <<>>
  PROVE  /\ Len(q) \in Nat /\ Len(q) > 0 /\ Head(q) \in S /\ Head(q) = q[1]
         /\ Tail(q) \in Seq(S) /\ Len(Tail(q)) = Len(q) - 1
         /\ Len(q) > 1 => Tail(q)[Len(Tail(q))] = q[Len(q)]
<1>1. Len(q) \in Nat /\ Len(q) > 0
  OBVIOUS
<1>2. Head(q) \in S /\ Head(q) = q[1] /\ Tail(q) \in Seq(S) /\ Len(Tail(q)) = Len(q) - 1
  BY <1>1
<1>3. ASSUME Len(q) > 1 PROVE Tail(q)[Len(Tail(q))] = q[Len(q)]
  BY <1>1, <1>2, <1>3
<1> QED
  BY <1>1, <1>2, <1>3

\* The oldest frame is an abandoned one, whose verdict is dropped, or the only
\* one, whose verdict goes to the actor that asked.
LEMMA AuthVerdictKeeps ==
  ASSUME ClientIndInv, NEW c \in Conns, NEW v \in {"ok", "refused"}, authVerdict(c, v)
  PROVE  Keeps
<1> DEFINE q == srvAuths[c]
<1>0. /\ Meets(c) /\ q # <<>> /\ authFrame(c, v, Head(q)) /\ UNCHANGED <<link, srvReqs>>
      /\ srvAuths' = [srvAuths EXCEPT ![c] = Tail(@)]
      /\ srvAuths \in [Conns -> Seq(Frames)] /\ q \in Seq(Frames) /\ watch \in WatchRec
      /\ rd \in [Conns -> ReaderRec] /\ rd[c].pc = "reading" /\ link[c] = "open"
      /\ UNCHANGED <<opts, auth, wch>>
  BY DEF authVerdict, Meets, authFrame, ClientIndInv, TypeInv, TypeOK
<1>1. /\ Len(q) \in Nat /\ Len(q) > 0 /\ Head(q) \in Frames /\ Head(q) = q[1]
      /\ Tail(q) \in Seq(Frames) /\ Len(Tail(q)) = Len(q) - 1
      /\ Len(q) > 1 => Tail(q)[Len(Tail(q))] = q[Len(q)]
  BY <1>0, Answered
<1>2. /\ srvAuths' \in [Conns -> Seq(Frames)] /\ srvReqs' \in [Conns -> SUBSET Calls]
      /\ LinksFade /\ srvAuths'[c] = Tail(q)
      /\ \A d \in Conns : d # c => srvAuths'[d] = srvAuths[d]
  BY <1>0, <1>1, Kept DEF ClientIndInv, TypeInv, TypeOK
<1>3. ASSUME Asking PROVE AuthQueues' /\ AuthHands'
  <2>0. /\ watch.sent[c] = Len(q) /\ watch.sent \in [Conns -> Nat]
        /\ watch.abandoned \in [Conns -> Nat] /\ AuthQueues /\ AuthHands
        /\ (\A a \in Actors : ~Asked(a, c)) => Len(q) = watch.abandoned[c]
        /\ \A a \in Actors : Asked(a, c) =>
              Len(q) = watch.abandoned[c] + 1 /\ q[Len(q)] = <<a, c, auth[a].n>>
    BY <1>0, <1>3 DEF ClientIndInv, AuthInv, AuthQueues, WatchRec
  <2>1. CASE watch.abandoned[c] > 0
    <3>1. PICK n \in Nat, m \in Nat : n = watch.sent[c] - 1 /\ m = watch.abandoned[c] - 1
      BY <1>1, <2>0, <2>1
    <3>2. /\ watch' = [watch EXCEPT !.sent[c] = n, !.abandoned[c] = m,
                                    !.authWait = watch.authWait]
          /\ rd' = rd
      <4>1. watch.sent[c] > 0 /\ watch.abandoned[c] > 0 /\ watch.abandoned[c] # 0
        BY <1>1, <2>0, <2>1
      <4>2. authFrame(c, v, Head(q))
        BY <1>0
      <4> HIDE DEF q
      <4> QED
        BY <3>1, <4>1, <4>2 DEF authFrame
    <3>3. /\ watch'.sent[c] = n /\ watch'.abandoned[c] = m /\ watch'.authWait = watch.authWait
          /\ \A d \in Conns : d # c => watch'.sent[d] = watch.sent[d]
                                       /\ watch'.abandoned[d] = watch.abandoned[d]
      BY <1>0, <3>2 DEF WatchRec
    <3>4. \A a \in Actors, d \in Conns : Asked(a, d)' <=> Asked(a, d)
      BY <1>0, <3>3 DEF Asked
    <3>5. AuthQueues'
      <4> SUFFICES ASSUME NEW d \in Conns
                   PROVE  /\ link'[d] = "none" => srvAuths'[d] = <<>> /\ watch'.sent[d] = 0
                                                   /\ watch'.abandoned[d] = 0
                          /\ link'[d] = "open" =>
                               /\ watch'.sent[d] = Len(srvAuths'[d])
                               /\ (\A a \in Actors : ~Asked(a, d)) =>
                                    Len(srvAuths'[d]) = watch'.abandoned[d]
                               /\ \A a \in Actors : Asked(a, d) =>
                                    /\ Len(srvAuths'[d]) = watch'.abandoned[d] + 1
                                    /\ srvAuths'[d][Len(srvAuths'[d])] = <<a, d, auth[a].n>>
        BY ZenonT(60), <1>0, <3>4 DEF AuthQueues
      <4>1. CASE d = c
        BY <1>0, <1>1, <1>2, <2>0, <2>1, <3>1, <3>3, <4>1
      <4>2. CASE d # c
        BY ZenonT(60), <1>0, <1>2, <2>0, <3>3, <4>2 DEF AuthQueues
      <4> QED
        BY <4>1, <4>2
    <3>6. AuthHands'
      BY <1>0, <2>0, <3>2, <3>3 DEF AuthHands
    <3> QED
      BY <3>5, <3>6
  <2>2. CASE watch.abandoned[c] = 0
    <3>1. PICK b \in Actors : Asked(b, c)
      BY <1>1, <2>0, <2>2
    <3>2. Len(q) = 1 /\ Head(q) = <<b, c, auth[b].n>> /\ watch.authWait = b /\ b # Nobody
          /\ auth[b].pc = "await" /\ auth[b].c = c
      BY <1>1, <2>0, <2>2, <3>1, Domains DEF Asked
    <3>3. /\ watch' = [watch EXCEPT !.sent[c] = 0, !.abandoned[c] = 0, !.authWait = Nobody]
          /\ rd' = [rd EXCEPT ![c] = Hand("verdict", b, v, <<b, c, auth[b].n>>)]
      <4>1. watch.sent[c] > 0 /\ watch.sent[c] - 1 = 0 /\ watch.abandoned[c] = 0
            /\ ~(watch.abandoned[c] > 0)
        BY <2>0, <2>2, <3>2
      <4>2. authFrame(c, v, <<b, c, auth[b].n>>) /\ watch.authWait = b /\ b # Nobody
        BY <1>0, <3>2
      <4> QED
        BY <4>1, <4>2 DEF authFrame
    <3>4. /\ watch'.sent[c] = 0 /\ watch'.abandoned[c] = 0 /\ watch'.authWait = Nobody
          /\ \A d \in Conns : d # c => watch'.sent[d] = watch.sent[d]
                                       /\ watch'.abandoned[d] = watch.abandoned[d]
      BY <1>0, <3>3 DEF WatchRec
    <3>5. /\ rd'[c].pc = "verdict" /\ rd'[c].to = b /\ rd'[c].frame = <<b, c, auth[b].n>>
          /\ \A d \in Conns : d # c => rd'[d] = rd[d]
      BY <1>0, <3>3 DEF Hand
    <3>6. \A a \in Actors, d \in Conns : ~Asked(a, d)' /\ (Asked(a, d) => d = c)
      BY <3>2, <3>4, Domains DEF Asked
    <3>7. AuthQueues'
      <4> SUFFICES ASSUME NEW d \in Conns
                   PROVE  /\ link'[d] = "none" => srvAuths'[d] = <<>> /\ watch'.sent[d] = 0
                                                   /\ watch'.abandoned[d] = 0
                          /\ link'[d] = "open" =>
                               /\ watch'.sent[d] = Len(srvAuths'[d])
                               /\ Len(srvAuths'[d]) = watch'.abandoned[d]
        BY <3>6 DEF AuthQueues
      <4>1. CASE d = c
        BY <1>0, <1>1, <1>2, <3>2, <3>4, <4>1
      <4>2. CASE d # c
        BY <1>0, <1>2, <2>0, <3>4, <3>6, <4>2 DEF AuthQueues
      <4> QED
        BY <4>1, <4>2
    <3>8. wch[b].res = "none"
      BY <2>0, <3>2 DEF AuthHands
    <3>9. \A d \in Conns : rd[d].pc = "verdict" => rd[d].to \in Actors
      BY DEF ClientIndInv, TypeInv, ReaderHands
    <3>10. \A a \in Actors : auth[a].pc # "send"
      BY <3>2 DEF ClientIndInv, AuthInv, AuthPlace
    <3>11. AuthHands'
      BY <1>0, <2>0, <3>2, <3>4, <3>5, <3>8, <3>9, <3>10, Domains DEF AuthHands
    <3> QED
      BY <3>7, <3>11
  <2> QED
    BY <1>0, <2>0, <2>1, <2>2
<1> HIDE DEF q
<1> QED
  BY <1>0, <1>1, <1>2, <1>3, AuthFrameKeeps

-----------------------------------------------------------------------------
(* authenticate.                                                           *)

\* A step of authenticate touches only what belongs to it.
LEMMA AuthSteps ==
  ASSUME ClientIndInv, UNCHANGED <<opts, cl, sd, sup, supGive, link, rd, callVars>>,
         auth' \in [Actors -> AuthRec], AuthConns', authMu' \in Actors \cup {Nobody},
         wch' \in [Actors -> WaitRec], watch' \in WatchRec,
         srvAuths' \in [Conns -> Seq(Frames)], AuthInv'
  PROVE  Keeps
<1>1. UNCHANGED <<opts, cl, sd, sup, supGive, link, rd, srvReqs, pending, call, ch>>
  BY DEF callVars
<1>2. TypeInv'
  BY <1>1 DEF ClientIndInv, TypeInv, TypeOK, ReaderHands, SupConn
<1>3. SupInv'
  BY <1>1, Kept, SupKept DEF ClientIndInv
<1>4. ClientInv' /\ EndStep
  BY <1>1, Kept, ClientMoves DEF ClientIndInv, ClientInv
<1>5. CallInv'
  BY <1>1, Kept, CallKept DEF ClientIndInv, GivesKept
<1> QED
  BY <1>2, <1>3, <1>4, <1>5 DEF Keeps, ClientIndInv

\* What is known of the variables of authenticate.
LEMMA AuthTypes ==
  ASSUME ClientIndInv
  PROVE  /\ auth \in [Actors -> AuthRec] /\ authMu \in Actors \cup {Nobody}
         /\ wch \in [Actors -> WaitRec] /\ watch \in WatchRec
         /\ srvAuths \in [Conns -> Seq(Frames)] /\ AuthConns /\ AuthPlace
         /\ Asking => AuthQueues /\ AuthHands
         /\ \A a \in Actors : auth[a].pc \in {"watch", "lock", "send", "await", "handed"}
                                 => auth[a].c \in Conns
         /\ \A c \in Conns : rd[c].pc = "verdict" => rd[c].to \in Actors
BY DEF ClientIndInv, TypeInv, TypeOK, AuthInv, AuthConns, ReaderHands

\* One authenticate at a time is past authMu.
LEMMA AuthAlone ==
  ASSUME ClientIndInv, NEW a \in Actors, auth[a].pc \in {"send", "await", "handed"}
  PROVE  /\ \A b \in Actors : b # a => auth[b].pc \notin {"send", "await", "handed"}
                                       /\ watch.authWait # b
         /\ \A b \in Actors, c \in Conns : Asked(b, c) => b = a /\ c = auth[a].c
         /\ Asking => \A c \in Conns : rd[c].pc = "verdict" => rd[c].to = a /\ auth[a].c = c
<1>1. \A b \in Actors : b # a => auth[b].pc \notin {"send", "await", "handed"}
                                 /\ watch.authWait # b
  BY AuthTypes DEF AuthPlace
<1>2. \A b \in Actors, c \in Conns : Asked(b, c) => b = a /\ c = auth[a].c
  BY <1>1 DEF Asked
<1>3. ASSUME Asking, NEW c \in Conns, rd[c].pc = "verdict" PROVE rd[c].to = a /\ auth[a].c = c
  <2>1. auth[rd[c].to].pc \in {"await", "handed"} /\ auth[rd[c].to].c = c /\ rd[c].to \in Actors
    BY <1>3, AuthTypes DEF AuthHands
  <2> QED
    BY <1>1, <2>1
<1> QED
  BY <1>1, <1>2, <1>3

\* authenticate returns: the deferred clean-up.
LEMMA AuthDone ==
  ASSUME ClientIndInv, NEW a \in Actors, NEW p \in {"ok", "refused", "failed"}, authDone(a, p)
  PROVE  /\ auth' \in [Actors -> AuthRec] /\ authMu' = Nobody /\ AuthConns'
         /\ auth'[a].pc \in {"idle", "ok", "refused", "failed"}
         /\ auth'[a].pc = "idle" \/ a = "sup"
         /\ \A b \in Actors : b # a => auth'[b] = auth[b]
<1>1. PICK s \in {"idle", "ok", "refused", "failed"} :
        /\ auth' = [auth EXCEPT ![a] = [pc |-> s, c |-> NoConn, w |-> NoConn, n |-> auth[a].n]]
        /\ s = "idle" \/ a = "sup"
  BY DEF authDone
<1>2. [pc |-> s, c |-> NoConn, w |-> NoConn, n |-> auth[a].n] \in AuthRec
  BY AuthTypes, Domains DEF AuthRec, NoConn
<1>3. /\ auth' \in [Actors -> AuthRec] /\ auth'[a].pc = s
      /\ \A b \in Actors : b # a => auth'[b] = auth[b]
  BY <1>1, <1>2, AuthTypes
<1>4. AuthConns'
  BY <1>3, AuthTypes DEF AuthConns
<1> QED
  BY <1>1, <1>3, <1>4 DEF authDone

\* What is left of AuthInv when an authenticate has returned.
LEMMA AuthDoneInv ==
  ASSUME ClientIndInv, NEW a \in Actors, NEW p \in {"ok", "refused", "failed"}, authDone(a, p),
         auth[a].pc \in {"send", "await", "handed"},
         UNCHANGED <<opts, cl, sup, link, rd, srvAuths>>,
         \A b \in Actors : b # a => wch'[b] = wch[b],
         watch' \in WatchRec, watch'.authWait \in {watch.authWait, Nobody} \ {a},
         watch'.sent = watch.sent,
         Asking => \A c \in Conns : rd[c].pc # "verdict",
         \A c \in Conns : c # auth[a].c => watch'.abandoned[c] = watch.abandoned[c],
         (Asking /\ link[auth[a].c] = "open")
            => Len(srvAuths[auth[a].c]) = watch'.abandoned[auth[a].c]
  PROVE  AuthInv'
<1>1. /\ auth' \in [Actors -> AuthRec] /\ authMu' = Nobody
      /\ auth'[a].pc \in {"idle", "ok", "refused", "failed"}
      /\ auth'[a].pc = "idle" \/ a = "sup"
      /\ \A b \in Actors : b # a => auth'[b] = auth[b]
  BY AuthDone
<1>2. /\ \A b \in Actors : b # a => auth[b].pc \notin {"send", "await", "handed"}
                                    /\ watch.authWait # b
      /\ \A b \in Actors, c \in Conns : Asked(b, c) => b = a /\ c = auth[a].c
  BY AuthAlone
<1>3. \A b \in Actors : watch'.authWait # b
  BY <1>2, Domains
<1>4. AuthPlace'
  <2>0. AuthPlace /\ cl' = cl /\ sup' = sup /\ link' = link
    BY AuthTypes
  <2>1. a = "sup" => sup.pc = "auth"
    BY <2>0 DEF AuthPlace
  <2>2. \A b \in Actors : auth'[b].pc \notin {"send", "await", "handed"}
    BY <1>1, <1>2
  <2>3. \A b \in Actors : auth'[b].pc \in {"watch", "lock"} => b # a /\ auth'[b] = auth[b]
    BY <1>1
  <2>4. \A b \in Actors : auth'[b].pc = "watch"
           => link'[auth'[b].c] # "none"
              /\ (link'[auth'[b].c] = "closed" \/ cl'.watch \in {NoConn, auth'[b].c})
    BY <2>0, <2>3 DEF AuthPlace
  <2>5. \A b \in Actors : auth'[b].pc \in {"lock", "send"}
           => link'[auth'[b].c] # "none"
              /\ (link'[auth'[b].c] = "closed" \/ auth'[b].w = auth'[b].c)
    BY <2>0, <2>2, <2>3 DEF AuthPlace
  <2>6. /\ cl'.watch # NoConn => link'[cl'.watch] # "none"
        /\ sup'.pc # "auth" => auth'["sup"].pc = "idle"
    BY <1>1, <2>0, <2>1, Domains DEF AuthPlace
  <2> QED
    BY <1>3, <2>2, <2>4, <2>5, <2>6 DEF AuthPlace
<1>5. \A b \in Actors, c \in Conns : ~Asked(b, c)'
  BY <1>3 DEF Asked
<1>6. ASSUME Asking PROVE AuthQueues'
  <2>1. auth[a].c \in Conns /\ link[auth[a].c] # "none"
    BY AuthTypes DEF AuthPlace
  <2> SUFFICES ASSUME NEW c \in Conns
               PROVE  /\ link[c] = "none" => srvAuths[c] = <<>> /\ watch'.sent[c] = 0
                                              /\ watch'.abandoned[c] = 0
                      /\ link[c] = "open" => /\ watch'.sent[c] = Len(srvAuths[c])
                                             /\ Len(srvAuths[c]) = watch'.abandoned[c]
    BY <1>5 DEF AuthQueues
  <2>2. CASE c = auth[a].c
    BY <1>6, <2>1, <2>2, AuthTypes DEF AuthQueues
  <2>3. CASE c # auth[a].c
    BY <1>2, <1>6, <2>3, AuthTypes DEF AuthQueues
  <2> QED
    BY <2>2, <2>3
<1>7. ASSUME Asking PROVE AuthHands'
  BY <1>1, <1>2, <1>7 DEF AuthHands
<1> QED
  BY <1>4, <1>6, <1>7 DEF AuthInv, Asking

\* wait <- verdict: the verdict that was taken is the one its actor waits for.
LEMMA VerdictGivenKeeps == ASSUME ClientIndInv, NEW c \in Conns, verdictGiven(c) PROVE Keeps
<1> DEFINE b == rd[c].to
<1>0. /\ rd \in [Conns -> ReaderRec] /\ rd[c].pc = "verdict" /\ wch \in [Actors -> WaitRec]
      /\ b \in Actors /\ rd[c].res \in {"ok", "refused"} /\ rd[c].frame \in Frames \cup {<<>>}
  BY DEF ClientIndInv, TypeInv, TypeOK, ReaderHands, ReaderRec, verdictGiven
<1>1. /\ rd' \in [Conns -> ReaderRec] /\ rd'[c].pc = "reading"
      /\ \A d \in Conns : d # c => rd'[d] = rd[d]
  BY <1>0 DEF verdictGiven, Resume, Idle, Hand, ReaderRec, Nobody, Results, Errors
<1>2. /\ wch' \in [Actors -> WaitRec] /\ wch'[b].frame = rd[c].frame
      /\ \A a \in Actors : a # b => wch'[a] = wch[a]
  BY <1>0 DEF verdictGiven, WaitRec
<1>3. UNCHANGED <<opts, cl, sd, sup, supGive, link, auth, authMu, watch, srvAuths, srvReqs,
                  pending, call, ch>>
  BY DEF verdictGiven, callVars
<1>4. GivesKept /\ VerdictsKept /\ LinksFade
  BY <1>0, <1>1, <1>3, Kept DEF GivesKept, VerdictsKept
<1>5. TypeInv'
  <2>1. ReaderHands'
    BY <1>1 DEF ClientIndInv, TypeInv, ReaderHands
  <2> QED
    BY <1>1, <1>2, <1>3, <2>1 DEF ClientIndInv, TypeInv, TypeOK, AuthConns, SupConn
<1>6. SupInv'
  BY <1>0, <1>1, <1>3, <1>4, ReaderMoves
<1>7. ClientInv' /\ EndStep
  BY <1>3, Kept, ClientMoves DEF ClientIndInv, ClientInv
<1>8. CallInv'
  BY <1>3, <1>4, Kept, CallKept DEF ClientIndInv
<1>9. AuthPlace'
  BY <1>3 DEF ClientIndInv, AuthInv, AuthPlace
<1>10. ASSUME Asking PROVE AuthQueues' /\ AuthHands'
  <2>1. AuthQueues'
    BY <1>3, <1>10 DEF ClientIndInv, AuthInv, AuthQueues, Asked
  <2>2. AuthHands
    BY <1>10 DEF ClientIndInv, AuthInv
  <2>3. \A d \in Conns : rd'[d].pc # "verdict"
    <3>1. \A d \in Conns : rd[d].pc = "verdict" => d = c
      BY <1>0, ReaderIsSups
    <3> QED
      BY <1>1, <3>1
  <2>4. /\ auth[b].pc \in {"await", "handed"} /\ watch.authWait # b
        /\ rd[c].frame = <<b, auth[b].c, auth[b].n>>
    BY <1>0, <2>2 DEF AuthHands
  <2>5. ASSUME NEW a \in Actors, auth[a].pc \in {"send", "await", "handed"}, wch'[a].res # "none"
        PROVE  auth[a].pc # "send" /\ watch.authWait # a
               /\ wch'[a].frame = <<a, auth[a].c, auth[a].n>>
    <3>1. CASE a = b
      BY <1>2, <2>4, <3>1
    <3>2. CASE a # b
      BY <1>2, <2>2, <2>5, <3>2 DEF AuthHands
    <3> QED
      BY <3>1, <3>2
  <2>6. \A a \in Actors : auth[a].pc = "send" => watch.authWait = a
    BY <2>2 DEF AuthHands
  <2> QED
    BY <1>3, <2>1, <2>3, <2>5, <2>6 DEF AuthHands
<1>11. AuthInv'
  BY <1>3, <1>9, <1>10 DEF AuthInv, Asking
<1> QED
  BY <1>5, <1>6, <1>7, <1>8, <1>11 DEF Keeps, ClientIndInv

\* RefreshAuth finds the current connection, or gives up on a closed client.
LEMMA RefreshAuthKeeps == ASSUME ClientIndInv, NEW a \in Actors, RefreshAuth(a) PROVE Keeps
<1>0. /\ a # "sup" /\ auth[a].pc = "idle" /\ auth \in [Actors -> AuthRec]
      /\ UNCHANGED <<opts, cl, sd, sup, supGive, link, rd, authMu, wch, watch, srvAuths, callVars>>
  BY AuthTypes, ClientAssumption DEF RefreshAuth, Actors
<1>1. /\ opts.refreshes \in 0..MaxRefresh /\ MaxRefresh \in Nat
      /\ auth[a].n \in 0..MaxRefresh /\ auth[a].n < opts.refreshes
  BY <1>0, ClientAssumption, Domains DEF RefreshAuth, ClientIndInv, TypeInv, TypeOK, Options, AuthRec
<1>2. PICK r \in AuthRec :
        /\ auth' = [auth EXCEPT ![a] = r]
        /\ \/ r.pc = "idle"
           \/ r.pc = "watch" /\ r.c = cl.conn /\ cl.conn # NoConn
  <2>1. CASE cl.conn # NoConn
             /\ auth' = [auth EXCEPT ![a] = [pc |-> "watch", c |-> cl.conn, w |-> NoConn,
                                             n |-> auth[a].n + 1]]
    <3>1. cl.conn \in 0..MaxConns /\ NoConn \in 0..MaxConns
      BY Kept, Domains DEF ClientRec, NoConn
    <3>2. auth[a].n + 1 \in 0..MaxRefresh
      BY <1>1
    <3> DEFINE t == [pc |-> "watch", c |-> cl.conn, w |-> NoConn, n |-> auth[a].n + 1]
    <3>3. t \in AuthRec /\ t.pc = "watch" /\ t.c = cl.conn /\ auth' = [auth EXCEPT ![a] = t]
      BY <2>1, <3>1, <3>2 DEF AuthRec
    <3> HIDE DEF t
    <3> QED
      BY <2>1, <3>3
  <2>2. CASE auth' = [auth EXCEPT ![a].n = opts.refreshes]
    <3>1. [auth[a] EXCEPT !.n = opts.refreshes] \in AuthRec
          /\ [auth[a] EXCEPT !.n = opts.refreshes].pc = "idle"
      BY <1>0, <1>1 DEF AuthRec
    <3>2. auth' = [auth EXCEPT ![a] = [auth[a] EXCEPT !.n = opts.refreshes]]
      BY <1>0, <2>2
    <3> QED
      BY <3>1, <3>2
  <2> QED
    BY <2>1, <2>2 DEF RefreshAuth
<1>3. auth' \in [Actors -> AuthRec] /\ auth'[a] = r /\ \A b \in Actors : b # a => auth'[b] = auth[b]
  BY <1>0, <1>2
<1>4. cl.conn # NoConn => cl.conn \in Conns /\ link[cl.conn] # "none" /\ cl.watch = cl.conn
  <2>1. cl.conn # NoConn => cl.conn = sup.c /\ cl.watch = cl.conn
                            /\ sup.pc \in {"marked", "spawn", "up", "drop"}
    BY DEF ClientIndInv, ClientInv
  <2> QED
    BY <2>1, SupHas
<1>5. AuthConns'
  BY <1>2, <1>3, <1>4, AuthTypes DEF AuthConns
<1>6. AuthPlace'
  <2>1. /\ AuthPlace /\ cl' = cl /\ sup' = sup /\ link' = link /\ authMu' = authMu
        /\ watch' = watch /\ watch.authWait # a
    BY <1>0, AuthTypes DEF AuthPlace
  <2> QED
    BY <1>0, <1>2, <1>3, <1>4, <2>1 DEF AuthPlace
<1>7. Asking => AuthQueues' /\ AuthHands'
  BY <1>0, <1>2, <1>3, Kept, QuietAuth DEF ClientIndInv
<1>8. AuthInv'
  BY <1>0, <1>6, <1>7 DEF AuthInv, Asking
<1> QED
  BY <1>0, <1>3, <1>5, <1>8, AuthTypes, AuthSteps

\* RefreshAuth reads the watch: that of its connection, or its connection is over.
LEMMA RefreshWatchKeeps == ASSUME ClientIndInv, NEW a \in Actors, refreshWatch(a) PROVE Keeps
<1>0. /\ auth[a].pc = "watch" /\ auth \in [Actors -> AuthRec] /\ auth[a] \in AuthRec
      /\ UNCHANGED <<opts, cl, sd, sup, supGive, link, rd, authMu, wch, watch, srvAuths, callVars>>
  BY AuthTypes DEF refreshWatch
<1>1. cl.watch \in 0..MaxConns /\ NoConn \in 0..MaxConns
      /\ (cl.watch # NoConn => cl.watch \in Conns)
  BY Kept, Domains DEF ClientRec, NoConn, Conns
<1>2. PICK r \in AuthRec :
        /\ auth' = [auth EXCEPT ![a] = r]
        /\ \/ r.pc = "idle"
           \/ r.pc = "lock" /\ r.c = auth[a].c /\ r.w = cl.watch /\ cl.watch # NoConn
  <2>1. CASE cl.watch = NoConn
    <3>1. [auth[a] EXCEPT !.pc = "idle", !.c = NoConn] \in AuthRec
          /\ [auth[a] EXCEPT !.pc = "idle", !.c = NoConn].pc = "idle"
      BY <1>0, <1>1 DEF AuthRec
    <3> QED
      BY <2>1, <3>1, <1>0 DEF refreshWatch
  <2>2. CASE cl.watch # NoConn
    <3> DEFINE t == [auth[a] EXCEPT !.pc = "lock", !.w = cl.watch]
    <3>1. t \in AuthRec /\ t.pc = "lock" /\ t.c = auth[a].c /\ t.w = cl.watch
      BY <1>0, <1>1 DEF AuthRec
    <3>2. auth' = [auth EXCEPT ![a] = t]
      BY <2>2, <1>0 DEF refreshWatch
    <3> HIDE DEF t
    <3> QED
      BY <2>2, <3>1, <3>2
  <2> QED
    BY <2>1, <2>2
<1>3. auth' \in [Actors -> AuthRec] /\ auth'[a] = r /\ \A b \in Actors : b # a => auth'[b] = auth[b]
  BY <1>0, <1>2
<1>4. /\ auth[a].c \in Conns /\ link[auth[a].c] # "none"
      /\ link[auth[a].c] = "closed" \/ cl.watch \in {NoConn, auth[a].c}
  BY <1>0, AuthTypes DEF AuthPlace
<1>5. AuthConns'
  BY <1>1, <1>2, <1>3, <1>4, AuthTypes DEF AuthConns
<1>6. AuthPlace'
  <2>1. /\ AuthPlace /\ cl' = cl /\ sup' = sup /\ link' = link /\ authMu' = authMu
        /\ watch' = watch /\ watch.authWait # a
    BY <1>0, AuthTypes DEF AuthPlace
  <2>2. a = "sup" => sup.pc = "auth"
    BY <1>0, <2>1 DEF AuthPlace
  <2> QED
    BY <1>0, <1>2, <1>3, <1>4, <2>1, <2>2 DEF AuthPlace
<1>7. Asking => AuthQueues' /\ AuthHands'
  BY <1>0, <1>2, <1>3, Kept, QuietAuth DEF ClientIndInv
<1>8. AuthInv'
  BY <1>0, <1>6, <1>7 DEF AuthInv, Asking
<1> QED
  BY <1>0, <1>3, <1>5, <1>8, AuthTypes, AuthSteps

\* authMu is taken and the wait channel published: nobody else has asked.
LEMMA AuthenticateKeeps == ASSUME ClientIndInv, NEW a \in Actors, authenticate(a) PROVE Keeps
<1>0. /\ auth[a].pc = "lock" /\ authMu = Nobody /\ a # Nobody /\ authMu' = a
      /\ auth \in [Actors -> AuthRec] /\ wch \in [Actors -> WaitRec] /\ watch \in WatchRec
      /\ UNCHANGED <<opts, cl, sd, sup, supGive, link, rd, srvAuths, callVars>>
  BY AuthTypes, Domains DEF authenticate
<1>1. /\ auth' \in [Actors -> AuthRec] /\ auth'[a].pc = "send" /\ auth'[a].c = auth[a].c
      /\ auth'[a].w = auth[a].w /\ \A b \in Actors : b # a => auth'[b] = auth[b]
  BY <1>0 DEF authenticate, AuthRec
<1>2. /\ wch' \in [Actors -> WaitRec] /\ wch'[a].res = "none"
      /\ \A b \in Actors : b # a => wch'[b] = wch[b]
  BY <1>0 DEF authenticate, WaitRec
<1>3. /\ watch' \in WatchRec /\ watch'.authWait = a /\ watch'.sent = watch.sent
      /\ watch'.abandoned = watch.abandoned
  BY <1>0 DEF authenticate, WatchRec
<1>4. AuthConns'
  BY <1>0, <1>1, AuthTypes DEF AuthConns
<1>5. \A b \in Actors : auth[b].pc \notin {"send", "await", "handed"}
  BY <1>0, AuthTypes, Domains DEF AuthPlace
<1>6. \A b \in Actors, c \in Conns : ~Asked(b, c) /\ ~Asked(b, c)'
  BY <1>1, <1>5 DEF Asked
<1>7. AuthPlace'
  <2>1. AuthPlace /\ cl' = cl /\ sup' = sup /\ link' = link
    BY <1>0, AuthTypes
  <2>2. a = "sup" => sup.pc = "auth"
    BY <1>0, <2>1 DEF AuthPlace
  <2>3. /\ \A b \in Actors : auth'[b].pc \in {"send", "await", "handed"} => authMu' = b
        /\ \A b \in Actors : watch'.authWait = b => auth'[b].pc \in {"send", "await"}
        /\ \A b \in Actors : auth'[b].pc \notin {"await", "handed"}
    BY <1>0, <1>1, <1>3, <1>5
  <2>4. \A b \in Actors : auth'[b].pc = "watch"
           => link'[auth'[b].c] # "none"
              /\ (link'[auth'[b].c] = "closed" \/ cl'.watch \in {NoConn, auth'[b].c})
    BY <1>1, <2>1 DEF AuthPlace
  <2>5. \A b \in Actors : auth'[b].pc \in {"lock", "send"}
           => link'[auth'[b].c] # "none"
              /\ (link'[auth'[b].c] = "closed" \/ auth'[b].w = auth'[b].c)
    BY <1>0, <1>1, <2>1 DEF AuthPlace
  <2>6. /\ cl'.watch # NoConn => link'[cl'.watch] # "none"
        /\ sup'.pc # "auth" => auth'["sup"].pc = "idle"
    BY <1>1, <2>1, <2>2, Domains DEF AuthPlace
  <2> QED
    BY <2>3, <2>4, <2>5, <2>6 DEF AuthPlace
<1>8. ASSUME Asking PROVE AuthQueues' /\ AuthHands'
  <2>1. AuthQueues /\ AuthHands
    BY <1>8, AuthTypes
  <2>2. AuthQueues'
    BY <1>0, <1>3, <1>6, <2>1 DEF AuthQueues
  <2>3. \A c \in Conns : rd[c].pc # "verdict"
    BY <1>5, <2>1, AuthTypes DEF AuthHands
  <2>4. AuthHands'
    BY <1>0, <1>1, <1>2, <1>3, <1>5, <2>3 DEF AuthHands
  <2> QED
    BY <2>2, <2>4
<1>9. AuthInv'
  BY <1>0, <1>7, <1>8 DEF AuthInv, Asking
<1> QED
  BY <1>0, <1>1, <1>2, <1>3, <1>4, <1>9, AuthTypes, AuthSteps

\* authenticate gives the wait channel back, if it still holds it.
LEMMA WaitReleased ==
  ASSUME ClientIndInv, NEW a \in Actors,
         watch' = [watch EXCEPT !.authWait = IF @ = a THEN Nobody ELSE @]
  PROVE  /\ watch' \in WatchRec /\ watch'.authWait \in {watch.authWait, Nobody} \ {a}
         /\ watch'.sent = watch.sent /\ watch'.abandoned = watch.abandoned
<1>1. PICK w \in {watch.authWait, Nobody} \ {a} : watch' = [watch EXCEPT !.authWait = w]
  BY Domains
<1>2. w \in Actors \cup {Nobody} /\ watch \in WatchRec
  BY AuthTypes DEF WatchRec
<1> QED
  BY <1>1, <1>2 DEF WatchRec

\* The auth frame is sent on the connection whose watch counts it, and is the
\* last the server will answer; or the write fails and nothing was asked.
LEMMA AuthSendKeeps == ASSUME ClientIndInv, NEW a \in Actors, authSend(a) PROVE Keeps
<1> DEFINE c == auth[a].c
<1>0. /\ auth[a].pc = "send" /\ auth \in [Actors -> AuthRec] /\ watch \in WatchRec
      /\ srvAuths \in [Conns -> Seq(Frames)] /\ c \in Conns /\ wch \in [Actors -> WaitRec]
      /\ UNCHANGED <<opts, cl, sd, sup, supGive, link, rd, wch, callVars>>
  BY AuthTypes DEF authSend
<1>1. /\ \A b \in Actors : b # a => auth[b].pc \notin {"send", "await", "handed"}
                                    /\ watch.authWait # b
      /\ \A b \in Actors, d \in Conns : ~Asked(b, d)
  BY <1>0, AuthAlone DEF Asked
<1>2. Asking => \A d \in Conns : rd[d].pc # "verdict"
  BY <1>0, <1>1, AuthTypes DEF AuthHands
<1>3. CASE /\ link[c] \in {"open", "broken"}
           /\ watch' = [watch EXCEPT !.sent[auth[a].w] = @ + 1]
           /\ srvAuths' = [srvAuths EXCEPT ![c] = IF link[c] = "open"
                                                    THEN Append(@, <<a, c, auth[a].n>>) ELSE @]
           /\ auth' = [auth EXCEPT ![a].pc = "await"]
           /\ UNCHANGED authMu
  <2>1. auth[a].w = c /\ watch.authWait \in Actors \cup {Nobody}
    BY <1>0, <1>3, AuthTypes DEF AuthPlace, WatchRec
  <2>2. PICK n \in Nat : n = watch.sent[c] + 1
    BY <1>0 DEF WatchRec
  <2>3. watch' = [watch EXCEPT !.sent[c] = n]
    BY <1>3, <2>1, <2>2
  <2>4. /\ watch' \in WatchRec /\ watch'.authWait = watch.authWait
        /\ watch'.abandoned = watch.abandoned /\ watch'.sent[c] = n
        /\ \A d \in Conns : d # c => watch'.sent[d] = watch.sent[d]
    BY <1>0, <2>3 DEF WatchRec
  <2>5. /\ auth' \in [Actors -> AuthRec] /\ auth'[a].pc = "await" /\ auth'[a].c = c
        /\ auth'[a].w = c /\ auth'[a].n = auth[a].n /\ \A b \in Actors : b # a => auth'[b] = auth[b]
    BY <1>0, <1>3, <2>1 DEF AuthRec
  <2>6. <<a, c, auth[a].n>> \in Frames
    BY <1>0 DEF AuthRec, Frames
  <2>7. PICK s \in Seq(Frames) :
          s = IF link[c] = "open" THEN Append(srvAuths[c], <<a, c, auth[a].n>>) ELSE srvAuths[c]
    <3>1. srvAuths[c] \in Seq(Frames)
      BY <1>0
    <3>2. Append(srvAuths[c], <<a, c, auth[a].n>>) \in Seq(Frames)
      BY <2>6, <3>1
    <3> QED
      BY <3>1, <3>2
  <2>8. /\ srvAuths' \in [Conns -> Seq(Frames)] /\ srvAuths'[c] = s
        /\ \A d \in Conns : d # c => srvAuths'[d] = srvAuths[d]
    BY <1>0, <1>3, <2>7
  <2>9. AuthConns'
    BY <1>0, <2>5, AuthTypes DEF AuthConns
  <2>10. AuthPlace'
    <3>1. AuthPlace /\ cl' = cl /\ sup' = sup /\ link' = link /\ authMu' = authMu /\ authMu = a
      BY <1>0, <1>3, AuthTypes DEF AuthPlace
    <3>2. (a = "sup" => sup.pc = "auth") /\ link[c] # "none"
      BY <1>0, <3>1 DEF AuthPlace
    <3>3. /\ \A b \in Actors : auth'[b].pc \in {"send", "await", "handed"} => authMu' = b
          /\ \A b \in Actors : watch'.authWait = b => auth'[b].pc \in {"send", "await"}
      BY <1>1, <2>4, <2>5, <3>1
    <3>4. \A b \in Actors : auth'[b].pc = "watch"
             => link'[auth'[b].c] # "none"
                /\ (link'[auth'[b].c] = "closed" \/ cl'.watch \in {NoConn, auth'[b].c})
      BY <2>5, <3>1 DEF AuthPlace
    <3>5. \A b \in Actors : auth'[b].pc \in {"lock", "send"}
             => link'[auth'[b].c] # "none"
                /\ (link'[auth'[b].c] = "closed" \/ auth'[b].w = auth'[b].c)
      BY <2>5, <3>1 DEF AuthPlace
    <3>6. \A b \in Actors : auth'[b].pc \in {"await", "handed"}
             => link'[auth'[b].c] # "none" /\ auth'[b].w = auth'[b].c
      BY <1>1, <2>5, <3>1, <3>2
    <3>7. /\ cl'.watch # NoConn => link'[cl'.watch] # "none"
          /\ sup'.pc # "auth" => auth'["sup"].pc = "idle"
      BY <2>5, <3>1, <3>2, Domains DEF AuthPlace
    <3> QED
      BY <3>3, <3>4, <3>5, <3>6, <3>7 DEF AuthPlace
  <2>11. ASSUME Asking PROVE AuthQueues' /\ AuthHands'
    <3>1. AuthQueues /\ AuthHands /\ watch.authWait = a /\ wch[a].res = "none"
      BY <1>0, <2>11, AuthTypes DEF AuthHands
    <3>2. \A b \in Actors, d \in Conns : Asked(b, d)' <=> (b = a /\ d = c)
      BY <1>1, <2>4, <2>5, <3>1 DEF Asked
    <3>3. AuthQueues'
      <4> SUFFICES ASSUME NEW d \in Conns
                   PROVE  /\ link[d] = "none" => srvAuths'[d] = <<>> /\ watch'.sent[d] = 0
                                                  /\ watch'.abandoned[d] = 0
                          /\ link[d] = "open" =>
                               /\ watch'.sent[d] = Len(srvAuths'[d])
                               /\ d # c => Len(srvAuths'[d]) = watch'.abandoned[d]
                               /\ d = c =>
                                    /\ Len(srvAuths'[d]) = watch'.abandoned[d] + 1
                                    /\ srvAuths'[d][Len(srvAuths'[d])] = <<a, d, auth'[a].n>>
        BY <1>0, <3>2 DEF AuthQueues
      <4>1. CASE d = c
        <5>1. CASE link[c] = "open"
          <6>1. watch.sent[c] = Len(srvAuths[c]) /\ Len(srvAuths[c]) = watch.abandoned[c]
            BY <1>0, <1>1, <3>1, <5>1 DEF AuthQueues
          <6>2. srvAuths'[c] = Append(srvAuths[c], <<a, c, auth[a].n>>) /\ srvAuths[c] \in Seq(Frames)
            BY <1>0, <2>7, <2>8, <5>1
          <6>3. Len(srvAuths'[c]) = Len(srvAuths[c]) + 1
                /\ srvAuths'[c][Len(srvAuths'[c])] = <<a, c, auth[a].n>>
            <7>1. ASSUME NEW S, NEW t \in Seq(S), NEW f \in S
                  PROVE  Len(Append(t, f)) = Len(t) + 1 /\ Append(t, f)[Len(t) + 1] = f
              OBVIOUS
            <7> QED
              BY <2>6, <6>2, <7>1
          <6> QED
            BY <2>2, <2>4, <2>5, <4>1, <5>1, <6>1, <6>3
        <5>2. CASE link[c] = "broken"
          BY <4>1, <5>2
        <5> QED
          BY <1>3, <5>1, <5>2
      <4>2. CASE d # c
        BY <1>1, <2>4, <2>8, <3>1, <4>2 DEF AuthQueues
      <4> QED
        BY <4>1, <4>2
    <3>4. AuthHands'
      <4>1. (\A d \in Conns : rd'[d].pc # "verdict") /\ wch' = wch
        BY <1>0, <1>2, <2>11
      <4>2. \A b \in Actors : auth'[b].pc \in {"send", "await", "handed"} =>
              b = a /\ auth'[b].pc = "await"
        BY <1>1, <2>5
      <4> QED
        BY <3>1, <4>1, <4>2 DEF AuthHands
    <3> QED
      BY <3>3, <3>4
  <2>12. AuthInv'
    BY <1>0, <2>10, <2>11 DEF AuthInv, Asking
  <2>13. authMu' \in Actors \cup {Nobody} /\ wch' \in [Actors -> WaitRec]
    BY <1>0, <1>3, AuthTypes
  <2> HIDE DEF c
  <2> QED
    BY <1>0, <2>4, <2>5, <2>8, <2>9, <2>12, <2>13, AuthSteps
<1>4. CASE /\ link[c] \in {"broken", "closed"}
           /\ watch' = [watch EXCEPT !.authWait = IF @ = a THEN Nobody ELSE @]
           /\ authDone(a, "failed")
           /\ UNCHANGED srvAuths
  <2>1. /\ watch' \in WatchRec /\ watch'.authWait \in {watch.authWait, Nobody} \ {a}
        /\ watch'.sent = watch.sent /\ watch'.abandoned = watch.abandoned
    BY <1>4, WaitReleased
  <2>2. auth' \in [Actors -> AuthRec] /\ authMu' = Nobody /\ AuthConns'
    BY <1>4, AuthDone
  <2>3. AuthInv'
    BY <1>0, <1>2, <1>4, <2>1, AuthDoneInv
  <2> QED
    BY <1>0, <1>4, <2>1, <2>2, <2>3, AuthSteps
<1> QED
  BY <1>3, <1>4 DEF authSend

\* The verdict is taken off the wait channel: no other is under way.
LEMMA AuthAnsweredKeeps == ASSUME ClientIndInv, NEW a \in Actors, authAnswered(a) PROVE Keeps
<1>0. /\ auth[a].pc \in {"await", "handed"} /\ wch[a].res # "none"
      /\ wch \in [Actors -> WaitRec] /\ authDone(a, wch[a].res)
      /\ UNCHANGED <<opts, cl, sd, sup, supGive, link, rd, srvAuths, callVars>>
  BY AuthTypes DEF authAnswered
<1>1. wch[a].res \in {"ok", "refused", "failed"}
  BY <1>0 DEF WaitRec
<1>2. /\ watch' \in WatchRec /\ watch'.authWait \in {watch.authWait, Nobody} \ {a}
      /\ watch'.sent = watch.sent /\ watch'.abandoned = watch.abandoned
  BY WaitReleased DEF authAnswered
<1>3. wch' \in [Actors -> WaitRec] /\ \A b \in Actors : b # a => wch'[b] = wch[b]
  BY <1>0 DEF authAnswered, WaitRec
<1>4. auth' \in [Actors -> AuthRec] /\ authMu' = Nobody /\ AuthConns'
  BY <1>0, <1>1, AuthDone
<1>5. Asking => \A c \in Conns : rd[c].pc # "verdict"
  BY <1>0, AuthTypes, AuthAlone DEF AuthHands
<1>6. (Asking /\ link[auth[a].c] = "open")
         => Len(srvAuths[auth[a].c]) = watch'.abandoned[auth[a].c]
  <2> SUFFICES ASSUME Asking, link[auth[a].c] = "open"
               PROVE  Len(srvAuths[auth[a].c]) = watch.abandoned[auth[a].c]
    BY <1>2
  <2>1. auth[a].c \in Conns /\ watch.authWait # a /\ AuthQueues
    BY <1>0, AuthTypes DEF AuthHands
  <2>2. \A b \in Actors : ~Asked(b, auth[a].c)
    BY <1>0, <2>1, AuthAlone DEF Asked
  <2> QED
    BY <2>1, <2>2 DEF AuthQueues
<1>7. AuthInv'
  BY <1>0, <1>1, <1>2, <1>3, <1>5, <1>6, AuthDoneInv
<1>8. srvAuths' \in [Conns -> Seq(Frames)] /\ authMu' \in Actors \cup {Nobody}
  BY <1>0, <1>4, AuthTypes
<1> QED
  BY <1>0, <1>2, <1>3, <1>4, <1>7, <1>8, AuthSteps

\* The connection is lost during auth: its reader has ended, its link is closed.
LEMMA AuthLostKeeps == ASSUME ClientIndInv, NEW a \in Actors, authLost(a) PROVE Keeps
<1>0. /\ auth[a].pc = "await" /\ rd[auth[a].w].pc = "ended" /\ authDone(a, "failed")
      /\ UNCHANGED <<opts, cl, sd, sup, supGive, link, rd, wch, srvAuths, callVars>>
  BY DEF authLost
<1>1. auth[a].w = auth[a].c /\ auth[a].c \in Conns /\ link[auth[a].c] = "closed"
  <2>1. auth[a].w = auth[a].c /\ auth[a].c \in Conns
    BY <1>0, AuthTypes DEF AuthPlace
  <2> QED
    BY <1>0, <2>1 DEF ClientIndInv, SupInv
<1>2. /\ watch' \in WatchRec /\ watch'.authWait \in {watch.authWait, Nobody} \ {a}
      /\ watch'.sent = watch.sent /\ watch'.abandoned = watch.abandoned
  BY WaitReleased DEF authLost
<1>3. auth' \in [Actors -> AuthRec] /\ authMu' = Nobody /\ AuthConns'
  BY <1>0, AuthDone
<1>4. Asking => \A c \in Conns : rd[c].pc # "verdict"
  BY <1>0, <1>1, AuthAlone
<1>5. AuthInv'
  BY <1>0, <1>1, <1>2, <1>4, AuthDoneInv
<1>6. /\ srvAuths' \in [Conns -> Seq(Frames)] /\ authMu' \in Actors \cup {Nobody}
      /\ wch' \in [Actors -> WaitRec]
  BY <1>0, <1>3, AuthTypes
<1> QED
  BY <1>0, <1>2, <1>3, <1>5, <1>6, AuthSteps

\* The caller gives up: the verdict is counted as abandoned, or is already on
\* its way and is waited for.
LEMMA AuthGivesUpKeeps == ASSUME ClientIndInv, NEW a \in Actors, authGivesUp(a) PROVE Keeps
<1> DEFINE c == auth[a].c
<1>0. /\ auth[a].pc = "await" /\ c \in Conns /\ auth[a].w = c /\ watch \in WatchRec
      /\ auth \in [Actors -> AuthRec]
      /\ UNCHANGED <<opts, cl, sd, sup, supGive, link, rd, wch, srvAuths, callVars>>
  BY AuthTypes DEF authGivesUp, AuthPlace
<1>1. srvAuths' \in [Conns -> Seq(Frames)] /\ wch' \in [Actors -> WaitRec]
  BY <1>0, AuthTypes
<1>2. CASE watch.authWait = a
  <2>1. authDone(a, "failed")
        /\ watch' = [watch EXCEPT !.authWait = Nobody, !.abandoned[auth[a].w] = @ + 1]
    BY <1>2 DEF authGivesUp
  <2>2. PICK n \in Nat : n = watch.abandoned[c] + 1
    BY <1>0 DEF WatchRec
  <2>3. watch' = [watch EXCEPT !.authWait = Nobody, !.abandoned[c] = n]
    BY <1>0, <2>1, <2>2
  <2>4. /\ watch' \in WatchRec /\ watch'.authWait = Nobody /\ watch'.sent = watch.sent
        /\ watch'.abandoned[c] = n
        /\ \A d \in Conns : d # c => watch'.abandoned[d] = watch.abandoned[d]
    BY <1>0, <2>3 DEF WatchRec
  <2>5. auth' \in [Actors -> AuthRec] /\ authMu' = Nobody /\ AuthConns'
    BY <2>1, AuthDone
  <2>6. Asking => \A d \in Conns : rd[d].pc # "verdict"
    BY <1>0, <1>2, AuthTypes, AuthAlone DEF AuthHands
  <2>7. (Asking /\ link[c] = "open") => Len(srvAuths[c]) = watch'.abandoned[c]
    <3>1. Asked(a, c)
      BY <1>0, <1>2 DEF Asked
    <3>2. (Asking /\ link[c] = "open") => Len(srvAuths[c]) = watch.abandoned[c] + 1
      BY <1>0, <3>1, AuthTypes DEF AuthQueues
    <3> QED
      BY <2>2, <2>4, <3>2
  <2>8. watch'.authWait \in {watch.authWait, Nobody} \ {a}
    BY <2>4, Domains
  <2>9. AuthInv'
    <3>1. /\ \A b \in Actors : b # a => wch'[b] = wch[b]
          /\ auth[a].pc \in {"send", "await", "handed"} /\ "failed" \in {"ok", "refused", "failed"}
      BY <1>0
    <3> QED
      BY <1>0, <2>1, <2>4, <2>6, <2>7, <2>8, <3>1, AuthDoneInv
  <2> HIDE DEF c
  <2> QED
    BY <1>0, <1>1, <2>4, <2>5, <2>9, AuthSteps
<1>3. CASE watch.authWait # a
  <2>1. auth' = [auth EXCEPT ![a].pc = "handed"] /\ UNCHANGED <<watch, authMu>>
    BY <1>3 DEF authGivesUp
  <2>2. /\ auth' \in [Actors -> AuthRec] /\ auth'[a].pc = "handed" /\ auth'[a].c = c
        /\ auth'[a].w = c /\ auth'[a].n = auth[a].n
        /\ \A b \in Actors : b # a => auth'[b] = auth[b]
    BY <1>0, <2>1 DEF AuthRec
  <2>3. AuthConns'
    BY <1>0, <2>2, AuthTypes DEF AuthConns
  <2>4. /\ \A b \in Actors : b # a => auth[b].pc \notin {"send", "await", "handed"}
                                      /\ watch.authWait # b
        /\ \A b \in Actors, d \in Conns : ~Asked(b, d) /\ ~Asked(b, d)'
    <3>1. \A b \in Actors : b # a => auth[b].pc \notin {"send", "await", "handed"}
                                     /\ watch.authWait # b
      BY <1>0, AuthAlone
    <3>2. \A b \in Actors : watch.authWait # b /\ watch'.authWait # b
      BY <1>3, <2>1, <3>1
    <3> QED
      BY <3>1, <3>2 DEF Asked
  <2>5. AuthPlace'
    <3>1. /\ AuthPlace /\ cl' = cl /\ sup' = sup /\ link' = link /\ authMu' = authMu
          /\ watch' = watch
      BY <1>0, <2>1, AuthTypes
    <3>2. /\ a = "sup" => sup.pc = "auth"
          /\ link[c] # "none" /\ authMu = a
      BY <1>0, <3>1 DEF AuthPlace
    <3>3. /\ \A b \in Actors : auth'[b].pc \in {"send", "await", "handed"} => authMu' = b
          /\ \A b \in Actors : watch'.authWait # b
      BY <1>3, <2>2, <2>4, <3>1, <3>2
    <3>4. \A b \in Actors : auth'[b].pc = "watch"
             => link'[auth'[b].c] # "none"
                /\ (link'[auth'[b].c] = "closed" \/ cl'.watch \in {NoConn, auth'[b].c})
      BY <2>2, <3>1 DEF AuthPlace
    <3>5. \A b \in Actors : auth'[b].pc \in {"lock", "send"}
             => link'[auth'[b].c] # "none"
                /\ (link'[auth'[b].c] = "closed" \/ auth'[b].w = auth'[b].c)
      BY <2>2, <3>1 DEF AuthPlace
    <3>6. \A b \in Actors : auth'[b].pc \in {"await", "handed"}
             => link'[auth'[b].c] # "none" /\ auth'[b].w = auth'[b].c
      BY <2>2, <2>4, <3>1, <3>2
    <3>7. /\ cl'.watch # NoConn => link'[cl'.watch] # "none"
          /\ sup'.pc # "auth" => auth'["sup"].pc = "idle"
      BY <2>2, <3>1, <3>2, Domains DEF AuthPlace
    <3> QED
      BY <3>3, <3>4, <3>5, <3>6, <3>7 DEF AuthPlace
  <2>6. ASSUME Asking PROVE AuthQueues' /\ AuthHands'
    <3>0. AuthQueues /\ AuthHands /\ watch' = watch /\ rd' = rd /\ wch' = wch
          /\ link' = link /\ srvAuths' = srvAuths
      BY <1>0, <2>1, <2>6, AuthTypes
    <3>1. AuthQueues'
      BY <2>4, <3>0 DEF AuthQueues
    <3>2. \A d \in Conns : rd[d].pc = "verdict" => rd[d].to = a /\ d = c
      BY <1>0, <2>6, AuthAlone
    <3>3. AuthHands'
      BY <1>0, <2>2, <2>4, <3>0, <3>2 DEF AuthHands
    <3> QED
      BY <3>1, <3>3
  <2>7. AuthInv'
    BY <1>0, <2>5, <2>6 DEF AuthInv, Asking
  <2>8. watch' \in WatchRec /\ authMu' \in Actors \cup {Nobody}
    BY <1>0, <2>1, AuthTypes
  <2> HIDE DEF c
  <2> QED
    BY <1>0, <1>1, <2>2, <2>3, <2>7, <2>8, AuthSteps
<1> QED
  BY <1>2, <1>3

-----------------------------------------------------------------------------
(* Client.call.                                                            *)

\* A step of call k touches only what belongs to it.
LEMMA CallSteps ==
  ASSUME ClientIndInv, NEW k \in Calls,
         UNCHANGED <<opts, cl, sd, sup, supGive, link, rd, authVars>>,
         pending' \in SUBSET Calls, srvReqs' \in [Conns -> SUBSET Calls],
         call' \in [Calls -> CallRec], ch' \in [Calls -> Seq(Results)],
         \A j \in Calls : j # k => call'[j] = call[j] /\ ch'[j] = ch[j]
                                   /\ (j \in pending' <=> j \in pending),
         call'[k].pc \in {"idle", "wait", "register"} => Promised(k)' = 0,
         call'[k].pc \in {"send", "await", "mustTake"} => Promised(k)' = 1,
         Promised(k)' <= 1,
         call'[k].pc = "register" => call'[k].c # NoConn,
         k \in pending' => /\ call'[k].pc \in {"send", "await"}
                           /\ call'[k].c = cl.conn /\ cl.conn # NoConn
  PROVE  Keeps
<1>1. UNCHANGED <<opts, cl, sd, sup, supGive, link, rd, auth, authMu, wch, watch, srvAuths>>
  BY DEF authVars
<1>2. TypeInv'
  BY <1>1 DEF ClientIndInv, TypeInv, TypeOK, ReaderHands, AuthConns, SupConn
<1>3. SupInv'
  BY <1>1, Kept, SupKept DEF ClientIndInv
<1>4. ClientInv' /\ EndStep
  BY <1>1, Kept, ClientMoves DEF ClientIndInv, ClientInv
<1>5. AuthInv'
  <2>1. cl.watch \in 0..MaxConns /\ VerdictsKept
    BY <1>1, Kept DEF ClientRec, VerdictsKept
  <2> QED
    BY <1>1, <2>1, Kept, AuthKept DEF ClientIndInv
<1>6. \A j \in Calls : j # k => Promised(j)' = Promised(j)
  <2> SUFFICES ASSUME NEW j \in Calls, j # k PROVE Promised(j)' = Promised(j)
    OBVIOUS
  <2>1. Givers(j)' = Givers(j) /\ ch'[j] = ch[j] /\ sd' = sd /\ supGive' = supGive
        /\ (j \in pending') = (j \in pending)
    BY <1>1 DEF Givers
  <2> QED
    BY <2>1, PromisedIs, PromisedAfter
<1>7. CallInv'
  <2>0. CallInv /\ cl' = cl /\ sd' = sd /\ sup' = sup /\ supGive' = supGive
    BY <1>1 DEF ClientIndInv
  <2>1. ASSUME NEW j \in Calls
        PROVE  /\ call'[j].pc \in {"idle", "wait", "register"} => Promised(j)' = 0
               /\ call'[j].pc \in {"send", "await", "mustTake"} => Promised(j)' = 1
               /\ Promised(j)' <= 1
               /\ call'[j].pc = "register" => call'[j].c # NoConn
               /\ j \in pending' => /\ call'[j].pc \in {"send", "await"}
                                    /\ call'[j].c = cl'.conn /\ cl'.conn # NoConn
    <3>1. CASE j = k
      BY <2>0, <3>1
    <3>2. CASE j # k
      BY <1>6, <2>0, <3>2 DEF CallInv
    <3> QED
      BY <3>1, <3>2
  <2>2. (sd'.pc = "no" => sd'.give = {}) /\ (sup'.pc # "give" => supGive' = {})
    BY <2>0 DEF CallInv
  <2> QED
    BY <2>1, <2>2 DEF CallInv
<1> QED
  BY <1>2, <1>3, <1>4, <1>5, <1>7 DEF Keeps, ClientIndInv

\* What is known of a call.
LEMMA CallTypes ==
  ASSUME ClientIndInv, NEW k \in Calls
  PROVE  /\ call \in [Calls -> CallRec] /\ ch \in [Calls -> Seq(Results)]
         /\ pending \in SUBSET Calls /\ srvReqs \in [Conns -> SUBSET Calls]
         /\ call[k].pc \in {"idle", "wait", "register"} => Promised(k) = 0
         /\ call[k].pc \in {"send", "await", "mustTake"} => Promised(k) = 1
         /\ Promised(k) <= 1
         /\ call[k].pc = "register" => call[k].c # NoConn
         /\ k \in pending => /\ call[k].pc \in {"send", "await"}
                             /\ call[k].c = cl.conn /\ cl.conn # NoConn
BY DEF ClientIndInv, TypeInv, TypeOK, CallInv

\* A call that returns.
LEMMA CallReturns ==
  ASSUME ClientIndInv, NEW k \in Calls, Returns(k)
  PROVE  /\ call' \in [Calls -> CallRec] /\ call'[k].pc = "returned"
         /\ \A j \in Calls : j # k => call'[j] = call[j]
<1>1. [pc |-> "returned", c |-> NoConn] \in CallRec
  BY Domains DEF CallRec, NoConn
<1> QED
  BY <1>1, CallTypes DEF Returns

\* A call whose channel does not change, in the table or taken out of it.
LEMMA PromiseOf ==
  ASSUME ClientIndInv, NEW k \in Calls, UNCHANGED <<sd, supGive, rd, ch>>
  PROVE  /\ Promised(k) \in Nat /\ Promised(k)' \in Nat
         /\ (k \in pending' <=> k \in pending) => Promised(k)' = Promised(k)
         /\ k \in pending /\ k \notin pending' => Promised(k)' = Promised(k) - 1
         /\ k \notin pending /\ k \in pending' => Promised(k)' = Promised(k) + 1
<1>1. Givers(k)' = Givers(k)
  BY DEF Givers
<1>2. /\ Cardinality(Givers(k)) \in Nat /\ Len(ch[k]) \in Nat
      /\ One(k \in supGive) \in Nat /\ One(k \in sd.give) \in Nat
  BY PlacesCounted DEF ClientIndInv
<1>3. PICK n \in Nat : n = One(k \in supGive) + One(k \in sd.give) + Cardinality(Givers(k)) + Len(ch[k])
  BY <1>2
<1>4. One(k \in pending) \in Nat /\ One(k \in pending') \in Nat
  BY DEF One
<1>5. Promised(k) = One(k \in pending) + n
  <2>1. Promised(k) = One(k \in pending) + One(k \in supGive) + One(k \in sd.give)
                      + Cardinality(Givers(k)) + Len(ch[k])
    BY PromisedIs
  <2> QED
    BY SMTT(30), <1>2, <1>3, <1>4, <2>1
<1>6. Promised(k)' = One(k \in pending') + n
  <2>1. Promised(k)' = One(k \in pending') + One(k \in supGive) + One(k \in sd.give)
                       + Cardinality(Givers(k)) + Len(ch[k])
    BY <1>1, PromisedAfter
  <2> QED
    BY SMTT(30), <1>2, <1>3, <1>4, <2>1
<1> QED
  BY <1>4, <1>5, <1>6 DEF One

\* A call finds the current connection, or returns.
LEMMA WaitConnectedKeeps == ASSUME ClientIndInv, NEW k \in Calls, waitConnected(k) PROVE Keeps
<1>0. /\ call[k].pc \in {"idle", "wait"} /\ Promised(k) = 0 /\ k \notin pending
      /\ UNCHANGED <<opts, cl, sd, sup, supGive, link, rd, authVars, pending, ch, srvReqs>>
  BY CallTypes DEF waitConnected
<1>1. Promised(k)' = 0 /\ Promised(k)' <= 1
  BY <1>0, PromiseOf
<1>2. CASE Returns(k)
  BY <1>0, <1>1, <1>2, CallReturns, CallTypes, CallSteps
<1>3. CASE cl.conn # NoConn /\ call' = [call EXCEPT ![k].pc = "register", ![k].c = cl.conn]
  <2>1. cl.conn \in 0..MaxConns
    BY Kept DEF ClientRec
  <2>2. /\ call' \in [Calls -> CallRec] /\ call'[k].pc = "register" /\ call'[k].c = cl.conn
        /\ \A j \in Calls : j # k => call'[j] = call[j]
    BY <1>3, <2>1, CallTypes DEF CallRec
  <2> QED
    BY <1>0, <1>1, <1>3, <2>2, CallTypes, CallSteps
<1> QED
  BY <1>2, <1>3 DEF waitConnected

\* The call is entered in the table of the connection that is current.
LEMMA CallRegistersKeeps == ASSUME ClientIndInv, NEW k \in Calls, callRegisters(k) PROVE Keeps
<1>0. /\ call[k].pc = "register" /\ Promised(k) = 0 /\ k \notin pending /\ call[k].c # NoConn
      /\ UNCHANGED <<opts, cl, sd, sup, supGive, link, rd, authVars, ch, srvReqs>>
  BY CallTypes DEF callRegisters
<1>1. CASE cl.conn # call[k].c
  <2>1. call' = [call EXCEPT ![k].pc = "wait"] /\ UNCHANGED pending
    BY <1>1 DEF callRegisters
  <2>2. /\ call' \in [Calls -> CallRec] /\ call'[k].pc = "wait"
        /\ \A j \in Calls : j # k => call'[j] = call[j]
    BY <2>1, CallTypes DEF CallRec
  <2>3. Promised(k)' = 0 /\ Promised(k)' <= 1
    BY <1>0, <2>1, PromiseOf
  <2> QED
    BY <1>0, <2>1, <2>2, <2>3, CallTypes, CallSteps
<1>2. CASE cl.conn = call[k].c
  <2>1. call' = [call EXCEPT ![k].pc = "send"] /\ pending' = pending \cup {k}
    BY <1>2 DEF callRegisters
  <2>2. /\ call' \in [Calls -> CallRec] /\ call'[k].pc = "send" /\ call'[k].c = call[k].c
        /\ \A j \in Calls : j # k => call'[j] = call[j]
    BY <2>1, CallTypes DEF CallRec
  <2>3. Promised(k)' = 1 /\ Promised(k)' <= 1
    BY <1>0, <2>1, PromiseOf
  <2>4. pending' \in SUBSET Calls /\ \A j \in Calls : j # k => (j \in pending' <=> j \in pending)
    BY <2>1, CallTypes
  <2> QED
    BY <1>0, <1>2, <2>2, <2>3, <2>4, CallTypes, CallSteps
<1> QED
  BY <1>1, <1>2

\* The request is written.
LEMMA CallSendsKeeps == ASSUME ClientIndInv, NEW k \in Calls, callSends(k) PROVE Keeps
<1>0. /\ call[k].pc = "send" /\ Promised(k) = 1
      /\ UNCHANGED <<opts, cl, sd, sup, supGive, link, rd, authVars, pending, ch>>
  BY CallTypes DEF callSends
<1>1. /\ call' \in [Calls -> CallRec] /\ call'[k].pc = "await" /\ call'[k].c = call[k].c
      /\ \A j \in Calls : j # k => call'[j] = call[j]
  BY CallTypes DEF callSends, CallRec
<1>2. srvReqs' \in [Conns -> SUBSET Calls]
  BY CallTypes DEF callSends
<1>3. Promised(k)' = 1
  BY <1>0, PromiseOf
<1> QED
  BY <1>0, <1>1, <1>2, <1>3, CallTypes, CallSteps

\* The call takes its entry back, and nobody else can.
LEMMA Taken ==
  ASSUME ClientIndInv, NEW k \in Calls, takePending(k), UNCHANGED <<sd, supGive, rd, ch>>
  PROVE  /\ pending' \in SUBSET Calls /\ k \notin pending'
         /\ \A j \in Calls : j # k => (j \in pending' <=> j \in pending)
         /\ Promised(k)' <= 1 /\ (k \notin pending => Promised(k)' = Promised(k))
<1>1. /\ pending' \in SUBSET Calls /\ k \notin pending'
      /\ \A j \in Calls : j # k => (j \in pending' <=> j \in pending)
  BY CallTypes DEF takePending
<1>2. Promised(k) <= 1
  BY CallTypes
<1>3. Promised(k)' <= 1 /\ (k \notin pending => Promised(k)' = Promised(k))
  BY <1>1, <1>2, PromiseOf
<1> QED
  BY <1>1, <1>3

\* The request is refused locally.
LEMMA CallTooLargeKeeps == ASSUME ClientIndInv, NEW k \in Calls, callTooLarge(k) PROVE Keeps
<1>0. /\ takePending(k) /\ Returns(k)
      /\ UNCHANGED <<opts, cl, sd, sup, supGive, link, rd, authVars, ch, srvReqs>>
  BY DEF callTooLarge
<1>1. /\ pending' \in SUBSET Calls /\ k \notin pending' /\ Promised(k)' <= 1
      /\ \A j \in Calls : j # k => (j \in pending' <=> j \in pending)
  BY <1>0, Taken
<1> QED
  BY <1>0, <1>1, CallReturns, CallTypes, CallSteps

\* The write fails: the call takes its entry back, or waits for who took it.
LEMMA CallSendFailsKeeps == ASSUME ClientIndInv, NEW k \in Calls, callSendFails(k) PROVE Keeps
<1>0. /\ takePending(k) /\ call[k].pc = "send" /\ Promised(k) = 1
      /\ UNCHANGED <<opts, cl, sd, sup, supGive, link, rd, authVars, ch, srvReqs>>
  BY CallTypes DEF callSendFails
<1>1. /\ pending' \in SUBSET Calls /\ k \notin pending' /\ Promised(k)' <= 1
      /\ \A j \in Calls : j # k => (j \in pending' <=> j \in pending)
      /\ k \notin pending => Promised(k)' = 1
  BY <1>0, Taken
<1>2. CASE k \in pending
  <2>1. Returns(k)
    BY <1>2 DEF callSendFails
  <2> QED
    BY <1>0, <1>1, <2>1, CallReturns, CallTypes, CallSteps
<1>3. CASE k \notin pending
  <2>0. call' = [call EXCEPT ![k].pc = "await"]
    BY <1>3 DEF callSendFails
  <2>1. /\ call' \in [Calls -> CallRec] /\ call'[k].pc = "await"
        /\ \A j \in Calls : j # k => call'[j] = call[j]
    BY <2>0, CallTypes DEF CallRec
  <2> QED
    BY <1>0, <1>1, <1>3, <2>1, CallTypes, CallSteps
<1> QED
  BY <1>2, <1>3

\* The one result is received: none is left anywhere.
LEMMA CallAnsweredKeeps == ASSUME ClientIndInv, NEW k \in Calls, callAnswered(k) PROVE Keeps
<1>0. /\ call[k].pc \in {"await", "mustTake"} /\ ch[k] # <<>> /\ Returns(k) /\ Promised(k) = 1
      /\ ch' = [ch EXCEPT ![k] = Tail(@)] /\ ch \in [Calls -> Seq(Results)]
      /\ UNCHANGED <<opts, cl, sd, sup, supGive, link, rd, authVars, pending, srvReqs>>
  BY CallTypes DEF callAnswered
<1>1. Len(ch[k]) \in Nat /\ Len(ch[k]) > 0 /\ Tail(ch[k]) \in Seq(Results)
      /\ Len(Tail(ch[k])) = Len(ch[k]) - 1
  BY <1>0, Answered
<1>2. /\ ch' \in [Calls -> Seq(Results)] /\ Len(ch'[k]) = Len(ch[k]) - 1
      /\ \A j \in Calls : j # k => ch'[j] = ch[j]
  BY <1>0, <1>1
<1>3. /\ Cardinality(Givers(k)) \in Nat /\ One(k \in pending) \in Nat
      /\ One(k \in supGive) \in Nat /\ One(k \in sd.give) \in Nat
  BY PlacesCounted DEF ClientIndInv
<1>4. 1 = One(k \in pending) + One(k \in supGive) + One(k \in sd.give)
          + Cardinality(Givers(k)) + Len(ch[k])
  BY <1>0, PromisedIs
<1>5. One(k \in pending) = 0
  BY <1>1, <1>3, <1>4
<1>6. Promised(k)' <= 1
  <2>1. Givers(k)' = Givers(k)
    BY <1>0 DEF Givers
  <2>2. Promised(k)' = One(k \in pending) + One(k \in supGive) + One(k \in sd.give)
                       + Cardinality(Givers(k)) + Len(ch'[k])
    BY <1>0, <2>1, PromisedAfter
  <2> QED
    BY <1>1, <1>2, <1>3, <1>4, <2>2
<1>7. k \notin pending
  BY <1>5 DEF One
<1> QED
  BY ZenonT(60), <1>0, <1>2, <1>6, <1>7, CallReturns, CallTypes, CallSteps

\* The caller's context ends: the entry is taken back, or the result that
\* raced the cancellation is on its way.
LEMMA CallCancelledKeeps == ASSUME ClientIndInv, NEW k \in Calls, callCancelled(k) PROVE Keeps
<1>0. /\ takePending(k) /\ call[k].pc = "await" /\ Promised(k) = 1
      /\ UNCHANGED <<opts, cl, sd, sup, supGive, link, rd, authVars, ch>>
  BY CallTypes DEF callCancelled
<1>1. /\ pending' \in SUBSET Calls /\ k \notin pending' /\ Promised(k)' <= 1
      /\ \A j \in Calls : j # k => (j \in pending' <=> j \in pending)
      /\ k \notin pending => Promised(k)' = 1
  BY <1>0, Taken
<1>2. CASE k \in pending
  <2>1. Returns(k) /\ srvReqs' \in [Conns -> SUBSET Calls]
    BY <1>2, CallTypes DEF callCancelled
  <2> QED
    BY ZenonT(60), <1>0, <1>1, <2>1, CallReturns, CallTypes, CallSteps
<1>3. CASE k \notin pending
  <2>1. /\ call' \in [Calls -> CallRec] /\ call'[k].pc = "mustTake" /\ UNCHANGED srvReqs
        /\ \A j \in Calls : j # k => call'[j] = call[j]
    BY ZenonT(60), <1>3, CallTypes DEF callCancelled, CallRec
  <2> QED
    BY <1>0, <1>1, <1>3, <2>1, CallTypes, CallSteps
<1> QED
  BY <1>2, <1>3

-----------------------------------------------------------------------------
(* Every step, and what follows.                                           *)

\* A step that changes nothing.
LEMMA StutterKeeps == ASSUME ClientIndInv, UNCHANGED vars PROVE Keeps
<1>1. UNCHANGED <<opts, cl, sd, sup, supGive, link, rd, authVars, callVars>>
  BY DEF vars, authVars, callVars
<1>2. TypeInv' /\ CallInv' /\ AuthInv'
  BY <1>1, Kept, SupMoves DEF ClientIndInv, TypeInv, SupConn
<1>3. SupInv'
  BY <1>1, Kept, SupKept DEF ClientIndInv
<1>4. ClientInv' /\ EndStep
  BY <1>1, Kept, ClientMoves DEF ClientIndInv, ClientInv
<1> QED
  BY <1>2, <1>3, <1>4 DEF Keeps, ClientIndInv

\* The steps of start, connect and run.
LEMMA SupervisorKeeps == ASSUME ClientIndInv, Supervisor PROVE Keeps
<1>1. CASE dial \/ dialFails \/ watchdog \/ firstError \/ firstFails
  BY <1>1, DialKeeps, DialFailsKeeps, WatchdogKeeps, FirstErrorKeeps, FirstFailsKeeps
<1>2. CASE \E v \in ServerMax : firstConfig(v)
  BY <1>2, FirstConfigKeeps
<1>3. CASE tokenOk \/ tokenFails \/ authReturns \/ unwind
  BY <1>3, TokenOkKeeps, TokenFailsKeeps, AuthReturnsKeeps, UnwindKeeps
<1>4. CASE markConnected \/ connected \/ failStart \/ spawn
  BY <1>4, MarkConnectedKeeps, ConnectedKeeps, FailStartKeeps, SpawnKeeps
<1>5. CASE runCancelled \/ runDrop \/ markDisconnected \/ disconnectedEnds
  BY <1>5, RunCancelledKeeps, RunDropKeeps, MarkDisconnectedKeeps, DisconnectedEndsKeeps
<1>6. CASE runDecide \/ runRejected \/ runBackoff \/ delayEnds \/ supEnds
  BY <1>6, RunDecideKeeps, RunRejectedKeeps, RunBackoffKeeps, DelayEndsKeeps, SupEndsKeeps
<1>7. CASE \E k \in Calls : disconnectedGives(k)
  BY <1>7, DisconnectedGivesKeeps
<1> QED
  BY <1>1, <1>2, <1>3, <1>4, <1>5, <1>6, <1>7 DEF Supervisor

\* The steps of a reader, and of the server and network it reads from.
LEMMA ReaderKeeps == ASSUME ClientIndInv, NEW c \in Conns, Reader(c) PROVE Keeps
<1>1. CASE Drop(c) \/ readFails(c) \/ readerGives(c) \/ readerReturns(c)
  BY <1>1, DropKeeps, ReadFailsKeeps, ReaderGivesKeeps, ReaderReturnsKeeps
<1>2. CASE connectionRejected(c) \/ authTimeout(c) \/ verdictGiven(c)
  BY <1>2, ConnectionRejectedKeeps, AuthTimeoutKeeps, VerdictGivenKeeps
<1>3. CASE \E v \in {"ok", "refused"} : authVerdict(c, v)
  BY <1>3, AuthVerdictKeeps
<1>4. ASSUME NEW k \in Calls,
             \/ deliverResult(c, k) \/ handleError(c, k)
             \/ handleBinary(c, k) \/ rejectStreamForCall(c, k)
      PROVE  Keeps
  BY <1>4, AnswersKeep
<1>5. ASSUME NEW k \in Calls, authRequired(c, k) PROVE Keeps
  BY <1>5, AuthRequiredKeeps
<1> QED
  BY <1>1, <1>2, <1>3, <1>4, <1>5 DEF Reader

\* Every step.
LEMMA NextKeeps == ASSUME ClientIndInv, [Next]_vars PROVE Keeps
<1>1. CASE Supervisor
  BY <1>1, SupervisorKeeps
<1>2. CASE Shutdown
  BY <1>2, CloseKeeps, ShutdownClosesKeeps, ShutdownEndsKeeps, ShutdownGivesKeeps DEF Shutdown
<1>3. ASSUME NEW c \in Conns, Reader(c) PROVE Keeps
  BY <1>3, ReaderKeeps
<1>4. ASSUME NEW a \in Actors, Authenticate(a) PROVE Keeps
  BY <1>4, RefreshAuthKeeps, RefreshWatchKeeps, AuthenticateKeeps, AuthSendKeeps,
     AuthAnsweredKeeps, AuthLostKeeps, AuthGivesUpKeeps DEF Authenticate
<1>5. ASSUME NEW k \in Calls, Caller(k) PROVE Keeps
  BY <1>5, WaitConnectedKeeps, CallRegistersKeeps, CallSendsKeeps, CallTooLargeKeeps,
     CallSendFailsKeeps, CallAnsweredKeeps, CallCancelledKeeps DEF Caller
<1>6. CASE UNCHANGED vars
  BY <1>6, StutterKeeps
<1> QED
  BY <1>1, <1>2, <1>3, <1>4, <1>5, <1>6 DEF Next

\* The inductive invariant holds in every reachable state, for any number of
\* calls, refreshers and connections and any options: connections come up one
\* after the other, the fields under Client.mu agree with the stage of shutdown
\* and of the supervisor, a call has one result promised, and the auth frames a
\* server owes are the abandoned ones and then the one that is asked.
THEOREM ClientInvariant == Spec => []ClientIndInv
<1>1. Init => ClientIndInv
  BY InitInv
<1>2. ClientIndInv /\ [Next]_vars => ClientIndInv'
  BY NextKeeps DEF Keeps
<1> QED
  BY <1>1, <1>2, PTL DEF Spec

\* "ch receives exactly one result" (client/call.go:32): whoever of the reader,
\* the drop, shutdown and the call itself takes a call out of Client.pending, a
\* call that waits has exactly one result promised or delivered, and no channel
\* of capacity one is ever sent a second.
THEOREM OneResultPerCall == Spec => []ExactlyOneResult
<1>1. ClientIndInv => ExactlyOneResult
  BY DEF ClientIndInv, CallInv, ExactlyOneResult
<1> QED
  BY <1>1, ClientInvariant, PTL

\* Client.pending holds only calls of the connection that is current, and the
\* ready channel is closed exactly while there is one: markDisconnected and
\* shutdown leave no call behind, markConnected never closes ready twice.
THEOREM TableIsCurrent == Spec => []TableFollowsConn
<1>1. ClientIndInv => PendingOnCurrent
  BY DEF ClientIndInv, TypeInv, TypeOK, CallInv, PendingOnCurrent
<1>2. ClientIndInv => TypeOK /\ ReadyMatchesConn
  BY DEF ClientIndInv, TypeInv, ClientInv, ReadyMatchesConn
<1> QED
  BY <1>1, <1>2, ClientInvariant, PTL DEF TableFollowsConn

\* A shutdown that comes at any point of start, connect or run cancels run, and
\* when the supervisor is over every socket is closed and every reader is done.
THEOREM ShutdownLeavesNothing == Spec => []ShutdownIsComplete
<1>1. ClientIndInv => ShutdownStopsRun
  BY DEF ClientIndInv, ClientInv, ShutdownStopsRun
<1>2. ClientIndInv => NothingLeftBehind
  <2> SUFFICES ASSUME ClientIndInv, sup.pc = "end", NEW c \in Conns
               PROVE  /\ cl.closed
                      /\ link[c] \in {"none", "closed"} /\ rd[c].pc \in {"none", "ended"}
    BY DEF NothingLeftBehind, ClientIndInv, ClientInv
  <2>1. cl.closed
    BY DEF ClientIndInv, ClientInv
  <2>2. c \in Nat /\ sup.c \in Nat
    BY Domains, Kept DEF SupRec
  <2>3. c > sup.c \/ c <= sup.c
    BY <2>2
  <2> QED
    BY <2>1, <2>3 DEF ClientIndInv, SupInv, Over, Between
<1> QED
  BY <1>1, <1>2, ClientInvariant, PTL DEF ShutdownIsComplete

\* The counts authSent and authAbandoned of a connWatch pair every verdict with
\* the authenticate whose frame it answers, also after callers gave up.
THEOREM VerdictsArePaired == Spec => []VerdictReachesItsCaller
<1>1. ClientIndInv => VerdictReachesItsCaller
  BY DEF ClientIndInv, AuthInv, AuthHands, Asking, VerdictReachesItsCaller
<1> QED
  BY <1>1, ClientInvariant, PTL

\* What has ended stays ended: no connection is published after a refusal that
\* the options do not retry, and a closed client keeps its state and its reason.
THEOREM EndsAreFinal == Spec => EndIsFinal
<1>1. ClientIndInv /\ [Next]_vars => EndStep
  BY NextKeeps DEF Keeps
<1>2. ClientIndInv /\ [Next]_vars => [EndStep]_vars
  BY <1>1
<1> QED
  BY <1>2, ClientInvariant, PTL DEF Spec, EndIsFinal, EndStep
=============================================================================
