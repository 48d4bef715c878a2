---------------------------- MODULE ServerProofs ----------------------------
(***************************************************************************)
(* Proofs about the server's own state, for every number of connections:   *)
(* accepting, tearing down and stopping (ServerLifecycle), with any number *)
(* of callers of Stop, and the user index (UserIndex), with any number of  *)
(* users, calls and fan-outs.  The two share the connections and their     *)
(* closed flag (Connections).                                              *)
(***************************************************************************)
EXTENDS ServerLifecycle, UserIndex, TLAPS

-----------------------------------------------------------------------------
(* The flag is set before anything a Stop does. *)
StopFlag == \A s \in Stoppers : stop[s].pc # "idle" => stopping

(* A connection of the fan-out set that a Stop has not closed is still on *)
(* its list, from the snapshot on.                                        *)
SweepCovers ==
    \A s \in Stoppers :
        stop[s].pc \in {"sweep", "tear"} =>
            \A c \in conns : closed[c] \/ c \in stop[s].todo

(* The connection run() tears down has no read loop any more, and is out of *)
(* the set when its hooks run.                                              *)
LoopOwns ==
    /\ loop.pc \in {"remove", "hooks"} =>
            loop.conn \in Conns /\ serve[loop.conn] = "ended"
    /\ loop.pc = "hooks" => loop.conn \notin conns

(* The fan-out set holds accepted connections only, and every one of them *)
(* until run() has received its unregister.                               *)
FanOutAccepted ==
    \A c \in Conns :
        /\ serve[c] \in {"registered", "ready", "reading", "unregister"} => c \in conns
        /\ c \in conns => serve[c] \in {"registered", "ready", "reading",
                                        "unregister", "ended"}

SweepInv == StopFlag /\ SweepCovers /\ SweepMissesNobody
TeardownInv == LoopOwns /\ FanOutAccepted /\ HooksExactlyOnce

-----------------------------------------------------------------------------
(* Every step of the server keeps the types. *)
LEMMA TypeStep ==
    ASSUME TypeOK, [Next]_vars PROVE TypeOK'
  <1>1. ASSUME NEW c \in Conns, Accept(c) PROVE TypeOK'
    BY <1>1 DEF TypeOK, ServeSteps, Accept
  <1>2. ASSUME NEW c \in Conns, HookRejects(c) PROVE TypeOK'
    BY <1>2 DEF TypeOK, ServeSteps, HookRejects
  <1>3. ASSUME NEW c \in Conns, registerConn(c) PROVE TypeOK'
    BY <1>3 DEF TypeOK, ServeSteps, registerConn
  <1>4. ASSUME NEW c \in Conns, ConnectionOpened(c) PROVE TypeOK'
    BY <1>4 DEF TypeOK, ServeSteps, ConnectionOpened
  <1>5. ASSUME NEW c \in Conns, StartPumps(c) PROVE TypeOK'
    BY <1>5 DEF TypeOK, ServeSteps, StartPumps
  <1>6. ASSUME NEW c \in Conns, dispatchRequest(c) PROVE TypeOK'
    BY <1>6, LifecycleAssumption DEF TypeOK, dispatchRequest
  <1>7. ASSUME NEW c \in Conns, PeerLeaves(c) PROVE TypeOK'
    BY <1>7 DEF TypeOK, PeerLeaves
  <1>8. ASSUME NEW c \in Conns, DrainAndClose(c) PROVE TypeOK'
    BY <1>8 DEF TypeOK, DrainAndClose
  <1>9. ASSUME NEW c \in Conns, ReadFails(c) PROVE TypeOK'
    BY <1>9 DEF TypeOK, ServeSteps, ReadFails
  <1>10. ASSUME NEW c \in Conns, GiveUp(c) PROVE TypeOK'
    BY <1>10 DEF TypeOK, ServeSteps, GiveUp, TearDown
  <1>11. ASSUME NEW c \in Conns, EvictMark(c) PROVE TypeOK'
    BY <1>11 DEF TypeOK, EvictMark, MarkClosed
  <1>12. ASSUME NEW c \in Conns, EvictTear(c) PROVE TypeOK'
    BY <1>12 DEF TypeOK, EvictTear, TearDown
  <1>13. ASSUME NEW c \in Conns, Receive(c) PROVE TypeOK'
    BY <1>13 DEF TypeOK, ServeSteps, LoopSteps, Receive
  <1>14. CASE RequestDone
    BY <1>14 DEF TypeOK, RequestDone
  <1>15. CASE Remove
    BY <1>15 DEF TypeOK, LoopSteps, Remove
  <1>16. CASE runDisconnectHooks
    <2>1. hooked' \in [Conns -> Nat]
      <3>1. hooked' = [hooked EXCEPT ![loop.conn] = @ + 1] /\ hooked \in [Conns -> Nat]
        BY <1>16 DEF TypeOK, runDisconnectHooks
      <3>2. hooked' = [c \in Conns |-> IF c = loop.conn THEN hooked[c] + 1 ELSE hooked[c]]
        BY <3>1, Zenon
      <3>3. \A c \in Conns : hooked[c] \in Nat /\ hooked[c] + 1 \in Nat
        BY <3>1
      <3>4. QED
        BY <3>2, <3>3, Zenon
    <2>2. loop' \in [pc : LoopSteps, conn : Conns \cup {None}, empty : BOOLEAN,
                     armed : BOOLEAN]
      BY <1>16 DEF TypeOK, LoopSteps, runDisconnectHooks
    <2>3. QED
      BY <1>16, <2>1, <2>2 DEF TypeOK, runDisconnectHooks
  <1>17. CASE LoopMark
    BY <1>17 DEF TypeOK, LoopSteps, LoopMark, MarkClosed
  <1>18. CASE LoopTear
    BY <1>18 DEF TypeOK, LoopSteps, LoopTear, TearDown
  <1>19. CASE ConnectionClosed
    BY <1>19 DEF TypeOK, LoopSteps, ConnectionClosed
  <1>20. CASE Decide
    BY <1>20 DEF TypeOK, LoopSteps, Decide
  <1>21. CASE StopSignalled
    BY <1>21 DEF TypeOK, LoopSteps, StopSignalled
  <1>22. ASSUME NEW s \in Stoppers, StopBegin(s) PROVE TypeOK'
    BY <1>22 DEF TypeOK, StopSteps, StopBegin
  <1>23. ASSUME NEW s \in Stoppers, Snapshot(s) PROVE TypeOK'
    <2>1. stop' \in [Stoppers -> [pc : StopSteps, todo : SUBSET Conns,
                                  conn : Conns \cup {None}]]
      BY <1>23 DEF TypeOK, StopSteps, Snapshot
    <2>2. QED
      BY <1>23, <2>1 DEF TypeOK, Snapshot
  <1>24. ASSUME NEW s \in Stoppers, SweepMark(s) PROVE TypeOK'
    <2>1. PICK c \in stop[s].todo :
             \/ /\ MarkClosed(c)
                /\ stop' = [stop EXCEPT ![s] = [pc |-> "tear", conn |-> c,
                                                todo |-> @.todo \ {c}]]
             \/ /\ stop' = [stop EXCEPT ![s].todo = @ \ {c}]
                /\ UNCHANGED closed
      BY <1>24 DEF SweepMark
    <2>2. c \in Conns /\ stop[s].todo \in SUBSET Conns
      BY <2>1 DEF TypeOK
    <2>3. closed' \in [Conns -> BOOLEAN]
      BY <2>1, <2>2 DEF TypeOK, MarkClosed
    <2>4. stop' \in [Stoppers -> [pc : StopSteps, todo : SUBSET Conns,
                                  conn : Conns \cup {None}]]
      BY <2>1, <2>2 DEF TypeOK, StopSteps
    <2>5. QED
      BY <1>24, <2>3, <2>4 DEF TypeOK, SweepMark
  <1>25. ASSUME NEW s \in Stoppers, SweepTear(s) PROVE TypeOK'
    <2>1. stop' \in [Stoppers -> [pc : StopSteps, todo : SUBSET Conns,
                                  conn : Conns \cup {None}]]
      BY <1>25 DEF TypeOK, StopSteps, SweepTear
    <2>2. torn' \in [Conns -> BOOLEAN] /\ socket' \in [Conns -> {"open", "shut"}]
      BY <1>25 DEF TypeOK, SweepTear, TearDown
    <2>3. QED
      BY <1>25, <2>1, <2>2 DEF TypeOK, SweepTear
  <1>26. ASSUME NEW s \in Stoppers, SweepDone(s) PROVE TypeOK'
    BY <1>26 DEF TypeOK, StopSteps, SweepDone
  <1>27. ASSUME NEW s \in Stoppers, Drained(s) PROVE TypeOK'
    BY <1>27 DEF TypeOK, StopSteps, Drained
  <1>28. ASSUME NEW s \in Stoppers, StopHooks(s) PROVE TypeOK'
    BY SMTT(30), <1>28 DEF TypeOK, StopSteps, StopHooks
  <1>29. ASSUME NEW s \in Stoppers, SignalStop(s) PROVE TypeOK'
    BY <1>29 DEF TypeOK, StopSteps, SignalStop
  <1>30. ASSUME NEW s \in Stoppers, StopReturns(s) PROVE TypeOK'
    BY <1>30 DEF TypeOK, StopSteps, StopReturns
  <1>31. ASSUME NEW s \in Stoppers, StopExpires(s) PROVE TypeOK'
    BY <1>31 DEF TypeOK, StopSteps, StopExpires
  <1>32. CASE UNCHANGED vars
    BY <1>32 DEF vars, TypeOK, ServeSteps, LoopSteps, StopSteps
  <1>33. QED
    BY <1>1, <1>2, <1>3, <1>4, <1>5, <1>6, <1>7, <1>8, <1>9, <1>10, <1>11, <1>12, <1>13, <1>14, <1>15, <1>16, <1>17, <1>18, <1>19, <1>20, <1>21, <1>22, <1>23, <1>24, <1>25, <1>26, <1>27, <1>28, <1>29, <1>30, <1>31, <1>32 DEF Next, ServeStep, LoopStep, StopStep, Stopped

(* A registration that passes the flag precedes every Stop; a snapshot takes *)
(* the whole set; a sweep strikes off only what it found closed or closed.   *)
LEMMA SweepStep ==
    ASSUME TypeOK, SweepInv, [Next]_vars PROVE SweepInv'
  <1>1. ASSUME NEW c \in Conns, Accept(c) PROVE SweepInv'
    BY <1>1 DEF TypeOK, SweepInv, StopFlag, SweepCovers, SweepMissesNobody, Accept
  <1>2. ASSUME NEW c \in Conns, HookRejects(c) PROVE SweepInv'
    BY <1>2 DEF TypeOK, SweepInv, StopFlag, SweepCovers, SweepMissesNobody, HookRejects
  <1>3. ASSUME NEW c \in Conns, registerConn(c) PROVE SweepInv'
    BY <1>3 DEF TypeOK, SweepInv, StopFlag, SweepCovers, SweepMissesNobody, registerConn
  <1>4. ASSUME NEW c \in Conns, ConnectionOpened(c) PROVE SweepInv'
    BY <1>4 DEF TypeOK, SweepInv, StopFlag, SweepCovers, SweepMissesNobody, ConnectionOpened
  <1>5. ASSUME NEW c \in Conns, StartPumps(c) PROVE SweepInv'
    BY <1>5 DEF TypeOK, SweepInv, StopFlag, SweepCovers, SweepMissesNobody, StartPumps
  <1>6. ASSUME NEW c \in Conns, dispatchRequest(c) PROVE SweepInv'
    BY <1>6 DEF TypeOK, SweepInv, StopFlag, SweepCovers, SweepMissesNobody, dispatchRequest
  <1>7. ASSUME NEW c \in Conns, PeerLeaves(c) PROVE SweepInv'
    BY <1>7 DEF TypeOK, SweepInv, StopFlag, SweepCovers, SweepMissesNobody, PeerLeaves
  <1>8. ASSUME NEW c \in Conns, DrainAndClose(c) PROVE SweepInv'
    BY <1>8 DEF TypeOK, SweepInv, StopFlag, SweepCovers, SweepMissesNobody, DrainAndClose
  <1>9. ASSUME NEW c \in Conns, ReadFails(c) PROVE SweepInv'
    BY <1>9 DEF TypeOK, SweepInv, StopFlag, SweepCovers, SweepMissesNobody, ReadFails
  <1>10. ASSUME NEW c \in Conns, GiveUp(c) PROVE SweepInv'
    BY <1>10 DEF TypeOK, SweepInv, StopFlag, SweepCovers, SweepMissesNobody, GiveUp, TearDown
  <1>11. ASSUME NEW c \in Conns, EvictMark(c) PROVE SweepInv'
    BY <1>11 DEF TypeOK, SweepInv, StopFlag, SweepCovers, SweepMissesNobody, EvictMark, MarkClosed
  <1>12. ASSUME NEW c \in Conns, EvictTear(c) PROVE SweepInv'
    BY <1>12 DEF TypeOK, SweepInv, StopFlag, SweepCovers, SweepMissesNobody, EvictTear, TearDown
  <1>13. ASSUME NEW c \in Conns, Receive(c) PROVE SweepInv'
    BY <1>13 DEF TypeOK, SweepInv, StopFlag, SweepCovers, SweepMissesNobody, Receive
  <1>14. CASE RequestDone
    BY <1>14 DEF TypeOK, SweepInv, StopFlag, SweepCovers, SweepMissesNobody, RequestDone
  <1>15. CASE Remove
    BY <1>15 DEF TypeOK, SweepInv, StopFlag, SweepCovers, SweepMissesNobody, Remove
  <1>16. CASE runDisconnectHooks
    BY <1>16 DEF TypeOK, SweepInv, StopFlag, SweepCovers, SweepMissesNobody, runDisconnectHooks
  <1>17. CASE LoopMark
    BY <1>17 DEF TypeOK, SweepInv, StopFlag, SweepCovers, SweepMissesNobody, LoopMark, MarkClosed
  <1>18. CASE LoopTear
    BY <1>18 DEF TypeOK, SweepInv, StopFlag, SweepCovers, SweepMissesNobody, LoopTear, TearDown
  <1>19. CASE ConnectionClosed
    BY <1>19 DEF TypeOK, SweepInv, StopFlag, SweepCovers, SweepMissesNobody, ConnectionClosed
  <1>20. CASE Decide
    BY <1>20 DEF TypeOK, SweepInv, StopFlag, SweepCovers, SweepMissesNobody, Decide
  <1>21. CASE StopSignalled
    BY <1>21 DEF TypeOK, SweepInv, StopFlag, SweepCovers, SweepMissesNobody, StopSignalled
  <1>22. ASSUME NEW s \in Stoppers, StopBegin(s) PROVE SweepInv'
    BY <1>22 DEF TypeOK, SweepInv, StopFlag, SweepCovers, SweepMissesNobody, StopBegin
  <1>23. ASSUME NEW s \in Stoppers, Snapshot(s) PROVE SweepInv'
    BY <1>23 DEF TypeOK, SweepInv, StopFlag, SweepCovers, SweepMissesNobody, Snapshot
  <1>24. ASSUME NEW s \in Stoppers, SweepMark(s) PROVE SweepInv'
    <2>1. PICK c \in stop[s].todo :
             \/ /\ MarkClosed(c)
                /\ stop' = [stop EXCEPT ![s] = [pc |-> "tear", conn |-> c,
                                                todo |-> @.todo \ {c}]]
             \/ /\ closed[c] /\ UNCHANGED closed
                /\ stop' = [stop EXCEPT ![s].todo = @ \ {c}]
      BY <1>24 DEF SweepMark
    <2>2. c \in Conns
      BY <2>1 DEF TypeOK
    <2>3. closed'[c] /\ \A d \in Conns : closed[d] => closed'[d]
      BY <2>1, <2>2 DEF TypeOK, MarkClosed
    <2>4. /\ stop[s].pc = "sweep" /\ stop'[s].pc \in {"sweep", "tear"}
          /\ stop'[s].todo = stop[s].todo \ {c}
          /\ \A q \in Stoppers \ {s} : stop'[q] = stop[q]
      BY <1>24, <2>1 DEF TypeOK, SweepMark
    <2>5. conns' = conns /\ stopping' = stopping /\ conns \subseteq Conns
      BY <1>24 DEF TypeOK, SweepMark
    <2>6. StopFlag'
      BY <2>4, <2>5 DEF SweepInv, StopFlag
    <2>7. SweepCovers'
      BY <2>3, <2>4, <2>5 DEF SweepInv, SweepCovers
    <2>8. SweepMissesNobody'
      BY <2>3, <2>4, <2>5 DEF SweepInv, SweepMissesNobody
    <2>9. QED
      BY <2>6, <2>7, <2>8 DEF SweepInv
  <1>25. ASSUME NEW s \in Stoppers, SweepTear(s) PROVE SweepInv'
    BY <1>25 DEF TypeOK, SweepInv, StopFlag, SweepCovers, SweepMissesNobody, SweepTear, TearDown
  <1>26. ASSUME NEW s \in Stoppers, SweepDone(s) PROVE SweepInv'
    BY <1>26 DEF TypeOK, SweepInv, StopFlag, SweepCovers, SweepMissesNobody, SweepDone
  <1>27. ASSUME NEW s \in Stoppers, Drained(s) PROVE SweepInv'
    BY <1>27 DEF TypeOK, SweepInv, StopFlag, SweepCovers, SweepMissesNobody, Drained
  <1>28. ASSUME NEW s \in Stoppers, StopHooks(s) PROVE SweepInv'
    BY <1>28 DEF TypeOK, SweepInv, StopFlag, SweepCovers, SweepMissesNobody, StopHooks
  <1>29. ASSUME NEW s \in Stoppers, SignalStop(s) PROVE SweepInv'
    BY <1>29 DEF TypeOK, SweepInv, StopFlag, SweepCovers, SweepMissesNobody, SignalStop
  <1>30. ASSUME NEW s \in Stoppers, StopReturns(s) PROVE SweepInv'
    BY <1>30 DEF TypeOK, SweepInv, StopFlag, SweepCovers, SweepMissesNobody, StopReturns
  <1>31. ASSUME NEW s \in Stoppers, StopExpires(s) PROVE SweepInv'
    BY <1>31 DEF TypeOK, SweepInv, StopFlag, SweepCovers, SweepMissesNobody, StopExpires
  <1>32. CASE UNCHANGED vars
    BY <1>32 DEF vars, TypeOK, SweepInv, StopFlag, SweepCovers, SweepMissesNobody
  <1>33. QED
    BY <1>1, <1>2, <1>3, <1>4, <1>5, <1>6, <1>7, <1>8, <1>9, <1>10, <1>11, <1>12, <1>13, <1>14, <1>15, <1>16, <1>17, <1>18, <1>19, <1>20, <1>21, <1>22, <1>23, <1>24, <1>25, <1>26, <1>27, <1>28, <1>29, <1>30, <1>31, <1>32 DEF Next, ServeStep, LoopStep, StopStep, Stopped

(* The hooks of a connection run between its removal from the set and the  *)
(* end of run()'s teardown, which nothing can enter twice.                 *)
LEMMA TeardownStep ==
    ASSUME TypeOK, TeardownInv, [Next]_vars PROVE TeardownInv'
  <1>1. ASSUME NEW c \in Conns, Accept(c) PROVE TeardownInv'
    BY <1>1 DEF TypeOK, TeardownInv, LoopOwns, FanOutAccepted, HooksExactlyOnce, Accept
  <1>2. ASSUME NEW c \in Conns, HookRejects(c) PROVE TeardownInv'
    BY <1>2 DEF TypeOK, TeardownInv, LoopOwns, FanOutAccepted, HooksExactlyOnce, HookRejects
  <1>3. ASSUME NEW c \in Conns, registerConn(c) PROVE TeardownInv'
    BY <1>3 DEF TypeOK, TeardownInv, LoopOwns, FanOutAccepted, HooksExactlyOnce, registerConn
  <1>4. ASSUME NEW c \in Conns, ConnectionOpened(c) PROVE TeardownInv'
    BY <1>4 DEF TypeOK, TeardownInv, LoopOwns, FanOutAccepted, HooksExactlyOnce, ConnectionOpened
  <1>5. ASSUME NEW c \in Conns, StartPumps(c) PROVE TeardownInv'
    BY <1>5 DEF TypeOK, TeardownInv, LoopOwns, FanOutAccepted, HooksExactlyOnce, StartPumps
  <1>6. ASSUME NEW c \in Conns, dispatchRequest(c) PROVE TeardownInv'
    BY <1>6 DEF TypeOK, TeardownInv, LoopOwns, FanOutAccepted, HooksExactlyOnce, dispatchRequest
  <1>7. ASSUME NEW c \in Conns, PeerLeaves(c) PROVE TeardownInv'
    BY <1>7 DEF TypeOK, TeardownInv, LoopOwns, FanOutAccepted, HooksExactlyOnce, PeerLeaves
  <1>8. ASSUME NEW c \in Conns, DrainAndClose(c) PROVE TeardownInv'
    BY <1>8 DEF TypeOK, TeardownInv, LoopOwns, FanOutAccepted, HooksExactlyOnce, DrainAndClose
  <1>9. ASSUME NEW c \in Conns, ReadFails(c) PROVE TeardownInv'
    BY <1>9 DEF TypeOK, TeardownInv, LoopOwns, FanOutAccepted, HooksExactlyOnce, ReadFails
  <1>10. ASSUME NEW c \in Conns, GiveUp(c) PROVE TeardownInv'
    BY <1>10 DEF TypeOK, TeardownInv, LoopOwns, FanOutAccepted, HooksExactlyOnce, GiveUp, TearDown
  <1>11. ASSUME NEW c \in Conns, EvictMark(c) PROVE TeardownInv'
    BY <1>11 DEF TypeOK, TeardownInv, LoopOwns, FanOutAccepted, HooksExactlyOnce, EvictMark, MarkClosed
  <1>12. ASSUME NEW c \in Conns, EvictTear(c) PROVE TeardownInv'
    BY <1>12 DEF TypeOK, TeardownInv, LoopOwns, FanOutAccepted, HooksExactlyOnce, EvictTear, TearDown
  <1>13. ASSUME NEW c \in Conns, Receive(c) PROVE TeardownInv'
    BY <1>13 DEF TypeOK, TeardownInv, LoopOwns, FanOutAccepted, HooksExactlyOnce, Receive
  <1>14. CASE RequestDone
    BY <1>14 DEF TypeOK, TeardownInv, LoopOwns, FanOutAccepted, HooksExactlyOnce, RequestDone
  <1>15. CASE Remove
    BY <1>15 DEF TypeOK, TeardownInv, LoopOwns, FanOutAccepted, HooksExactlyOnce, Remove
  <1>16. CASE runDisconnectHooks
    BY <1>16 DEF TypeOK, TeardownInv, LoopOwns, FanOutAccepted, HooksExactlyOnce, runDisconnectHooks
  <1>17. CASE LoopMark
    BY <1>17 DEF TypeOK, TeardownInv, LoopOwns, FanOutAccepted, HooksExactlyOnce, LoopMark, MarkClosed
  <1>18. CASE LoopTear
    BY <1>18 DEF TypeOK, TeardownInv, LoopOwns, FanOutAccepted, HooksExactlyOnce, LoopTear, TearDown
  <1>19. CASE ConnectionClosed
    BY <1>19 DEF TypeOK, TeardownInv, LoopOwns, FanOutAccepted, HooksExactlyOnce, ConnectionClosed
  <1>20. CASE Decide
    BY <1>20 DEF TypeOK, TeardownInv, LoopOwns, FanOutAccepted, HooksExactlyOnce, Decide
  <1>21. CASE StopSignalled
    BY <1>21 DEF TypeOK, TeardownInv, LoopOwns, FanOutAccepted, HooksExactlyOnce, StopSignalled
  <1>22. ASSUME NEW s \in Stoppers, StopBegin(s) PROVE TeardownInv'
    BY <1>22 DEF TypeOK, TeardownInv, LoopOwns, FanOutAccepted, HooksExactlyOnce, StopBegin
  <1>23. ASSUME NEW s \in Stoppers, Snapshot(s) PROVE TeardownInv'
    BY <1>23 DEF TypeOK, TeardownInv, LoopOwns, FanOutAccepted, HooksExactlyOnce, Snapshot
  <1>24. ASSUME NEW s \in Stoppers, SweepMark(s) PROVE TeardownInv'
    BY <1>24 DEF TypeOK, TeardownInv, LoopOwns, FanOutAccepted, HooksExactlyOnce, SweepMark, MarkClosed
  <1>25. ASSUME NEW s \in Stoppers, SweepTear(s) PROVE TeardownInv'
    BY <1>25 DEF TypeOK, TeardownInv, LoopOwns, FanOutAccepted, HooksExactlyOnce, SweepTear, TearDown
  <1>26. ASSUME NEW s \in Stoppers, SweepDone(s) PROVE TeardownInv'
    BY <1>26 DEF TypeOK, TeardownInv, LoopOwns, FanOutAccepted, HooksExactlyOnce, SweepDone
  <1>27. ASSUME NEW s \in Stoppers, Drained(s) PROVE TeardownInv'
    BY <1>27 DEF TypeOK, TeardownInv, LoopOwns, FanOutAccepted, HooksExactlyOnce, Drained
  <1>28. ASSUME NEW s \in Stoppers, StopHooks(s) PROVE TeardownInv'
    BY <1>28 DEF TypeOK, TeardownInv, LoopOwns, FanOutAccepted, HooksExactlyOnce, StopHooks
  <1>29. ASSUME NEW s \in Stoppers, SignalStop(s) PROVE TeardownInv'
    BY <1>29 DEF TypeOK, TeardownInv, LoopOwns, FanOutAccepted, HooksExactlyOnce, SignalStop
  <1>30. ASSUME NEW s \in Stoppers, StopReturns(s) PROVE TeardownInv'
    BY <1>30 DEF TypeOK, TeardownInv, LoopOwns, FanOutAccepted, HooksExactlyOnce, StopReturns
  <1>31. ASSUME NEW s \in Stoppers, StopExpires(s) PROVE TeardownInv'
    BY <1>31 DEF TypeOK, TeardownInv, LoopOwns, FanOutAccepted, HooksExactlyOnce, StopExpires
  <1>32. CASE UNCHANGED vars
    BY <1>32 DEF vars, TypeOK, TeardownInv, LoopOwns, FanOutAccepted, HooksExactlyOnce
  <1>33. QED
    BY <1>1, <1>2, <1>3, <1>4, <1>5, <1>6, <1>7, <1>8, <1>9, <1>10, <1>11, <1>12, <1>13, <1>14, <1>15, <1>16, <1>17, <1>18, <1>19, <1>20, <1>21, <1>22, <1>23, <1>24, <1>25, <1>26, <1>27, <1>28, <1>29, <1>30, <1>31, <1>32 DEF Next, ServeStep, LoopStep, StopStep, Stopped

(* What run() has in hand ended and is out of the set until it has told the *)
(* observer, and what the observer has heard of a connection follows it:    *)
(* nothing before ConnectionOpened, the open until run() has finished.      *)
LoopHands ==
    loop.pc \in {"close", "tear", "observe"} =>
        loop.conn \in Conns /\ serve[loop.conn] = "ended" /\ loop.conn \notin conns

ObserverFollows ==
    \A c \in Conns :
        /\ serve[c] \in {"new", "hooks", "refused", "registered"} => observed[c] = "nothing"
        /\ serve[c] \in {"ready", "reading", "unregister"} => observed[c] = "opened"
        /\ serve[c] = "ended" /\ c \in conns => observed[c] = "opened"
        /\ loop.pc \in {"hooks", "close", "tear", "observe"} /\ loop.conn = c =>
              observed[c] = "opened"

ObserverInv == LoopHands /\ ObserverFollows

(* The read loop is past ConnectionOpened before it can unregister, and    *)
(* run() tears a connection down to the end before it receives another.    *)
LEMMA ObserverStep ==
    ASSUME TypeOK, TeardownInv, ObserverInv, [Next]_vars PROVE ObserverInv'
  <1>0. ASSUME UNCHANGED <<serve, conns, loop, observed>> PROVE ObserverInv'
    BY <1>0 DEF ObserverInv, LoopHands, ObserverFollows
  <1>1. ASSUME NEW c \in Conns, Accept(c) PROVE ObserverInv'
    BY <1>1 DEF TypeOK, TeardownInv, LoopOwns, FanOutAccepted, ObserverInv, LoopHands,
       ObserverFollows, Accept
  <1>2. ASSUME NEW c \in Conns, HookRejects(c) PROVE ObserverInv'
    BY <1>2 DEF TypeOK, TeardownInv, LoopOwns, FanOutAccepted, ObserverInv, LoopHands,
       ObserverFollows, HookRejects
  <1>3. ASSUME NEW c \in Conns, registerConn(c) PROVE ObserverInv'
    BY <1>3 DEF TypeOK, TeardownInv, LoopOwns, FanOutAccepted, ObserverInv, LoopHands,
       ObserverFollows, registerConn
  <1>4. ASSUME NEW c \in Conns, ConnectionOpened(c) PROVE ObserverInv'
    BY <1>4 DEF TypeOK, TeardownInv, LoopOwns, FanOutAccepted, ObserverInv, LoopHands,
       ObserverFollows, ConnectionOpened
  <1>5. ASSUME NEW c \in Conns, StartPumps(c) PROVE ObserverInv'
    BY <1>5 DEF TypeOK, TeardownInv, LoopOwns, FanOutAccepted, ObserverInv, LoopHands,
       ObserverFollows, StartPumps
  <1>6. ASSUME NEW c \in Conns, ReadFails(c) PROVE ObserverInv'
    BY <1>6 DEF TypeOK, TeardownInv, LoopOwns, FanOutAccepted, ObserverInv, LoopHands,
       ObserverFollows, ReadFails
  <1>7. ASSUME NEW c \in Conns, GiveUp(c) PROVE ObserverInv'
    BY <1>7 DEF TypeOK, TeardownInv, LoopOwns, FanOutAccepted, ObserverInv, LoopHands,
       ObserverFollows, GiveUp
  <1>8. ASSUME NEW c \in Conns, Receive(c) PROVE ObserverInv'
    BY <1>8 DEF TypeOK, TeardownInv, LoopOwns, FanOutAccepted, ObserverInv, LoopHands,
       ObserverFollows, Receive
  <1>9. CASE Remove
    BY <1>9 DEF TypeOK, TeardownInv, LoopOwns, FanOutAccepted, ObserverInv, LoopHands,
       ObserverFollows, Remove
  <1>10. CASE runDisconnectHooks
    BY <1>10 DEF TypeOK, TeardownInv, LoopOwns, FanOutAccepted, ObserverInv, LoopHands,
       ObserverFollows, runDisconnectHooks
  <1>11. CASE LoopMark
    BY <1>11 DEF TypeOK, TeardownInv, LoopOwns, FanOutAccepted, ObserverInv, LoopHands,
       ObserverFollows, LoopMark
  <1>12. CASE LoopTear
    BY <1>12 DEF TypeOK, TeardownInv, LoopOwns, FanOutAccepted, ObserverInv, LoopHands,
       ObserverFollows, LoopTear
  <1>13. CASE ConnectionClosed
    BY <1>13 DEF TypeOK, TeardownInv, LoopOwns, FanOutAccepted, ObserverInv, LoopHands,
       ObserverFollows, ConnectionClosed
  <1>14. CASE Decide
    BY <1>14 DEF TypeOK, TeardownInv, LoopOwns, FanOutAccepted, ObserverInv, LoopHands,
       ObserverFollows, Decide
  <1>15. CASE StopSignalled
    BY <1>15 DEF TypeOK, TeardownInv, LoopOwns, FanOutAccepted, ObserverInv, LoopHands,
       ObserverFollows, StopSignalled
  <1>16. ASSUME NEW c \in Conns,
               \/ dispatchRequest(c) \/ PeerLeaves(c) \/ DrainAndClose(c)
               \/ EvictMark(c) \/ EvictTear(c)
         PROVE  ObserverInv'
    BY <1>0, <1>16 DEF dispatchRequest, PeerLeaves, DrainAndClose, EvictMark, EvictTear
  <1>17. ASSUME NEW s \in Stoppers,
               \/ StopBegin(s) \/ Snapshot(s) \/ SweepMark(s) \/ SweepTear(s)
               \/ SweepDone(s) \/ Drained(s) \/ StopHooks(s) \/ SignalStop(s)
               \/ StopReturns(s) \/ StopExpires(s)
         PROVE  ObserverInv'
    BY <1>0, <1>17 DEF StopBegin, Snapshot, SweepMark, SweepTear, SweepDone, Drained,
                       StopHooks, SignalStop, StopReturns, StopExpires
  <1>18. CASE RequestDone \/ UNCHANGED vars
    BY <1>0, <1>18 DEF RequestDone, vars
  <1>19. QED
    BY <1>1, <1>2, <1>3, <1>4, <1>5, <1>6, <1>7, <1>8, <1>9, <1>10,
       <1>11, <1>12, <1>13, <1>14, <1>15, <1>16, <1>17, <1>18
       DEF Next, ServeStep, LoopStep, StopStep, Stopped

-----------------------------------------------------------------------------
(* The types hold in every reachable state. *)
THEOREM LifecycleTypes == Spec => []TypeOK
  <1>1. ASSUME Init PROVE TypeOK
    <2>1. loop \in [pc : LoopSteps, conn : Conns \cup {None}, empty : BOOLEAN,
                    armed : BOOLEAN]
      BY <1>1 DEF Init, LoopSteps
    <2>2. stop \in [Stoppers -> [pc : StopSteps, todo : SUBSET Conns,
                                  conn : Conns \cup {None}]]
      BY <1>1 DEF Init, StopSteps
    <2>3. requests \in [Conns -> 0..MaxRequests]
      BY <1>1, LifecycleAssumption DEF Init
    <2>4. /\ serve \in [Conns -> ServeSteps] /\ hooked \in [Conns -> Nat]
          /\ closed \in [Conns -> BOOLEAN] /\ torn \in [Conns -> BOOLEAN]
          /\ socket \in [Conns -> {"open", "shut"}]
      BY <1>1 DEF Init, ServeSteps
    <2>5. /\ evict \in [Conns -> {"idle", "tear", "done"}]
          /\ observed \in [Conns -> {"nothing", "opened", "closed"}]
      BY <1>1 DEF Init
    <2>6. conns \subseteq Conns /\ requestsWg \in Nat
      BY <1>1 DEF Init
    <2>7. stopping \in BOOLEAN /\ stopCh \in BOOLEAN
      BY <1>1 DEF Init
    <2>8. QED
      BY <2>1, <2>2, <2>3, <2>4, <2>5, <2>6, <2>7 DEF TypeOK
  <1>2. QED
    BY <1>1, TypeStep, PTL DEF Spec

(* No connection slips past Stop: in every reachable state, once a Stop has *)
(* swept, every connection of the fan-out set is closed, for any number of  *)
(* accept paths racing any number of Stops (registerConn, Stop).            *)
THEOREM StopSweepsEveryConn == Spec => []SweepMissesNobody
  <1>1. Init => SweepInv
    BY DEF Init, SweepInv, StopFlag, SweepCovers, SweepMissesNobody
  <1>2. Spec => []SweepInv
    BY <1>1, SweepStep, LifecycleTypes, PTL DEF Spec
  <1>3. SweepInv => SweepMissesNobody
    BY DEF SweepInv
  <1>4. QED
    BY <1>2, <1>3, PTL

(* The disconnect hooks run at most once for each connection, and only for a *)
(* registered one; a client whose frames are read is in the fan-out set.     *)
THEOREM TeardownOnce == Spec => []TeardownSound
  <1>1. Init => TeardownInv
    BY DEF Init, TeardownInv, LoopOwns, FanOutAccepted, HooksExactlyOnce
  <1>2. Spec => []TeardownInv
    BY <1>1, TeardownStep, LifecycleTypes, PTL DEF Spec
  <1>3. TeardownInv => HooksExactlyOnce /\ VisibleInFanOut
    BY DEF TeardownInv, FanOutAccepted, VisibleInFanOut
  <1>4. TypeOK /\ HooksExactlyOnce /\ VisibleInFanOut => TeardownSound
    BY DEF TeardownSound
  <1>5. QED
    BY <1>2, <1>3, <1>4, LifecycleTypes, PTL

(* The observer hears of the close of a connection only after its open, and *)
(* of each at most once, for any number of connections torn down while      *)
(* others are accepted (registerConn, run).                                 *)
THEOREM ObserverHearsInOrder == Spec => ObserverInOrder
  <1>1. Init => TeardownInv /\ ObserverInv
    BY DEF Init, TeardownInv, LoopOwns, FanOutAccepted, HooksExactlyOnce,
           ObserverInv, LoopHands, ObserverFollows
  <1>2. Spec => [](TypeOK /\ TeardownInv /\ ObserverInv)
    BY <1>1, TeardownStep, ObserverStep, LifecycleTypes, PTL DEF Spec
  <1>3. ASSUME TypeOK, ObserverInv, [Next]_vars, NEW c \in Conns
        PROVE  /\ observed'[c] = "opened" /\ observed[c] # "opened" => observed[c] = "nothing"
               /\ observed'[c] = "closed" /\ observed[c] # "closed" => observed[c] = "opened"
    <2>1. ASSUME NEW d \in Conns, ConnectionOpened(d)
          PROVE  observed'[c] = observed[c] \/ (observed'[c] = "opened" /\ observed[c] = "nothing")
      BY <1>3, <2>1 DEF TypeOK, ObserverInv, ObserverFollows, ConnectionOpened
    <2>2. ASSUME ConnectionClosed
          PROVE  observed'[c] = observed[c] \/ (observed'[c] = "closed" /\ observed[c] = "opened")
      BY <1>3, <2>2 DEF TypeOK, ObserverInv, LoopHands, ObserverFollows, ConnectionClosed
    <2>3. \/ observed' = observed \/ ConnectionClosed
          \/ \E d \in Conns : ConnectionOpened(d)
      BY <1>3 DEF Next, ServeStep, LoopStep, StopStep, Stopped, vars, Accept, HookRejects,
         registerConn, StartPumps, ReadFails, GiveUp, Receive, Remove, runDisconnectHooks,
         LoopMark, LoopTear, Decide, StopSignalled, dispatchRequest, PeerLeaves, DrainAndClose, EvictMark, EvictTear, RequestDone, StopBegin, Snapshot, SweepMark, SweepTear, SweepDone, Drained, StopHooks, SignalStop, StopReturns, StopExpires
    <2> QED
      BY <2>1, <2>2, <2>3
  <1>4. TypeOK /\ ObserverInv /\ [Next]_vars =>
          [\A c \in Conns :
              /\ observed'[c] = "opened" /\ observed[c] # "opened" => observed[c] = "nothing"
              /\ observed'[c] = "closed" /\ observed[c] # "closed" => observed[c] = "opened"]_vars
    BY <1>3
  <1>5. QED
    BY <1>2, <1>4, PTL DEF Spec, ObserverInOrder

-----------------------------------------------------------------------------
(* A call that is under way has a connection, and drops a user that is not *)
(* the one it goes on to associate.                                        *)
CallPhases ==
    \A t \in Calls :
        /\ call[t].pc \in {"drop", "associate"} => call[t].conn \in Conns
        /\ call[t].pc = "drop" => call[t].old \in Users /\ call[t].old # call[t].new
        /\ call[t].pc = "associate" => call[t].new \in Users

(* A push or eviction that acts has picked a connection. *)
FanOutPhases ==
    /\ \A p \in Pushes : push[p].pc = "act" => push[p].conn \in Conns
    /\ \A e \in Evictions : eviction[e].pc = "act" => eviction[e].conn \in Conns

UserTypes == UserTypeOK /\ CallPhases /\ FanOutPhases

(* Without overlap one call at a time is under way on a connection, and *)
(* none once its teardown has begun.                                    *)
OneCall ==
    \A t, q \in Calls :
        /\ call[t].pc \in {"drop", "associate"} /\ call[t].conn \notin Overlapping
        /\ call[q].pc \in {"drop", "associate"} /\ call[q].conn = call[t].conn
        => t = q
CallWhileUp ==
    \A t \in Calls :
        call[t].pc \in {"drop", "associate"} /\ call[t].conn \notin Overlapping =>
            down[call[t].conn].pc = "up"

(* While a call is under way the connection has its new user already, and *)
(* the index holds it under the old one, then under none or the new one.  *)
CallIndex ==
    \A t \in Calls : call[t].conn \notin Overlapping =>
        /\ call[t].pc \in {"drop", "associate"} => userID[call[t].conn] = call[t].new
        /\ call[t].pc = "drop" =>
             \A u \in Users : <<u, call[t].conn>> \in userConns => u = call[t].old
        /\ call[t].pc = "associate" =>
             \A u \in Users : <<u, call[t].conn>> \in userConns => u = call[t].new

(* The teardown holds the only user a connection is indexed under. *)
DownIndex ==
    \A c \in Conns \ Overlapping : down[c].pc = "disassociate" =>
        \A u \in Users : <<u, c>> \in userConns => u = down[c].user

IndexInv == OneCall /\ CallWhileUp /\ CallIndex /\ DownIndex /\ IndexExact /\ DeadConnsLeave

(* A connection that has been a push's user's all along still is, is open *)
(* and has been sent to, is being sent to, or is still on the list.       *)
SteadyCovered ==
    \A p \in Pushes : \A c \in steady[p] \ Overlapping :
        /\ push[p].pc # "idle"
        /\ userID[c] = push[p].user /\ ~ closed[c] /\ down[c].pc = "up"
        /\ \/ c \in got[p]
           \/ push[p].pc = "act" /\ push[p].conn = c
           \/ push[p].pc # "done" /\ c \in push[p].todo

-----------------------------------------------------------------------------
(* What the next connection of a fan-out makes of it. *)
LEMMA PickFacts ==
    ASSUME NEW f \in FanOut, NEW c \in f.todo
    PROVE  /\ Pick(f, c) \in FanOut
           /\ Pick(f, c).todo = f.todo \ {c} /\ Pick(f, c).user = f.user
           /\ Pick(f, c).pc \in {"act", "next"}
           /\ userID[c] = f.user => Pick(f, c).conn = c /\ Pick(f, c).pc = "act"
           /\ Pick(f, c).pc = "act" => Pick(f, c).conn \in Conns
  <1>1. c \in Conns
    BY DEF FanOut
  <1>2. Pick(f, c) = [pc |-> IF userID[c] = f.user THEN "act" ELSE "next",
                      user |-> f.user,
                      conn |-> IF userID[c] = f.user THEN c ELSE Nobody,
                      todo |-> f.todo \ {c}]
    <2>1. CASE userID[c] = f.user
      <3>1. Pick(f, c) = [f EXCEPT !.todo = f.todo \ {c}, !.conn = c, !.pc = "act"]
        BY <2>1 DEF Pick
      <3>2. QED
        BY <2>1, <3>1 DEF FanOut
    <2>2. CASE userID[c] # f.user
      <3>1. Pick(f, c) = [f EXCEPT !.todo = f.todo \ {c}, !.conn = Nobody, !.pc = "next"]
        BY <2>2 DEF Pick
      <3>2. QED
        BY <2>2, <3>1 DEF FanOut
    <2>3. QED
      BY <2>1, <2>2
  <1>3. QED
    BY <1>1, <1>2 DEF FanOut

(* A fan-out whose program counter moves stays one. *)
LEMMA FanOutMoves ==
    ASSUME NEW f \in FanOut, NEW s \in {"idle", "next", "act", "done"}
    PROVE  /\ [f EXCEPT !.pc = s] \in FanOut
           /\ [f EXCEPT !.pc = s, !.conn = Nobody] \in FanOut
  BY DEF FanOut

(* Every step keeps the types. *)
LEMMA UserTypeStep ==
    ASSUME Nobody \notin Users, UserTypes, [UserNext]_userVars PROVE UserTypes'
  <1>1. ASSUME NEW t \in Calls, NEW c \in Conns, NEW u \in Users \cup {Nobody},
               SetUserID(t, c, u)
        PROVE  UserTypes'
    <2>1. userID[c] \in Users \cup {Nobody}
      BY DEF UserTypes, UserTypeOK
    <2>2. call' \in [Calls -> Call]
      BY <1>1, <2>1 DEF UserTypes, UserTypeOK, Call, SetUserID
    <2>3. steady' \in [Pushes -> SUBSET Conns]
      BY <1>1 DEF UserTypes, UserTypeOK, SetUserID, Unsteady
    <2>4. userID' \in [Conns -> Users \cup {Nobody}]
      BY <1>1 DEF UserTypes, UserTypeOK, SetUserID
    <2>5. CallPhases'
      BY <1>1, <2>1 DEF UserTypes, UserTypeOK, Call, CallPhases, SetUserID
    <2>6. QED
      BY <1>1, <2>2, <2>3, <2>4, <2>5 DEF UserTypes, UserTypeOK, FanOutPhases, SetUserID
  <1>2. ASSUME NEW t \in Calls, DropOld(t) PROVE UserTypes'
    <2>1. call' \in [Calls -> Call]
      <3>1. \A s \in {"done", "associate"} : [call[t] EXCEPT !.pc = s] \in Call
        BY ZenonT(60) DEF UserTypes, UserTypeOK, Call
      <3>2. QED
        BY <1>2, <3>1 DEF UserTypes, UserTypeOK, DropOld
    <2>2. CallPhases'
      BY <1>2 DEF UserTypes, UserTypeOK, Call, CallPhases, DropOld
    <2>3. QED
      BY <1>2, <2>1, <2>2 DEF UserTypes, UserTypeOK, FanOutPhases, DropOld
  <1>3. ASSUME NEW t \in Calls, associateUser(t) PROVE UserTypes'
    <2>1. call' \in [Calls -> Call]
      BY ZenonT(60), <1>3 DEF UserTypes, UserTypeOK, Call, associateUser
    <2>2. CallPhases'
      BY <1>3 DEF UserTypes, UserTypeOK, Call, CallPhases, associateUser
    <2>3. userConns' \subseteq Users \X Conns
      BY <1>3 DEF UserTypes, UserTypeOK, CallPhases, associateUser
    <2>4. QED
      BY <1>3, <2>1, <2>2, <2>3 DEF UserTypes, UserTypeOK, FanOutPhases, associateUser
  <1>4. ASSUME NEW c \in Conns, ReadUser(c) PROVE UserTypes'
    <2>1. down' \in [Conns -> [pc : {"up", "disassociate", "gone"},
                               user : Users \cup {Nobody}]]
      BY <1>4 DEF UserTypes, UserTypeOK, ReadUser
    <2>2. steady' \in [Pushes -> SUBSET Conns]
      BY <1>4 DEF UserTypes, UserTypeOK, ReadUser, Unsteady
    <2>3. QED
      BY <1>4, <2>1, <2>2 DEF UserTypes, UserTypeOK, CallPhases, FanOutPhases, ReadUser
  <1>5. ASSUME NEW c \in Conns, disassociateUser(c) PROVE UserTypes'
    BY <1>5 DEF UserTypes, UserTypeOK, CallPhases, FanOutPhases, disassociateUser
  <1>6. ASSUME NEW c \in Conns, Close(c) PROVE UserTypes'
    BY <1>6 DEF UserTypes, UserTypeOK, CallPhases, FanOutPhases, Close
  <1>7. ASSUME NEW p \in Pushes, NEW u \in Users, PushToUser(p, u) PROVE UserTypes'
    <2>1. ConnsOf(u) \in SUBSET Conns
      BY DEF ConnsOf
    <2>2. push' \in [Pushes -> FanOut]
      BY <1>7, <2>1 DEF UserTypes, UserTypeOK, FanOut, PushToUser, UserSnapshot
    <2>3. steady' \in [Pushes -> SUBSET Conns]
      BY <1>7 DEF UserTypes, UserTypeOK, PushToUser
    <2>4. FanOutPhases'
      BY <1>7 DEF UserTypes, UserTypeOK, FanOutPhases, PushToUser, UserSnapshot
    <2>5. QED
      BY <1>7, <2>2, <2>3, <2>4 DEF UserTypes, UserTypeOK, CallPhases, PushToUser
  <1>8. ASSUME NEW p \in Pushes, PushPick(p) PROVE UserTypes'
    <2>1. push[p] \in FanOut
      BY DEF UserTypes, UserTypeOK
    <2>2. \E f \in FanOut : /\ push' = [push EXCEPT ![p] = f]
                            /\ f.pc = "act" => f.conn \in Conns
      <3>1. CASE \E c \in push[p].todo : push' = [push EXCEPT ![p] = Pick(@, c)]
        BY <2>1, <3>1, PickFacts
      <3>2. CASE push' = [push EXCEPT ![p].pc = "done"]
        <4>1. push' = [push EXCEPT ![p] = [push[p] EXCEPT !.pc = "done"]]
          BY <3>2
        <4>2. [push[p] EXCEPT !.pc = "done"].pc = "done"
          BY <2>1 DEF FanOut
        <4>3. QED
          BY <2>1, <4>1, <4>2, FanOutMoves
      <3>3. QED
        BY <1>8, <3>1, <3>2 DEF PushPick
    <2>3. push' \in [Pushes -> FanOut] /\ FanOutPhases'
      <3>1. PICK f \in FanOut : /\ push' = [push EXCEPT ![p] = f]
                                /\ f.pc = "act" => f.conn \in Conns
        BY <2>2
      <3>2. push \in [Pushes -> FanOut] /\ FanOutPhases /\ eviction' = eviction
        BY <1>8 DEF UserTypes, UserTypeOK, PushPick
      <3>3. push' \in [Pushes -> FanOut]
        BY <3>1, <3>2
      <3>4. \A q \in Pushes : push'[q] = IF q = p THEN f ELSE push[q]
        BY <3>1, <3>2
      <3>5. QED
        BY <3>1, <3>2, <3>3, <3>4 DEF FanOutPhases
    <2>4. QED
      BY <1>8, <2>3 DEF UserTypes, UserTypeOK, CallPhases, PushPick
  <1>9. ASSUME NEW p \in Pushes, PushSend(p) PROVE UserTypes'
    <2>1. push' \in [Pushes -> FanOut]
      <3>1. push' = [push EXCEPT ![p] = [push[p] EXCEPT !.pc = "next", !.conn = Nobody]]
        BY <1>9 DEF UserTypes, UserTypeOK, PushSend
      <3>2. QED
        BY <3>1, FanOutMoves DEF UserTypes, UserTypeOK
    <2>2. FanOutPhases'
      BY <1>9 DEF UserTypes, UserTypeOK, FanOut, FanOutPhases, PushSend
    <2>3. got' \in [Pushes -> SUBSET Conns]
      BY <1>9 DEF UserTypes, UserTypeOK, FanOutPhases, PushSend
    <2>4. QED
      BY <1>9, <2>1, <2>2, <2>3 DEF UserTypes, UserTypeOK, CallPhases, PushSend
  <1>10. ASSUME NEW e \in Evictions, NEW u \in Users, DisconnectUser(e, u) PROVE UserTypes'
    <2>1. ConnsOf(u) \in SUBSET Conns
      BY DEF ConnsOf
    <2>2. eviction' \in [Evictions -> FanOut]
      BY <1>10, <2>1 DEF UserTypes, UserTypeOK, FanOut, DisconnectUser, UserSnapshot
    <2>3. FanOutPhases'
      BY <1>10 DEF UserTypes, UserTypeOK, FanOutPhases, DisconnectUser, UserSnapshot
    <2>4. QED
      BY <1>10, <2>2, <2>3 DEF UserTypes, UserTypeOK, CallPhases, DisconnectUser
  <1>11. ASSUME NEW e \in Evictions, EvictPick(e) PROVE UserTypes'
    <2>1. eviction[e] \in FanOut
      BY DEF UserTypes, UserTypeOK
    <2>2. \E f \in FanOut : /\ eviction' = [eviction EXCEPT ![e] = f]
                            /\ f.pc = "act" => f.conn \in Conns
      <3>1. CASE \E c \in eviction[e].todo : eviction' = [eviction EXCEPT ![e] = Pick(@, c)]
        BY <2>1, <3>1, PickFacts
      <3>2. CASE eviction' = [eviction EXCEPT ![e].pc = "done"]
        <4>1. eviction' = [eviction EXCEPT ![e] = [eviction[e] EXCEPT !.pc = "done"]]
          BY <3>2
        <4>2. [eviction[e] EXCEPT !.pc = "done"].pc = "done"
          BY <2>1 DEF FanOut
        <4>3. QED
          BY <2>1, <4>1, <4>2, FanOutMoves
      <3>3. QED
        BY <1>11, <3>1, <3>2 DEF EvictPick
    <2>3. eviction' \in [Evictions -> FanOut] /\ FanOutPhases'
      <3>1. PICK f \in FanOut : /\ eviction' = [eviction EXCEPT ![e] = f]
                                /\ f.pc = "act" => f.conn \in Conns
        BY <2>2
      <3>2. eviction \in [Evictions -> FanOut] /\ FanOutPhases /\ push' = push
        BY <1>11 DEF UserTypes, UserTypeOK, EvictPick
      <3>3. eviction' \in [Evictions -> FanOut]
        BY <3>1, <3>2
      <3>4. \A q \in Evictions : eviction'[q] = IF q = e THEN f ELSE eviction[q]
        BY <3>1, <3>2
      <3>5. QED
        BY <3>1, <3>2, <3>3, <3>4 DEF FanOutPhases
    <2>4. QED
      BY <1>11, <2>3 DEF UserTypes, UserTypeOK, CallPhases, EvictPick
  <1>12. ASSUME NEW e \in Evictions, EvictClose(e) PROVE UserTypes'
    <2>1. eviction' \in [Evictions -> FanOut]
      <3>1. eviction' = [eviction EXCEPT ![e] = [eviction[e] EXCEPT !.pc = "next", !.conn = Nobody]]
        BY <1>12 DEF UserTypes, UserTypeOK, EvictClose
      <3>2. QED
        BY <3>1, FanOutMoves DEF UserTypes, UserTypeOK
    <2>2. FanOutPhases'
      BY <1>12 DEF UserTypes, UserTypeOK, FanOut, FanOutPhases, EvictClose
    <2>3. steady' \in [Pushes -> SUBSET Conns]
      BY <1>12 DEF UserTypes, UserTypeOK, EvictClose, Unsteady
    <2>4. closed' \in [Conns -> BOOLEAN]
      BY <1>12 DEF UserTypes, UserTypeOK, EvictClose
    <2>5. QED
      BY <1>12, <2>1, <2>2, <2>3, <2>4 DEF UserTypes, UserTypeOK, CallPhases, EvictClose
  <1>13. CASE UNCHANGED userVars
    BY <1>13 DEF UserTypes, UserTypeOK, CallPhases, FanOutPhases, userVars
  <1>14. QED
    BY <1>1, <1>2, <1>3, <1>4, <1>5, <1>6, <1>7, <1>8, <1>9, <1>10, <1>11,
       <1>12, <1>13 DEF UserNext, Finished

-----------------------------------------------------------------------------
(* A step that leaves the calls, the users, the index and the teardowns *)
(* alone leaves the index invariant alone.                              *)
LEMMA IndexFrame ==
    ASSUME IndexInv, UNCHANGED <<userID, userConns, down, call>>
    PROVE  IndexInv'
  BY DEF IndexInv, OneCall, CallWhileUp, CallIndex, DownIndex, IndexExact,
         DeadConnsLeave, Settled, Busy

(* The index invariant is kept by every step. *)
LEMMA IndexStep ==
    ASSUME Nobody \notin Users, UserTypes, IndexInv, [UserNext]_userVars PROVE IndexInv'
  <1>a. IndexInv /\ UserTypeOK /\ CallPhases
    BY DEF UserTypes
  <1>1. ASSUME NEW t \in Calls, NEW c \in Conns, NEW u \in Users \cup {Nobody},
               SetUserID(t, c, u)
        PROVE  IndexInv'
    <2>0. /\ call' = [call EXCEPT ![t] = call'[t]]
          /\ call[t].pc = "idle"
          /\ call'[t].conn = c /\ call'[t].old = userID[c] /\ call'[t].new = u
          /\ call'[t].pc = "drop" => userID[c] \notin {Nobody, u}
          /\ call'[t].pc = "associate" => userID[c] \in {Nobody, u} /\ u # Nobody
          /\ call'[t].pc = "done" => userID[c] = Nobody /\ u = Nobody
          /\ call'[t].pc \in {"drop", "associate", "done"}
      BY <1>1, <1>a DEF UserTypeOK, SetUserID
    <2>1. /\ \A q \in Calls : q # t => call'[q] = call[q]
          /\ \A d \in Conns : userID'[d] = IF d = c THEN u ELSE userID[d]
          /\ userConns' = userConns /\ down' = down
      BY <1>1, <1>a DEF UserTypeOK, SetUserID
    <2>2. c \notin Overlapping =>
            /\ down[c].pc = "up"
            /\ \A q \in Calls : call[q].conn = c => call[q].pc \notin {"drop", "associate"}
            /\ \A v \in Users : <<v, c>> \in userConns <=> userID[c] = v
      BY <1>1, <1>a DEF SetUserID, Settled, Busy, IndexInv, IndexExact
    <2>3. OneCall'
      BY <1>a, <2>0, <2>1, <2>2 DEF IndexInv, OneCall
    <2>4. CallWhileUp'
      BY <1>a, <2>0, <2>1, <2>2 DEF IndexInv, CallWhileUp
    <2>5. CallIndex'
      BY <1>a, <2>0, <2>1, <2>2 DEF IndexInv, CallIndex, CallPhases
    <2>6. DownIndex' /\ DeadConnsLeave'
      BY <1>a, <2>1 DEF IndexInv, DownIndex, DeadConnsLeave
    <2>7. IndexExact'
      <3> SUFFICES ASSUME NEW d \in Conns \ Overlapping, Settled(d)', NEW v \in Users
                   PROVE  <<v, d>> \in userConns' <=> userID'[d] = v
        BY DEF IndexExact
      <3>1. CASE d = c
        <4>1. call'[t].pc = "done"
          BY <2>0, <3>1 DEF Settled, Busy
        <4>2. QED
          BY <2>0, <2>1, <2>2, <3>1, <4>1
      <3>2. CASE d # c
        <4>1. Settled(d)
          BY <2>0, <2>1, <3>2 DEF Settled, Busy
        <4>2. QED
          BY <1>a, <2>1, <3>2, <4>1 DEF IndexInv, IndexExact
      <3>3. QED
        BY <3>1, <3>2
    <2>8. QED
      BY <2>3, <2>4, <2>5, <2>6, <2>7 DEF IndexInv
  <1>2. ASSUME NEW t \in Calls, DropOld(t) PROVE IndexInv'
    <2>0. /\ call[t].pc = "drop" /\ call[t].conn \in Conns
          /\ call'[t].conn = call[t].conn /\ call'[t].new = call[t].new
          /\ call'[t].pc = IF call[t].new = Nobody THEN "done" ELSE "associate"
          /\ \A q \in Calls : q # t => call'[q] = call[q]
          /\ userID' = userID /\ down' = down
          /\ userConns' = userConns \ {<<call[t].old, call[t].conn>>}
      BY <1>2, <1>a DEF UserTypeOK, Call, CallPhases, DropOld
    <2>1. \A d \in Conns, v \in Users : d # call[t].conn =>
             (<<v, d>> \in userConns' <=> <<v, d>> \in userConns)
      BY <2>0
    <2>2. call[t].conn \notin Overlapping =>
             \A v \in Users : <<v, call[t].conn>> \notin userConns'
      BY <1>a, <2>0 DEF IndexInv, CallIndex
    <2>3. OneCall' /\ CallWhileUp'
      BY <1>a, <2>0 DEF IndexInv, OneCall, CallWhileUp
    <2>4. CallIndex'
      BY <1>a, <2>0, <2>1, <2>2 DEF IndexInv, CallIndex, CallPhases
    <2>5. DownIndex' /\ DeadConnsLeave'
      BY <1>a, <2>0, <2>1, <2>2 DEF IndexInv, DownIndex, DeadConnsLeave
    <2>6. IndexExact'
      <3> SUFFICES ASSUME NEW d \in Conns \ Overlapping, Settled(d)', NEW v \in Users
                   PROVE  <<v, d>> \in userConns' <=> userID'[d] = v
        BY DEF IndexExact
      <3>1. CASE d = call[t].conn
        <4>1. call[t].new = Nobody /\ userID[d] = Nobody
          BY <1>a, <2>0, <3>1 DEF Settled, Busy, IndexInv, CallIndex
        <4>2. QED
          BY <2>0, <2>2, <3>1, <4>1
      <3>2. CASE d # call[t].conn
        <4>1. Settled(d)
          BY <2>0, <3>2 DEF Settled, Busy
        <4>2. QED
          BY <1>a, <2>0, <2>1, <3>2, <4>1 DEF IndexInv, IndexExact
      <3>3. QED
        BY <3>1, <3>2
    <2>7. QED
      BY <2>3, <2>4, <2>5, <2>6 DEF IndexInv
  <1>3. ASSUME NEW t \in Calls, associateUser(t) PROVE IndexInv'
    <2>0. /\ call[t].pc = "associate" /\ call[t].conn \in Conns
          /\ call[t].new \in Users
          /\ call'[t].conn = call[t].conn /\ call'[t].pc = "done"
          /\ \A q \in Calls : q # t => call'[q] = call[q]
          /\ userID' = userID /\ down' = down
          /\ userConns' = userConns \cup {<<call[t].new, call[t].conn>>}
      BY <1>3, <1>a DEF UserTypeOK, Call, CallPhases, associateUser
    <2>1. \A d \in Conns, v \in Users : d # call[t].conn =>
             (<<v, d>> \in userConns' <=> <<v, d>> \in userConns)
      BY <2>0
    <2>2. call[t].conn \notin Overlapping =>
             /\ userID[call[t].conn] = call[t].new
             /\ down[call[t].conn].pc = "up"
             /\ \A v \in Users :
                  <<v, call[t].conn>> \in userConns' <=> v = call[t].new
      BY <1>a, <2>0 DEF IndexInv, CallIndex, CallWhileUp
    <2>3. OneCall' /\ CallWhileUp'
      BY <1>a, <2>0 DEF IndexInv, OneCall, CallWhileUp
    <2>4. CallIndex'
      BY <1>a, <2>0, <2>1 DEF IndexInv, CallIndex, CallPhases, OneCall
    <2>5. DownIndex' /\ DeadConnsLeave'
      BY <1>a, <2>0, <2>1, <2>2 DEF IndexInv, DownIndex, DeadConnsLeave
    <2>6. IndexExact'
      <3> SUFFICES ASSUME NEW d \in Conns \ Overlapping, Settled(d)', NEW v \in Users
                   PROVE  <<v, d>> \in userConns' <=> userID'[d] = v
        BY DEF IndexExact
      <3>1. CASE d = call[t].conn
        BY <2>0, <2>2, <3>1
      <3>2. CASE d # call[t].conn
        <4>1. Settled(d)
          BY <2>0, <3>2 DEF Settled, Busy
        <4>2. QED
          BY <1>a, <2>0, <2>1, <3>2, <4>1 DEF IndexInv, IndexExact
      <3>3. QED
        BY <3>1, <3>2
    <2>7. QED
      BY <2>3, <2>4, <2>5, <2>6 DEF IndexInv
  <1>4. ASSUME NEW c \in Conns, ReadUser(c) PROVE IndexInv'
    <2>0. /\ down[c].pc = "up"
          /\ down'[c].pc = IF userID[c] = Nobody THEN "gone" ELSE "disassociate"
          /\ down'[c].user = userID[c]
          /\ \A d \in Conns : d # c => down'[d] = down[d]
          /\ userID' = userID /\ userConns' = userConns /\ call' = call
      BY <1>4, <1>a DEF UserTypeOK, ReadUser
    <2>1. c \notin Overlapping => ~ Busy(c) /\ \A v \in Users : <<v, c>> \in userConns <=> userID[c] = v
      BY <1>4, <1>a DEF ReadUser, Settled, IndexInv, IndexExact
    <2>2. OneCall' /\ CallIndex'
      BY <1>a, <2>0 DEF IndexInv, OneCall, CallIndex
    <2>3. CallWhileUp'
      BY <1>a, <2>0, <2>1 DEF IndexInv, CallWhileUp, CallPhases, Busy
    <2>4. DownIndex' /\ DeadConnsLeave'
      BY <1>a, <2>0, <2>1 DEF IndexInv, DownIndex, DeadConnsLeave
    <2>5. IndexExact'
      BY <1>a, <2>0 DEF IndexInv, IndexExact, Settled, Busy
    <2>6. QED
      BY <2>2, <2>3, <2>4, <2>5 DEF IndexInv
  <1>5. ASSUME NEW c \in Conns, disassociateUser(c) PROVE IndexInv'
    <2>0. /\ down[c].pc = "disassociate" /\ down'[c].pc = "gone"
          /\ \A d \in Conns : d # c => down'[d] = down[d]
          /\ userConns' = userConns \ {<<down[c].user, c>>}
          /\ userID' = userID /\ call' = call
      BY <1>5, <1>a DEF UserTypeOK, disassociateUser
    <2>1. \A d \in Conns, v \in Users : d # c =>
             (<<v, d>> \in userConns' <=> <<v, d>> \in userConns)
      BY <2>0
    <2>2. c \notin Overlapping => \A v \in Users : <<v, c>> \notin userConns'
      BY <1>a, <2>0 DEF IndexInv, DownIndex
    <2>3. OneCall' /\ CallIndex'
      BY <1>a, <2>0 DEF IndexInv, OneCall, CallIndex
    <2>4. CallWhileUp'
      BY <1>a, <2>0 DEF IndexInv, CallWhileUp, CallPhases
    <2>5. DownIndex' /\ DeadConnsLeave'
      BY <1>a, <2>0, <2>1, <2>2 DEF IndexInv, DownIndex, DeadConnsLeave
    <2>6. IndexExact'
      BY <1>a, <2>0, <2>1 DEF IndexInv, IndexExact, Settled, Busy
    <2>7. QED
      BY <2>3, <2>4, <2>5, <2>6 DEF IndexInv
  <1>6. ASSUME \/ \E c \in Conns : Close(c)
               \/ \E p \in Pushes : PushPick(p) \/ PushSend(p) \/ \E u \in Users : PushToUser(p, u)
               \/ \E e \in Evictions :
                    EvictPick(e) \/ EvictClose(e) \/ \E u \in Users : DisconnectUser(e, u)
               \/ UNCHANGED userVars
        PROVE  IndexInv'
    <2>1. UNCHANGED <<userID, userConns, down, call>>
      BY <1>6 DEF Close, PushPick, PushSend, PushToUser, EvictPick, EvictClose,
                  DisconnectUser, userVars
    <2>2. QED
      BY <1>a, <2>1, IndexFrame
  <1>7. QED
    BY <1>1, <1>2, <1>3, <1>4, <1>5, <1>6 DEF UserNext, Finished

-----------------------------------------------------------------------------
(* What a push owes its user is kept by every step. *)
LEMMA PushStep ==
    ASSUME UserTypes, IndexInv, SteadyCovered, [UserNext]_userVars PROVE SteadyCovered'
  <1>a. UserTypeOK /\ CallPhases /\ FanOutPhases
    BY DEF UserTypes
  <1>1. ASSUME NEW t \in Calls, NEW c \in Conns, NEW u \in Users \cup {Nobody},
               SetUserID(t, c, u)
        PROVE  SteadyCovered'
    <2>1. \A d \in Conns : userID'[d] = IF d = c THEN u ELSE userID[d]
      BY <1>1, <1>a DEF UserTypeOK, SetUserID
    <2>2. \A p \in Pushes : /\ steady'[p] \subseteq steady[p]
                            /\ u # userID[c] => c \notin steady'[p]
      BY <1>1, <1>a DEF UserTypeOK, SetUserID, Unsteady
    <2>3. UNCHANGED <<closed, down, push, got>>
      BY <1>1 DEF SetUserID
    <2>4. \A p \in Pushes : steady[p] \subseteq Conns
      BY <1>a DEF UserTypeOK
    <2>5. QED
      BY <2>1, <2>2, <2>3, <2>4 DEF SteadyCovered
  <1>2. ASSUME \E t \in Calls : DropOld(t) \/ associateUser(t) PROVE SteadyCovered'
    BY <1>2 DEF SteadyCovered, DropOld, associateUser
  <1>3. ASSUME NEW c \in Conns, ReadUser(c) PROVE SteadyCovered'
    <2>1. /\ \A d \in Conns : d # c => down'[d] = down[d]
          /\ \A p \in Pushes : steady'[p] = steady[p] \ {c}
          /\ UNCHANGED <<userID, closed, push, got>>
      BY <1>3, <1>a DEF UserTypeOK, ReadUser, Unsteady
    <2>2. \A p \in Pushes : steady[p] \subseteq Conns
      BY <1>a DEF UserTypeOK
    <2>3. QED
      BY <2>1, <2>2 DEF SteadyCovered
  <1>4. ASSUME NEW c \in Conns, disassociateUser(c) PROVE SteadyCovered'
    <2>1. /\ \A d \in Conns : d # c => down'[d] = down[d]
          /\ down[c].pc = "disassociate"
          /\ UNCHANGED <<userID, closed, push, got, steady>>
      BY <1>4, <1>a DEF UserTypeOK, disassociateUser
    <2>2. \A p \in Pushes : steady[p] \subseteq Conns
      BY <1>a DEF UserTypeOK
    <2>3. QED
      BY <2>1, <2>2 DEF SteadyCovered
  <1>5. ASSUME NEW c \in Conns, Close(c) PROVE SteadyCovered'
    <2>1. /\ \A d \in Conns : d # c => closed'[d] = closed[d]
          /\ down[c].pc = "gone"
          /\ UNCHANGED <<userID, down, push, got, steady>>
      BY <1>5, <1>a DEF UserTypeOK, Close
    <2>2. \A p \in Pushes : steady[p] \subseteq Conns
      BY <1>a DEF UserTypeOK
    <2>3. QED
      BY <2>1, <2>2 DEF SteadyCovered
  <1>6. ASSUME NEW p \in Pushes, NEW u \in Users, PushToUser(p, u)
        PROVE  SteadyCovered'
    <2>1. /\ \A q \in Pushes : q # p => push'[q] = push[q] /\ steady'[q] = steady[q]
          /\ push'[p].pc = "next" /\ push'[p].user = u
          /\ push'[p].todo = {c \in Conns : <<u, c>> \in userConns}
          /\ steady'[p] = {c \in Conns : Settled(c) /\ userID[c] = u /\ ~ closed[c]}
          /\ UNCHANGED <<userID, closed, down, got>>
      BY <1>6, <1>a DEF UserTypeOK, PushToUser, UserSnapshot, ConnsOf
    <2>2. \A c \in steady'[p] \ Overlapping :
             <<u, c>> \in userConns /\ down[c].pc = "up"
      BY <2>1 DEF IndexInv, IndexExact, Settled
    <2>3. ASSUME NEW q \in Pushes, NEW c \in steady'[q] \ Overlapping
          PROVE  /\ push'[q].pc # "idle"
                 /\ userID'[c] = push'[q].user /\ ~ closed'[c] /\ down'[c].pc = "up"
                 /\ \/ c \in got'[q]
                    \/ push'[q].pc = "act" /\ push'[q].conn = c
                    \/ push'[q].pc # "done" /\ c \in push'[q].todo
      <3>1. CASE q = p
        <4>1. c \in Conns /\ userID[c] = u /\ ~ closed[c]
          BY <2>1, <3>1
        <4>2. c \in push'[p].todo
          BY <2>1, <2>2, <2>3, <3>1, <4>1
        <4>3. QED
          BY <2>1, <2>2, <2>3, <3>1, <4>1, <4>2
      <3>2. CASE q # p
        BY <2>1, <3>2 DEF SteadyCovered
      <3>3. QED
        BY <3>1, <3>2
    <2>4. QED
      BY <2>3 DEF SteadyCovered
  <1>7. ASSUME NEW p \in Pushes, PushPick(p) PROVE SteadyCovered'
    <2>1. /\ \A q \in Pushes : q # p => push'[q] = push[q]
          /\ push[p].pc = "next"
          /\ UNCHANGED <<userID, closed, down, got, steady>>
      BY <1>7, <1>a DEF UserTypeOK, PushPick
    <2>2. push[p] \in FanOut
      BY <1>a DEF UserTypeOK
    <2>3. \/ \E c \in push[p].todo :
               /\ push'[p].todo = push[p].todo \ {c}
               /\ push'[p].user = push[p].user
               /\ push'[p].pc \in {"act", "next"}
               /\ userID[c] = push[p].user => push'[p].conn = c /\ push'[p].pc = "act"
          \/ /\ push[p].todo = {} /\ push'[p].pc = "done"
             /\ push'[p].user = push[p].user
      <3>1. CASE \E c \in push[p].todo : push' = [push EXCEPT ![p] = Pick(@, c)]
        BY <1>a, <2>2, <3>1, PickFacts DEF UserTypeOK
      <3>2. CASE push[p].todo = {} /\ push' = [push EXCEPT ![p].pc = "done"]
        BY <1>a, <2>2, <3>2 DEF UserTypeOK, FanOut
      <3>3. QED
        BY <1>7, <3>1, <3>2 DEF PushPick
    <2>4. QED
      BY <2>1, <2>3 DEF SteadyCovered
  <1>8. ASSUME NEW p \in Pushes, PushSend(p) PROVE SteadyCovered'
    <2>1. /\ \A q \in Pushes : q # p => push'[q] = push[q] /\ got'[q] = got[q]
          /\ push[p].pc = "act" /\ push'[p].pc = "next"
          /\ push'[p].user = push[p].user /\ push'[p].todo = push[p].todo
          /\ got[p] \subseteq got'[p]
          /\ ~ closed[push[p].conn] => push[p].conn \in got'[p]
          /\ UNCHANGED <<userID, closed, down, steady>>
      BY <1>8, <1>a DEF UserTypeOK, FanOut, PushSend
    <2>2. QED
      BY <2>1 DEF SteadyCovered
  <1>9. ASSUME NEW e \in Evictions, EvictClose(e) PROVE SteadyCovered'
    <2>1. /\ \A d \in Conns : d # eviction[e].conn => closed'[d] = closed[d]
          /\ \A p \in Pushes : steady'[p] = steady[p] \ {eviction[e].conn}
          /\ UNCHANGED <<userID, down, push, got>>
      BY <1>9, <1>a DEF UserTypeOK, EvictClose, Unsteady
    <2>2. \A p \in Pushes : steady[p] \subseteq Conns
      BY <1>a DEF UserTypeOK
    <2>3. QED
      BY <2>1, <2>2 DEF SteadyCovered
  <1>10. ASSUME \/ \E e \in Evictions : EvictPick(e) \/ \E u \in Users : DisconnectUser(e, u)
                \/ UNCHANGED userVars
         PROVE  SteadyCovered'
    BY <1>10 DEF SteadyCovered, EvictPick, DisconnectUser, userVars
  <1>11. QED
    BY <1>1, <1>2, <1>3, <1>4, <1>5, <1>6, <1>7, <1>8, <1>9, <1>10 DEF UserNext, Finished

-----------------------------------------------------------------------------
(* Initially no call is under way and the index is empty. *)
LEMMA UserInitInv ==
    ASSUME Nobody \notin Users, UserInit
    PROVE  UserTypes /\ IndexInv /\ SteadyCovered
  <1>1. UserTypeOK
    BY DEF UserInit, UserTypeOK, Call, FanOut, IdleFanOut
  <1>2. CallPhases /\ FanOutPhases
    BY DEF UserInit, CallPhases, FanOutPhases, IdleFanOut
  <1>3. OneCall /\ CallWhileUp /\ CallIndex
    BY DEF UserInit, OneCall, CallWhileUp, CallIndex
  <1>4. DownIndex /\ DeadConnsLeave /\ IndexExact
    BY DEF UserInit, DownIndex, DeadConnsLeave, IndexExact
  <1>5. SteadyCovered
    BY DEF UserInit, SteadyCovered
  <1>6. QED
    BY <1>1, <1>2, <1>3, <1>4, <1>5 DEF UserTypes, IndexInv

(* SetUserID and the teardown keep the two copies of a connection's user in  *)
(* step wherever calls do not overlap, for any number of connections, users  *)
(* and calls: the index is exact between calls and forgets dead connections. *)
THEOREM IndexFollowsUser == UserSpec => []IndexFollows
  <1> USE NobodyAssumption
  <1>1. UserTypes /\ IndexInv /\ [UserNext]_userVars => (UserTypes /\ IndexInv)'
    BY UserTypeStep, IndexStep
  <1>2. UserTypes /\ IndexInv => IndexFollows
    BY DEF UserTypes, IndexInv, IndexFollows
  <1>3. QED
    BY <1>1, <1>2, UserInitInv, PTL DEF UserSpec

(* PushToUser reaches every connection that was the user's from the moment *)
(* it took its snapshot, whatever the user's other connections, evictions  *)
(* and teardowns did meanwhile.                                            *)
THEOREM PushesReach == UserSpec => []PushReachesUser
  <1> USE NobodyAssumption
  <1>1. UserTypes /\ IndexInv /\ SteadyCovered /\ [UserNext]_userVars
            => (UserTypes /\ IndexInv /\ SteadyCovered)'
    BY UserTypeStep, IndexStep, PushStep
  <1>2. UserTypes /\ IndexInv /\ SteadyCovered => PushReachesUser
    BY DEF UserTypes, SteadyCovered, PushReachesUser
  <1>3. QED
    BY <1>1, <1>2, UserInitInv, PTL DEF UserSpec
=============================================================================
