--------------------------- MODULE ConnOutputProofs ---------------------------
(***************************************************************************)
(* What ConnOutput promises for every queue capacity, number of items and  *)
(* configuration: the types, that a close loses nothing that was queued,   *)
(* that a connection which must authenticate is watched, that nobody waits *)
(* for what cannot come, and that a stream is delivered whole or ends in   *)
(* an error.                                                               *)
(*                                                                         *)
(* The inductive invariant has two layers.  OutputInv is about the         *)
(* connection: the types with the handler's count (StreamInv), the stage   *)
(* of the close against done and the pump (CloseInv), the authentication   *)
(* timer (PendingIsWatched) and the client's end of the stream             *)
(* (ClientInv).  IntactInv adds the items: who holds the chunker's lock,   *)
(* what frames hold, why things fail, and an unbroken run of items from    *)
(* the consumer back to the handler for as long as the client listens.     *)
(***************************************************************************)
EXTENDS ConnOutput, SequenceTheorems, TLAPS

-----------------------------------------------------------------------------
(* The inductive invariant.                                                *)

\* The handler counts the items it has handed over, and the delay timer is
\* armed only for a buffer that holds something.
StreamInv ==
    /\ hdl.at = "sending" => hdl.next <= Items
    /\ hdl.count = hdl.next - 1
    /\ chk.armed => chk.items # NoItems

\* Whoever closes first closes done, and only then may the pump of a WebSocket
\* leave its loop without a failed write.  What was queued then is still there.
CloseInv ==
    /\ closed <=> closer # "nobody"
    /\ closer = "finished" => done
    /\ cfg.kind = "ws" /\ done => closer = "finished"
    /\ cfg.kind = "ws" /\ pump = "draining" => done
    /\ cfg.kind = "stream" /\ pump = "exited" => done
    /\ cfg.kind = "ws" /\ ~lost => owed <= Len(queue)
    /\ cfg.kind = "ws" /\ pump = "exited" /\ ~lost => done /\ owed = 0
    /\ reader = "gone" => closed

\* A stream the client no longer routes frames to is over, or is about to be
\* ended by the goroutine that took it.
ClientInv ==
    /\ cl.at # "starting" /\ cl.conn = "up" /\ ~cl.entry => cl.serverDone
    /\ cl.at = "started" /\ cl.conn = "down" /\ ~cl.endDue => cl.serverDone
    /\ cl.stopDue => cl.serverDone

OutputInv == TypeOK /\ StreamInv /\ CloseInv /\ PendingIsWatched /\ ClientInv

-----------------------------------------------------------------------------
(* Frames, and the initial state.                                          *)

\* The first of a queue, and the rest of it.
LEMMA FirstOf ==
    ASSUME NEW S, NEW q \in Seq(S), q # <<>>
    PROVE  /\ Len(q) \in Nat /\ Len(q) > 0 /\ Head(q) \in S
           /\ Tail(q) \in Seq(S) /\ Len(Tail(q)) = Len(q) - 1
<1>1. Len(q) \in Nat /\ Len(q) > 0
    OBVIOUS
<1> QED
    BY <1>1

\* The values a frame is built from.
LEMMA FrameFacts ==
    /\ Frame("error") \in AllFrames /\ Frame("auth_ok") \in AllFrames
    /\ Frame("auth_error") \in AllFrames
    /\ \A bad \in BOOLEAN : EndFrame(bad) \in AllFrames
    /\ \A is \in Seq(1 .. Items) : is # NoItems => ItemFrame(is) \in AllFrames
    /\ NoItems \in Seq(1 .. Items)
<1>1. NoItems \in Seq(1 .. Items)
    BY DEF NoItems
<1>2. ASSUME NEW t \in FrameKinds \ {"items"} PROVE Frame(t) \in AllFrames
    BY <1>1, <1>2 DEF Frame, AllFrames
<1>3. {"error", "auth_ok", "auth_error", "end", "end_error"} \subseteq FrameKinds \ {"items"}
    BY DEF FrameKinds
<1>4. \A bad \in BOOLEAN : EndFrame(bad) \in AllFrames
    BY <1>2, <1>3 DEF EndFrame
<1>5. ASSUME NEW is \in Seq(1 .. Items), is # NoItems PROVE ItemFrame(is) \in AllFrames
    BY <1>5 DEF ItemFrame, AllFrames, FrameKinds
<1> QED
    BY <1>1, <1>2, <1>3, <1>4, <1>5

\* A send begins with a frame, and is idle afterwards.
LEMMA SendFacts ==
    /\ Idle \in SendRec
    /\ \A f \in AllFrames, how \in {"raw", "ctx"} : Sending(f, how) \in SendRec
BY FrameFacts DEF Idle, Sending, SendRec

\* What the proofs use of the configuration.
LEMMA ConfigFacts ==
    ASSUME OutputInv
    PROVE  /\ cfg.kind \in {"ws", "stream"} /\ cfg.chunk \in Nat
           /\ QueueCap \in Nat /\ Items \in Nat /\ MaxBreaks \in Nat /\ MaxFrames \in Nat
<1>1. cfg \in AllConfigs
    BY OutputAssumption DEF OutputInv, TypeOK
<1> QED
    BY <1>1, OutputAssumption DEF AllConfigs

\* The connection has been accepted, and nothing was sent on it.
LEMMA InitInv == ASSUME Init PROVE OutputInv
<1> USE OutputAssumption
<1>1. snd \in [Senders -> SendRec]
    BY SendFacts DEF Init
<1>2. hdl \in HandlerRec /\ chk \in ChunkRec /\ cl \in ClientRec
    BY FrameFacts DEF Init, HandlerRec, ChunkRec, ClientRec
<1>3. queue \in Seq(AllFrames) /\ wire \in Seq(AllFrames) /\ Len(queue) = 0
    BY DEF Init
<1>4. breaks \in 0 .. MaxBreaks /\ frames \in 0 .. MaxFrames /\ owed \in 0 .. QueueCap
    BY DEF Init
<1>5. TypeOK
    <2>1. timer \in {"off", "armed", "fired", "stopped", "spent"} /\ cfg \in Configs
        BY DEF Init
    <2>2. Len(queue) <= QueueCap
        BY <1>3
    <2> QED
        BY <1>1, <1>2, <1>3, <1>4, <2>1, <2>2 DEF Init, TypeOK
<1>6. StreamInv /\ ClientInv /\ PendingIsWatched
    BY DEF Init, StreamInv, ClientInv, PendingIsWatched
<1>7. CloseInv
    BY <1>3 DEF Init, CloseInv
<1> QED
    BY <1>5, <1>6, <1>7 DEF OutputInv

-----------------------------------------------------------------------------
(* The client's end of the stream.                                         *)

\* rawStream.end and the first half of rawStream.stop.
LEMMA EndFacts ==
    ASSUME NEW c \in ClientRec, NEW e \in {"none", "error"}
    PROVE  /\ end(c, e) \in ClientRec /\ end(c, e).serverDone
           /\ end(c, e).at = c.at /\ end(c, e).conn = c.conn /\ end(c, e).entry = c.entry
           /\ end(c, e).endDue = c.endDue /\ end(c, e).stopDue = c.stopDue
           /\ stop(c, e) \in ClientRec /\ stop(c, e).serverDone
           /\ stop(c, e).at = c.at /\ stop(c, e).conn = c.conn /\ stop(c, e).entry = c.entry
           /\ stop(c, e).endDue = c.endDue
<1>1. PICK r \in {"none", "error"} : r = FirstErr(c.err, e)
    BY DEF FirstErr, ClientRec
<1>2. end(c, e) = IF c.serverDone THEN c ELSE [c EXCEPT !.serverDone = TRUE, !.err = r]
    BY <1>1 DEF end
<1>3. stop(c, e) = [c EXCEPT !.stopped = TRUE, !.err = r, !.stopDue = ~c.serverDone,
                             !.serverDone = TRUE, !.buf = NoItems]
    BY <1>1 DEF stop
<1>4. [c EXCEPT !.serverDone = TRUE, !.err = r] \in ClientRec
    BY DEF ClientRec
<1>5. stop(c, e) \in ClientRec
    BY ZenonT(60), <1>3, FrameFacts DEF ClientRec
<1> QED
    BY <1>2, <1>3, <1>4, <1>5 DEF ClientRec

\* The steps that touch the client's end of the stream.
ClientSteps ==
    \/ readRequest \/ readCancel
    \/ startRegisters \/ startSends \/ clientReads \/ clientDrops \/ clientEndsStreams
    \/ nextItem \/ nextEnds \/ consumerLeaves \/ callerCancels \/ stopCancels

\* They keep its type, and what ClientInv says of it.
LEMMA ClientStepsKeep ==
    ASSUME OutputInv, ClientSteps PROVE cl' \in ClientRec /\ ClientInv'
<1> USE DEF ClientInv
<1>0. cl \in ClientRec /\ wire \in Seq(AllFrames) /\ ClientInv
    BY DEF OutputInv, TypeOK
<1>1. CASE readRequest \/ readCancel
    BY ZenonT(60), <1>0, <1>1 DEF readRequest, readCancel, ClientRec
<1>2. CASE startRegisters
    BY <1>0, <1>2 DEF startRegisters, ClientRec
<1>3. CASE startSends
    <2>1. CASE cl.conn = "up"
        BY <1>0, <1>3, <2>1 DEF startSends, ClientRec
    <2>2. CASE cl.conn # "up"
        <3>1. PICK c \in ClientRec : c = end(cl, "error") /\ c.serverDone /\ c.conn = cl.conn
            BY <1>0, EndFacts
        <3>2. cl' = [c EXCEPT !.at = "started", !.entry = FALSE]
            BY <1>3, <2>2, <3>1 DEF startSends
        <3> QED
            BY ZenonT(60), <3>1, <3>2 DEF ClientRec
    <2> QED
        BY <2>1, <2>2
<1>4. CASE clientReads
    <2> DEFINE f == Head(wire)
               ended == [cl EXCEPT !.entry = FALSE]
    <2>1. f \in AllFrames /\ f.t \in FrameKinds /\ f.is \in Seq(1 .. Items) /\ cl.conn = "up"
        BY <1>0, <1>4 DEF clientReads, AllFrames
    <2>2. ended \in ClientRec /\ ended.at = cl.at /\ ended.conn = "up"
        BY <1>0, <2>1 DEF ClientRec
    <2>3. CASE f.t = "items"
        <3>1. cl' = push(cl, f.is)
            BY <1>4, <2>3 DEF clientReads
        <3>2. cl.buf \o f.is \in Seq(1 .. Items)
            BY <1>0, <2>1 DEF ClientRec
        <3> HIDE DEF f
        <3> QED
            BY <1>0, <3>1, <3>2 DEF push, ClientRec
    <2>4. CASE f.t \in {"end", "end_error"}
        <3>1. PICK e \in {"none", "error"} : cl' = IF cl.entry THEN end(ended, e) ELSE cl
            BY <1>4, <2>4 DEF clientReads
        <3> HIDE DEF f, ended
        <3>2. end(ended, e) \in ClientRec /\ end(ended, e).serverDone /\ end(ended, e).conn = "up"
            BY <2>2, EndFacts
        <3> QED
            BY <1>0, <3>1, <3>2
    <2>5. CASE f.t = "auth_ok"
        <3>1. cl' = [cl EXCEPT !.ready = TRUE]
            BY <1>4, <2>5 DEF clientReads
        <3> QED
            BY <1>0, <3>1 DEF ClientRec
    <2>6. CASE f.t \in {"auth_error", "error"}
        <3>1. cl' = cl
            BY <1>4, <2>6 DEF clientReads
        <3> QED
            BY <1>0, <3>1
    <2> QED
        BY <2>1, <2>3, <2>4, <2>5, <2>6 DEF FrameKinds
<1>5. CASE clientDrops
    BY <1>0, <1>5 DEF clientDrops, ClientRec
<1>6. CASE clientEndsStreams
    <2>1. PICK c \in ClientRec : c = end(cl, "error") /\ c.serverDone
        BY <1>0, EndFacts
    <2>2. cl' = [c EXCEPT !.endDue = FALSE]
        BY <1>6, <2>1 DEF clientEndsStreams
    <2> QED
        BY <2>1, <2>2 DEF ClientRec
<1>7. CASE nextItem
    <2>1. cl.buf \in Seq(1 .. Items) /\ cl.got \in Seq(1 .. Items) /\ cl.buf # <<>>
        BY <1>0, <1>7 DEF nextItem, ClientRec, NoItems
    <2>2. Tail(cl.buf) \in Seq(1 .. Items) /\ Head(cl.buf) \in 1 .. Items
        BY <2>1, FirstOf
    <2>3. Append(cl.got, Head(cl.buf)) \in Seq(1 .. Items)
        BY <2>1, <2>2
    <2> QED
        BY <1>0, <1>7, <2>2, <2>3 DEF nextItem, ClientRec
<1>8. CASE nextEnds
    <2>1. PICK c \in ClientRec : c = (IF cl.stopped THEN cl ELSE stop(cl, "none"))
                                 /\ (c = cl \/ c.serverDone)
        BY <1>0, EndFacts
    <2>2. cl' = [c EXCEPT !.consumer = "finished"]
        BY <1>8, <2>1 DEF nextEnds
    <2> QED
        BY <1>0, <2>1, <2>2 DEF ClientRec
<1>9. CASE consumerLeaves
    <2>1. PICK c \in ClientRec : c = stop(cl, "none") /\ c.serverDone
        BY <1>0, EndFacts
    <2>2. cl' = [c EXCEPT !.consumer = "left", !.got = NoItems]
        BY <1>9, <2>1 DEF consumerLeaves
    <2> QED
        BY <2>1, <2>2, FrameFacts DEF ClientRec
<1>10. CASE callerCancels
    <2>1. PICK c \in ClientRec : c = stop(cl, "error") /\ c.serverDone
        BY <1>0, EndFacts
    <2>2. cl' = [c EXCEPT !.got = NoItems]
        BY <1>10, <2>1 DEF callerCancels
    <2> QED
        BY <2>1, <2>2, FrameFacts DEF ClientRec
<1>11. CASE stopCancels
    <2>1. cl.stopDue
        BY <1>11 DEF stopCancels
    <2>2. PICK b \in BOOLEAN : b = (cl.conn = "up")
        OBVIOUS
    <2>3. cl' = [cl EXCEPT !.stopDue = FALSE, !.entry = FALSE, !.cancel = b]
        BY <1>11, <2>2 DEF stopCancels
    <2> QED
        BY <1>0, <2>1, <2>3 DEF ClientRec
<1> QED
    BY <1>1, <1>2, <1>3, <1>4, <1>5, <1>6, <1>7, <1>8, <1>9, <1>10, <1>11 DEF ClientSteps

-----------------------------------------------------------------------------
(* The handler and the chunker.                                            *)


\* A flush takes a buffer that holds something, and starts its send.
LEMMA FlushFacts ==
    ASSUME OutputInv, NEW p \in {"handler", "flusher"}, NEW is \in Seq(1 .. Items),
           is # NoItems, flushLocked(p, is)
    PROVE  /\ snd' \in [Senders -> SendRec] /\ chk' \in ChunkRec /\ ~chk'.armed
<1>1. ItemFrame(is) \in AllFrames /\ p \in Senders
    BY FrameFacts DEF Senders
<1>2. Sending(ItemFrame(is), "ctx") \in SendRec
    BY <1>1, SendFacts
<1>3. snd' \in [Senders -> SendRec]
    BY <1>1, <1>2 DEF flushLocked, OutputInv, TypeOK
<1>4. chk' \in ChunkRec /\ ~chk'.armed
    BY FrameFacts DEF flushLocked, OutputInv, TypeOK, ChunkRec
<1> QED
    BY <1>3, <1>4

\* The send of a flush has returned to the chunker.
LEMMA FlushedFacts ==
    ASSUME OutputInv, NEW p \in {"handler", "flusher"}, snd[p].at \in Returned, flushed(p)
    PROVE  chk' \in ChunkRec /\ chk'.armed = chk.armed /\ chk'.items = chk.items
<1>0. chk \in ChunkRec
    BY DEF OutputInv, TypeOK
<1>1. PICK l \in {"free", "handler", "flusher"} : l = IF chk.lock = p THEN "free" ELSE chk.lock
    BY <1>0 DEF ChunkRec
<1>2. PICK e \in {"none", "closed", "canceled", "failed"} :
         e = FirstErr(chk.err, Outcome(snd[p].at))
    BY <1>0 DEF ChunkRec, FirstErr, Outcome, Returned
<1>3. chk' = [chk EXCEPT !.lock = l, !.err = e]
    BY <1>1, <1>2 DEF flushed
<1> QED
    BY <1>0, <1>3 DEF ChunkRec

\* A send of the given sender is over.
LEMMA SendOver ==
    ASSUME OutputInv, NEW p \in Senders, snd' = [snd EXCEPT ![p] = Idle]
    PROVE  snd' \in [Senders -> SendRec]
BY SendFacts DEF OutputInv, TypeOK

\* A send of the given sender begins.
LEMMA SendBegins ==
    ASSUME OutputInv, NEW p \in Senders, NEW f \in AllFrames, NEW how \in {"raw", "ctx"},
           snd' = [snd EXCEPT ![p] = Sending(f, how)]
    PROVE  snd' \in [Senders -> SendRec]
<1>1. Sending(f, how) \in SendRec
    BY SendFacts
<1> QED
    BY <1>1 DEF OutputInv, TypeOK

\* The steps that touch the handler or the chunker.
StreamSteps ==
    \/ readRequest \/ iterationEnds \/ yieldItem \/ chunkAdd \/ yieldReturns
    \/ delayFlush \/ delayFlushReturns \/ chunkClose \/ chunkCloseReturns
    \/ runHooks \/ sendStreamEnd \/ streamOver

\* They keep the types, and count what is handed over.
LEMMA StreamStepsKeep ==
    ASSUME OutputInv, StreamSteps
    PROVE  hdl' \in HandlerRec /\ chk' \in ChunkRec /\ snd' \in [Senders -> SendRec] /\ StreamInv'
<1>0. /\ hdl \in HandlerRec /\ chk \in ChunkRec /\ snd \in [Senders -> SendRec]
      /\ hdl.at = "sending" => hdl.next <= Items
      /\ hdl.count = hdl.next - 1
      /\ chk.armed => chk.items # NoItems
      /\ {"handler", "flusher"} \subseteq Senders
    BY DEF OutputInv, TypeOK, StreamInv, Senders
<1>1. CASE readRequest
    BY <1>0, <1>1 DEF readRequest, HandlerRec, StreamInv
<1>2. CASE iterationEnds
    <2>1. PICK s \in {"hooks", "flushing"}, e \in {"none", "closed", "canceled", "failed"} :
             hdl' = [hdl EXCEPT !.at = s, !.err = e]
        BY <1>0, <1>2 DEF iterationEnds, AfterIteration, HandlerRec
    <2>2. PICK r \in {"none", "closed", "canceled", "failed"} :
             chk' = [chk EXCEPT !.err = r]
        <3>1. chk = [chk EXCEPT !.err = chk.err] /\ chk.err \in {"none", "closed", "canceled", "failed"}
            BY <1>0 DEF ChunkRec
        <3>2. FirstErr(chk.err, "failed") \in {"none", "closed", "canceled", "failed"}
            BY <3>1 DEF FirstErr
        <3>3. chk' = [chk EXCEPT !.err = FirstErr(@, "failed")] \/ chk' = chk
            BY <1>2 DEF iterationEnds
        <3> QED
            BY <3>1, <3>2, <3>3
    <2>3. UNCHANGED snd
        BY <1>2 DEF iterationEnds
    <2> QED
        BY <1>0, <2>1, <2>2, <2>3 DEF HandlerRec, ChunkRec, StreamInv
<1>3. CASE yieldItem
    <2>1. hdl.next \in 1 .. Items /\ <<hdl.next>> \in Seq(1 .. Items) /\ <<hdl.next>> # NoItems
        BY <1>0, <1>3, OutputAssumption DEF yieldItem, HandlerRec, NoItems
    <2>2. snd' \in [Senders -> SendRec]
        BY <1>0, <1>3, <2>1, FrameFacts, SendBegins DEF yieldItem
    <2> QED
        BY <1>0, <1>3, <2>1, <2>2 DEF yieldItem, HandlerRec, StreamInv
<1>4. CASE chunkAdd
    <2> DEFINE items == Append(chk.items, hdl.next)
    <2>1. hdl.next \in 1 .. Items /\ hdl.next <= Items /\ Items \in Nat /\ hdl.next \in Nat
        BY <1>0, <1>4, OutputAssumption DEF chunkAdd, HandlerRec
    <2>2. items \in Seq(1 .. Items) /\ items # NoItems /\ Len(items) = Len(chk.items) + 1
        <3>1. chk.items \in Seq(1 .. Items)
            BY <1>0 DEF ChunkRec
        <3> QED
            BY <2>1, <3>1 DEF NoItems
    <2>3. CASE chk.err # "none"
        BY ZenonT(60), <1>0, <1>4, <2>3 DEF chunkAdd, HandlerRec, ChunkRec, StreamInv
    <2>4. CASE chk.err = "none" /\ Len(items) >= cfg.chunk
        <3>1. hdl' = [hdl EXCEPT !.at = "sending"] /\ flushLocked("handler", items)
            BY <1>4, <2>4 DEF chunkAdd
        <3> HIDE DEF items
        <3>2. snd' \in [Senders -> SendRec] /\ chk' \in ChunkRec /\ ~chk'.armed
            BY <2>2, <3>1, FlushFacts
        <3> QED
            BY <1>0, <2>1, <3>1, <3>2 DEF HandlerRec, StreamInv
    <2>5. CASE chk.err = "none" /\ ~(Len(items) >= cfg.chunk)
        <3>1. /\ hdl' = [hdl EXCEPT !.next = @ + 1, !.count = @ + 1] /\ UNCHANGED snd
              /\ chk' = [chk EXCEPT !.items = items, !.armed = (@ \/ Len(items) = 1)]
            BY <1>4, <2>5 DEF chunkAdd
        <3>2. PICK n \in 1 .. Items + 1, m \in 0 .. Items : n = hdl.next + 1 /\ m = hdl.count + 1
            BY <1>0, <2>1
        <3>3. hdl' = [hdl EXCEPT !.next = n, !.count = m]
            BY <1>0, <3>1, <3>2
        <3>4. hdl' \in HandlerRec /\ hdl'.count = hdl'.next - 1 /\ hdl'.at = "iterating"
            <4>1. m = n - 1
                BY <1>0, <2>1, <3>2
            <4>2. hdl' \in HandlerRec /\ hdl'.next = n /\ hdl'.count = m /\ hdl'.at = hdl.at
                BY <1>0, <3>3 DEF HandlerRec
            <4> QED
                BY <1>4, <4>1, <4>2 DEF chunkAdd
        <3> HIDE DEF items
        <3>5. PICK b \in BOOLEAN : b = (chk.armed \/ Len(items) = 1)
            BY <1>0
        <3>6. chk' = [chk EXCEPT !.items = items, !.armed = b]
            BY <3>1, <3>5
        <3>7. chk' \in ChunkRec /\ chk'.items # NoItems
            BY <1>0, <2>2, <3>6 DEF ChunkRec
        <3> QED
            BY <1>0, <3>1, <3>4, <3>7 DEF StreamInv
    <2> QED
        BY <2>3, <2>4, <2>5
<1>5. CASE yieldReturns
    <2>0. hdl.next \in 1 .. Items /\ hdl.next \in Nat /\ Items \in Nat
        BY <1>0, <1>5, OutputAssumption DEF yieldReturns, HandlerRec
    <2>1. snd' \in [Senders -> SendRec]
        BY <1>0, <1>5, SendOver DEF yieldReturns
    <2>2. chk' \in ChunkRec /\ chk'.armed = chk.armed /\ chk'.items = chk.items
        BY <1>0, <1>5, FlushedFacts DEF yieldReturns
    <2>3. CASE snd["handler"].at = "ok"
        <3>1. PICK n \in 1 .. Items + 1, m \in 0 .. Items : n = hdl.next + 1 /\ m = hdl.count + 1
            BY <1>0, <2>0
        <3>2. hdl' = [hdl EXCEPT !.at = "iterating", !.next = n, !.count = m]
            BY <1>0, <1>5, <2>3, <3>1 DEF yieldReturns
        <3>3. m = n - 1
            BY <1>0, <2>0, <3>1
        <3>4. hdl' \in HandlerRec /\ hdl'.next = n /\ hdl'.count = m /\ hdl'.at = "iterating"
            BY <1>0, <3>2 DEF HandlerRec
        <3> QED
            BY <1>0, <2>1, <2>2, <3>3, <3>4 DEF StreamInv
    <2>4. CASE snd["handler"].at # "ok"
        <3>1. PICK s \in {"hooks", "flushing"}, e \in {"closed", "canceled"} :
                 hdl' = [hdl EXCEPT !.at = s, !.err = e]
            BY <1>5, <2>4 DEF yieldReturns, AfterIteration, Returned
        <3> QED
            BY <1>0, <2>1, <2>2, <3>1 DEF HandlerRec, StreamInv
    <2> QED
        BY <2>3, <2>4
<1>6. CASE delayFlush
    <2>1. CASE chk.err = "none"
        <3>1. chk.items \in Seq(1 .. Items) /\ chk.items # NoItems
            BY <1>0, <1>6 DEF delayFlush, ChunkRec
        <3>2. snd' \in [Senders -> SendRec] /\ chk' \in ChunkRec /\ ~chk'.armed
            BY <1>6, <2>1, <3>1, FlushFacts DEF delayFlush
        <3> QED
            BY <1>0, <1>6, <3>2 DEF delayFlush, StreamInv
    <2>2. CASE chk.err # "none"
        BY <1>0, <1>6, <2>2 DEF delayFlush, ChunkRec, StreamInv
    <2> QED
        BY <2>1, <2>2
<1>7. CASE delayFlushReturns
    <2>1. snd' \in [Senders -> SendRec]
        BY <1>0, <1>7, SendOver DEF delayFlushReturns
    <2>2. chk' \in ChunkRec /\ chk'.armed = chk.armed /\ chk'.items = chk.items
        BY <1>0, <1>7, FlushedFacts DEF delayFlushReturns
    <2> QED
        BY <1>0, <1>7, <2>1, <2>2 DEF delayFlushReturns, StreamInv
<1>8. CASE chunkClose
    <2>1. CASE chk.items # NoItems
        <3>1. chk.items \in Seq(1 .. Items)
            BY <1>0 DEF ChunkRec
        <3>2. snd' \in [Senders -> SendRec] /\ chk' \in ChunkRec /\ ~chk'.armed
            BY <1>8, <2>1, <3>1, FlushFacts DEF chunkClose
        <3> QED
            BY <1>0, <1>8, <2>1, <3>2 DEF chunkClose, StreamInv
    <2>2. CASE chk.items = NoItems
        <3>1. PICK e \in {"none", "closed", "canceled", "failed"} : e = FirstErr(hdl.err, chk.err)
            BY <1>0 DEF FirstErr, HandlerRec, ChunkRec
        <3>2. hdl' = [hdl EXCEPT !.at = "hooks", !.err = e] /\ UNCHANGED snd
              /\ chk' = [chk EXCEPT !.armed = FALSE]
            BY <1>8, <2>2, <3>1 DEF chunkClose
        <3> QED
            BY <1>0, <3>2 DEF HandlerRec, ChunkRec, StreamInv
    <2> QED
        BY <2>1, <2>2
<1>9. CASE chunkCloseReturns
    <2>1. snd' \in [Senders -> SendRec]
        BY <1>0, <1>9, SendOver DEF chunkCloseReturns
    <2>2. chk' \in ChunkRec /\ chk'.armed = chk.armed /\ chk'.items = chk.items
        BY <1>0, <1>9, FlushedFacts DEF chunkCloseReturns
    <2>3. PICK e \in {"none", "closed", "canceled", "failed"} :
             e = FirstErr(hdl.err, Outcome(snd["handler"].at))
        BY <1>0, <1>9 DEF chunkCloseReturns, FirstErr, Outcome, HandlerRec, Returned
    <2>4. hdl' = [hdl EXCEPT !.at = "hooks", !.err = e]
        BY <1>9, <2>3 DEF chunkCloseReturns
    <2> QED
        BY <1>0, <2>1, <2>2, <2>4 DEF HandlerRec, StreamInv
<1>10. CASE runHooks
    BY <1>0, <1>10 DEF runHooks, HandlerRec, StreamInv
<1>11. CASE sendStreamEnd
    <2>1. PICK b \in BOOLEAN : snd' = [snd EXCEPT !["handler"] = Sending(EndFrame(b), "raw")]
        BY <1>11 DEF sendStreamEnd
    <2>2. snd' \in [Senders -> SendRec]
        BY <1>0, <2>1, FrameFacts, SendBegins
    <2> QED
        BY <1>0, <1>11, <2>2 DEF sendStreamEnd, HandlerRec, StreamInv
<1>12. CASE streamOver
    <2>1. snd' \in [Senders -> SendRec]
        BY <1>0, <1>12, SendOver DEF streamOver
    <2> QED
        BY <1>0, <1>12, <2>1 DEF streamOver, HandlerRec, StreamInv
<1> QED
    BY <1>1, <1>2, <1>3, <1>4, <1>5, <1>6, <1>7, <1>8, <1>9, <1>10, <1>11, <1>12 DEF StreamSteps

-----------------------------------------------------------------------------
(* The other senders.                                                      *)

\* The three steps of a send.
SendSteps == \E p \in Senders : sendCheck(p) \/ enqueue(p) \/ sendReleased(p)

\* The steps of the read loop and of the authentication timer.
ReadSteps ==
    \/ authAccepted \/ authRefused \/ refuseFrame \/ answerSent \/ authRejects
    \/ readRequest \/ readCancel \/ readFails \/ runUnregisters
    \/ authTimerFires \/ authTimerCloses

\* The steps of the closers and of the write pump.
CloseSteps ==
    \/ closeWS \/ closeGracefullyWS \/ closeStream \/ stopServer
    \/ pumpWrites \/ pumpFails \/ pumpSeesDone \/ drainEnds

\* A send that goes on, is queued or is released keeps its frame.
LEMMA SendStepsKeep ==
    ASSUME OutputInv, SendSteps PROVE snd' \in [Senders -> SendRec]
<1>0. snd \in [Senders -> SendRec]
    BY DEF OutputInv, TypeOK
<1>1. PICK p \in Senders : sendCheck(p) \/ enqueue(p) \/ sendReleased(p)
    BY DEF SendSteps
<1>2. PICK s \in {"select", "ok", "closed", "canceled"} : snd' = [snd EXCEPT ![p].at = s]
    BY <1>1 DEF sendCheck, enqueue, sendReleased
<1>3. snd[p] \in SendRec
    BY <1>0
<1>4. [snd[p] EXCEPT !.at = s] \in SendRec
    BY <1>3 DEF SendRec, Returned
<1> QED
    BY <1>0, <1>2, <1>4

\* The read loop and the timer send frames without items.
LEMMA ReadStepsKeep ==
    ASSUME OutputInv, ReadSteps PROVE snd' \in [Senders -> SendRec]
<1>0. "reader" \in Senders /\ "timer" \in Senders /\ snd \in [Senders -> SendRec]
    BY DEF Senders, OutputInv, TypeOK
<1>1. ASSUME NEW f \in {"auth_ok", "auth_error", "error"}, NEW p \in Senders,
             snd' = [snd EXCEPT ![p] = Sending(Frame(f), "raw")]
      PROVE  snd' \in [Senders -> SendRec]
    <2>1. Frame(f) \in AllFrames
        BY FrameFacts
    <2> QED
        BY <1>1, <2>1, SendBegins
<1>2. CASE authAccepted \/ authRefused \/ refuseFrame
    <2>1. PICK f \in {"auth_ok", "auth_error", "error"} :
             snd' = [snd EXCEPT !["reader"] = Sending(Frame(f), "raw")]
        BY <1>2 DEF authAccepted, authRefused, refuseFrame, Answers
    <2> QED
        BY <1>0, <1>1, <2>1
<1>3. CASE authTimerFires
    BY <1>0, <1>1, <1>3 DEF authTimerFires
<1>4. CASE answerSent \/ authRejects \/ authTimerCloses
    BY <1>0, <1>4, SendOver DEF answerSent, authRejects, authTimerCloses
<1>5. CASE readRequest \/ readCancel \/ readFails \/ runUnregisters
    BY <1>0, <1>5 DEF readRequest, readCancel, readFails, runUnregisters
<1> QED
    BY <1>2, <1>3, <1>4, <1>5 DEF ReadSteps

-----------------------------------------------------------------------------
(* The close and the write pump.                                           *)

\* The state of the connection below the read loop has its type.
ServerTypes ==
    /\ cfg \in Configs
    /\ breaks \in 0 .. MaxBreaks
    /\ link \in {"up", "closeSent", "down"}
    /\ queue \in Seq(AllFrames) /\ Len(queue) <= QueueCap
    /\ wire \in Seq(AllFrames)
    /\ done \in BOOLEAN /\ lost \in BOOLEAN /\ closed \in BOOLEAN
    /\ pump \in {"select", "draining", "exited"}
    /\ owed \in 0 .. QueueCap
    /\ closer \in {"nobody", "reader", "timer", "run", "stop", "finished"}

\* A second closer changes nothing; the first one is on its way to transport.Close.
LEMMA MarksClosedFacts ==
    ASSUME OutputInv, NEW who \in {"reader", "timer", "run", "stop"}, marksClosed(who)
    PROVE  /\ closed' /\ closed' \in BOOLEAN /\ ctx' \in BOOLEAN
           /\ closer' \in {"reader", "timer", "run", "stop", "finished"}
           /\ closer' = "finished" <=> closer = "finished"
<1>1. /\ closed \in BOOLEAN /\ ctx \in BOOLEAN
      /\ closed <=> closer # "nobody"
      /\ closer \in {"nobody", "reader", "timer", "run", "stop", "finished"}
    BY DEF OutputInv, TypeOK, CloseInv
<1>2. CASE closed
    BY <1>1, <1>2 DEF marksClosed
<1>3. CASE ~closed
    BY <1>1, <1>3 DEF marksClosed
<1> QED
    BY <1>2, <1>3

\* A send puts its frame behind what is queued, if there is room.
LEMMA SendKeepsServer ==
    ASSUME OutputInv, SendSteps PROVE ServerTypes' /\ CloseInv'
<1>0. ServerTypes /\ CloseInv /\ QueueCap \in Nat /\ snd \in [Senders -> SendRec]
    BY ConfigFacts DEF OutputInv, TypeOK, ServerTypes
<1>1. PICK p \in Senders : sendCheck(p) \/ enqueue(p) \/ sendReleased(p)
    BY DEF SendSteps
<1>2. CASE sendCheck(p) \/ sendReleased(p)
    BY <1>0, <1>2 DEF sendCheck, sendReleased, server, ServerTypes, CloseInv
<1>3. CASE enqueue(p)
    <2>1. snd[p].f \in AllFrames
        BY <1>0 DEF SendRec
    <2>2. queue \in Seq(AllFrames) /\ Len(queue) < QueueCap /\ queue' = Append(queue, snd[p].f)
        BY <1>0, <1>3 DEF ServerTypes, enqueue
    <2>3. queue' \in Seq(AllFrames) /\ Len(queue') = Len(queue) + 1 /\ Len(queue) \in Nat
        BY <2>1, <2>2
    <2>4. Len(queue') <= QueueCap
        BY <1>0, <2>2, <2>3
    <2>5. /\ UNCHANGED <<cfg, breaks, link, wire, done, pump, lost, owed, closed, closer, reader>>
          /\ owed \in Nat
        BY <1>0, <1>3 DEF enqueue, ServerTypes
    <2>6. ServerTypes'
        BY <1>0, <2>3, <2>4, <2>5 DEF ServerTypes
    <2>7. owed <= Len(queue) => owed' <= Len(queue')
        BY <2>3, <2>5
    <2> QED
        BY <1>0, <2>5, <2>6, <2>7 DEF CloseInv
<1> QED
    BY <1>1, <1>2, <1>3

\* The pump returns, after a failed write or with nothing left to write.
LEMMA PumpReturnsKeeps ==
    ASSUME OutputInv, pumpReturns, UNCHANGED <<cfg, wire, owed, closed, closer, reader>>,
           breaks' \in 0 .. MaxBreaks,
           queue' \in Seq(AllFrames), Len(queue') <= QueueCap, lost' \in BOOLEAN,
           cfg.kind = "ws" /\ ~lost' => ~lost /\ done /\ owed = 0 /\ queue' = queue
    PROVE  ServerTypes' /\ CloseInv'
<1>0. ServerTypes /\ CloseInv /\ cfg.kind \in {"ws", "stream"}
    BY ConfigFacts DEF OutputInv, TypeOK, ServerTypes
<1>1. pump' = "exited" /\ link' = "down" /\ done' = (done \/ cfg.kind = "stream")
    BY DEF pumpReturns
<1>2. done' \in BOOLEAN
    BY <1>0, <1>1 DEF ServerTypes
<1>3. ServerTypes'
    BY <1>0, <1>1, <1>2 DEF ServerTypes
<1>4. cfg'.kind = "ws" /\ ~lost' => owed' <= Len(queue') /\ done' /\ owed' = 0
    BY <1>0, <1>1 DEF CloseInv
<1>5. /\ (cfg.kind = "ws" => done' = done) /\ (cfg.kind = "stream" => done')
      /\ (done => done')
    BY <1>0, <1>1, <1>2 DEF ServerTypes
<1> QED
    BY <1>0, <1>1, <1>3, <1>4, <1>5 DEF CloseInv

\* The closers and the pump.
LEMMA CloseKeepsServer ==
    ASSUME OutputInv, CloseSteps PROVE ServerTypes' /\ CloseInv'
<1>0. /\ ServerTypes /\ CloseInv /\ QueueCap \in Nat /\ MaxBreaks \in Nat
      /\ cfg.kind \in {"ws", "stream"} /\ Len(queue) \in Nat /\ owed \in Nat
    BY ConfigFacts DEF OutputInv, TypeOK, ServerTypes
<1>1. CASE closeWS
    <2>1. owed' \in 0 .. QueueCap
        BY <1>0, <1>1 DEF closeWS, ServerTypes
    <2>2. ServerTypes'
        BY <1>0, <1>1, <2>1 DEF closeWS, ServerTypes
    <2>3. cfg.kind = "ws" /\ pump = "exited" /\ ~lost => closer = "finished"
        BY <1>0 DEF CloseInv
    <2>4. owed' <= Len(queue')
        BY <1>0, <1>1 DEF closeWS
    <2> QED
        BY <1>0, <1>1, <2>2, <2>3, <2>4 DEF closeWS, CloseInv
<1>2. CASE closeGracefullyWS
    BY <1>0, <1>2 DEF closeGracefullyWS, ServerTypes, CloseInv
<1>3. CASE closeStream
    BY <1>0, <1>3 DEF closeStream, ServerTypes, CloseInv
<1>4. CASE stopServer
    <2>1. marksClosed("stop") /\ ~closed
        BY <1>4 DEF stopServer
    <2>2. closed' = TRUE /\ closer' = "stop" /\ closer = "nobody"
        BY <1>0, <2>1 DEF marksClosed, CloseInv
    <2>3. breaks' \in 0 .. MaxBreaks
        BY <1>0, <1>4 DEF stopServer, ServerTypes
    <2>4. UNCHANGED <<cfg, link, queue, wire, done, pump, lost, owed, reader>>
        BY <1>4 DEF stopServer
    <2> QED
        BY <1>0, <2>2, <2>3, <2>4 DEF ServerTypes, CloseInv
<1>5. CASE pumpWrites
    <2>1. queue \in Seq(AllFrames) /\ queue # <<>> /\ wire \in Seq(AllFrames)
        BY <1>0, <1>5 DEF pumpWrites, ServerTypes
    <2>2. /\ Len(queue) > 0 /\ Head(queue) \in AllFrames /\ Tail(queue) \in Seq(AllFrames)
          /\ Len(Tail(queue)) = Len(queue) - 1
        BY <2>1, FirstOf
    <2>3. queue' \in Seq(AllFrames) /\ Len(queue') = Len(queue) - 1 /\ wire' \in Seq(AllFrames)
        BY <1>5, <2>1, <2>2 DEF pumpWrites
    <2>4. Len(queue') <= QueueCap
        BY <1>0, <2>3 DEF ServerTypes
    <2>5. owed' \in 0 .. QueueCap /\ (owed <= Len(queue) => owed' <= Len(queue'))
        <3>1. owed' = IF owed > 0 THEN owed - 1 ELSE 0
            BY <1>5 DEF pumpWrites
        <3>2. owed <= QueueCap
            BY <1>0 DEF ServerTypes
        <3> QED
            BY <1>0, <2>2, <2>3, <3>1, <3>2
    <2>6. /\ UNCHANGED <<cfg, breaks, link, done, pump, lost, closed, closer, reader>>
          /\ pump # "exited"
        BY <1>5 DEF pumpWrites
    <2>7. ServerTypes'
        BY <1>0, <2>3, <2>4, <2>5, <2>6 DEF ServerTypes
    <2> QED
        BY <1>0, <2>5, <2>6, <2>7 DEF CloseInv
<1>6. CASE pumpFails
    <2>1. queue' \in Seq(AllFrames) /\ Len(queue') <= QueueCap
        <3>1. CASE queue = <<>>
            BY <1>0, <1>6, <3>1 DEF pumpFails, ServerTypes
        <3>2. CASE queue # <<>>
            <4>1. queue \in Seq(AllFrames) /\ queue' = Tail(queue) /\ Len(queue) <= QueueCap
                BY <1>0, <1>6, <3>2 DEF pumpFails, ServerTypes
            <4>2. Tail(queue) \in Seq(AllFrames) /\ Len(Tail(queue)) = Len(queue) - 1
                BY <3>2, <4>1, FirstOf
            <4> QED
                BY <1>0, <4>1, <4>2
        <3> QED
            BY <3>1, <3>2
    <2>2. breaks' \in 0 .. MaxBreaks
        BY <1>0, <1>6 DEF pumpFails, ServerTypes
    <2>3. lost' = TRUE /\ pumpReturns /\ UNCHANGED <<cfg, wire, owed, closed, closer, reader>>
        BY <1>6 DEF pumpFails
    <2> QED
        BY <2>1, <2>2, <2>3, PumpReturnsKeeps
<1>7. CASE pumpSeesDone
    <2>1. CASE cfg.kind = "ws"
        BY <1>0, <1>7, <2>1 DEF pumpSeesDone, ServerTypes, CloseInv
    <2>2. CASE cfg.kind # "ws"
        <3>1. pumpReturns /\ UNCHANGED <<cfg, breaks, queue, wire, lost, owed, closed, closer, reader>>
            BY <1>7, <2>2 DEF pumpSeesDone
        <3> QED
            BY <1>0, <2>2, <3>1, PumpReturnsKeeps DEF ServerTypes
    <2> QED
        BY <2>1, <2>2
<1>8. CASE drainEnds
    <2>1. /\ pumpReturns /\ pump = "draining" /\ queue = <<>>
          /\ UNCHANGED <<cfg, breaks, queue, wire, lost, owed, closed, closer, reader>>
        BY <1>8 DEF drainEnds
    <2>2. cfg.kind = "ws" /\ ~lost => done /\ owed = 0
        <3>1. Len(queue) = 0
            BY <2>1
        <3> QED
            BY <1>0, <2>1, <3>1 DEF CloseInv
    <2> QED
        BY <1>0, <2>1, <2>2, PumpReturnsKeeps DEF ServerTypes
<1> QED
    BY <1>1, <1>2, <1>3, <1>4, <1>5, <1>6, <1>7, <1>8 DEF CloseSteps

\* The read loop and the timer close through marksClosed.
LEMMA ReadKeepsServer ==
    ASSUME OutputInv, ReadSteps PROVE ServerTypes' /\ CloseInv'
<1>0. ServerTypes /\ CloseInv /\ cfg.kind \in {"ws", "stream"}
    BY ConfigFacts DEF OutputInv, TypeOK, ServerTypes
<1>1. CASE authAccepted \/ authRefused \/ refuseFrame \/ answerSent \/ readRequest \/ readCancel
           \/ readFails \/ authTimerFires
    <2>1. UNCHANGED server /\ (reader' = "gone" => reader = "gone")
        BY <1>1 DEF authAccepted, authRefused, refuseFrame, answerSent, readRequest, readCancel,
                    readFails, authTimerFires, Answers
    <2> QED
        BY <1>0, <2>1 DEF server, ServerTypes, CloseInv
<1>2. CASE authRejects /\ authed
    BY <1>0, <1>2 DEF authRejects, ServerTypes, CloseInv
<1>3. CASE (authRejects /\ ~authed) \/ authTimerCloses
    <2>1. /\ UNCHANGED <<cfg, breaks, link, queue, wire, done, pump, lost, owed>>
          /\ \E who \in {"reader", "timer", "run", "stop"} : marksClosed(who)
        BY <1>3 DEF authRejects, authTimerCloses
    <2>2. /\ closed' /\ closed' \in BOOLEAN
          /\ closer' \in {"reader", "timer", "run", "stop", "finished"}
          /\ closer' = "finished" <=> closer = "finished"
        BY <2>1, MarksClosedFacts
    <2> QED
        BY <1>0, <2>1, <2>2 DEF ServerTypes, CloseInv
<1>4. CASE runUnregisters
    <2>1. /\ UNCHANGED <<cfg, breaks, queue, wire, pump, lost, owed>>
          /\ link' = "down" /\ done' = (done \/ cfg.kind = "stream") /\ marksClosed("run")
        BY <1>4 DEF runUnregisters
    <2>2. /\ closed' /\ closed' \in BOOLEAN
          /\ closer' \in {"reader", "timer", "run", "stop", "finished"}
          /\ closer' = "finished" <=> closer = "finished"
        BY <2>1, MarksClosedFacts
    <2>3. /\ done' \in BOOLEAN /\ (cfg.kind = "ws" => done' = done)
          /\ (cfg.kind = "stream" => done')
        BY <1>0, <2>1 DEF ServerTypes
    <2>4. ServerTypes'
        BY <1>0, <2>1, <2>2, <2>3 DEF ServerTypes
    <2> QED
        BY <1>0, <2>1, <2>2, <2>3, <2>4 DEF CloseInv
<1> QED
    BY <1>1, <1>2, <1>3, <1>4 DEF ReadSteps

\* The stream and the client leave the close alone; the client may drop the link.
LEMMA RestKeepsServer ==
    ASSUME OutputInv, StreamSteps \/ ClientSteps PROVE ServerTypes' /\ CloseInv'
<1>0. ServerTypes /\ CloseInv /\ MaxBreaks \in Nat
    BY ConfigFacts DEF OutputInv, TypeOK, ServerTypes
<1>1. CASE clientReads
    <2>1. wire \in Seq(AllFrames) /\ wire # <<>> /\ wire' = Tail(wire)
        BY <1>0, <1>1 DEF clientReads, ServerTypes
    <2>2. wire' \in Seq(AllFrames)
        BY <2>1, FirstOf
    <2>3. UNCHANGED <<cfg, breaks, link, queue, done, pump, lost, owed, closed, closer, reader>>
        BY <1>1 DEF clientReads, srv
    <2> QED
        BY <1>0, <2>2, <2>3 DEF ServerTypes, CloseInv
<1>2. CASE clientDrops
    <2>1. breaks' \in 0 .. MaxBreaks
        BY <1>0, <1>2 DEF clientDrops, ServerTypes
    <2>2. /\ link' = "down" /\ wire' = <<>>
          /\ UNCHANGED <<cfg, queue, done, pump, lost, owed, closed, closer, reader>>
        BY <1>2 DEF clientDrops, srv
    <2> QED
        BY <1>0, <2>1, <2>2 DEF ServerTypes, CloseInv
<1>3. CASE ~clientReads /\ ~clientDrops
    <2>1. CASE StreamSteps
        <3>1. UNCHANGED <<server, reader>>
            BY <2>1 DEF StreamSteps, readRequest, iterationEnds, yieldItem, chunkAdd, yieldReturns,
                        delayFlush, delayFlushReturns, chunkClose, chunkCloseReturns, runHooks,
                        sendStreamEnd, streamOver
        <3> QED
            BY <1>0, <3>1 DEF server, ServerTypes, CloseInv
    <2>2. CASE ClientSteps
        <3>1. UNCHANGED <<server, reader>>
            BY <1>3, <2>2 DEF ClientSteps, readRequest, readCancel, startRegisters, startSends,
                              clientEndsStreams, nextItem, nextEnds, consumerLeaves, callerCancels,
                              stopCancels, srv
        <3> QED
            BY <1>0, <3>1 DEF server, ServerTypes, CloseInv
    <2> QED
        BY <2>1, <2>2
<1> QED
    BY <1>1, <1>2, <1>3

-----------------------------------------------------------------------------
(* The read loop and the authentication timer.                             *)

\* The state of the read loop, of the authentication and of the request's context.
ReaderTypes ==
    /\ authed \in BOOLEAN /\ ctx \in BOOLEAN
    /\ timer \in {"off", "armed", "fired", "stopped", "spent"}
    /\ reader \in {"read", "answer", "refuse", "reject", "failed", "gone"}
    /\ frames \in 0 .. MaxFrames

\* The timer of a connection that has not authenticated goes from armed to fired,
\* and from fired to a closed connection.
LEMMA ReadKeepsReader ==
    ASSUME OutputInv, ReadSteps PROVE ReaderTypes' /\ PendingIsWatched'
<1>0. ReaderTypes /\ PendingIsWatched /\ MaxFrames \in Nat
    BY ConfigFacts DEF OutputInv, TypeOK, ReaderTypes
<1>1. frames' \in 0 .. MaxFrames
    <2>1. CASE frames' = frames
        BY <1>0, <2>1 DEF ReaderTypes
    <2>2. CASE frames > 0 /\ frames' = frames - 1
        BY <1>0, <2>2 DEF ReaderTypes
    <2> QED
        BY <2>1, <2>2 DEF ReadSteps, authAccepted, authRefused, refuseFrame, answerSent, authRejects,
               readRequest, readCancel, readFails, runUnregisters, authTimerFires, authTimerCloses
<1>2. CASE authAccepted
    <2>1. UNCHANGED <<cfg, ctx, closed>> /\ reader' = "answer"
        BY <1>2 DEF authAccepted, server, Answers
    <2>2. CASE cfg.auth = "off"
        <3>1. UNCHANGED <<authed, timer>>
            BY <1>2, <2>2 DEF authAccepted
        <3> QED
            BY <1>0, <1>1, <2>1, <3>1 DEF ReaderTypes, PendingIsWatched
    <2>3. CASE cfg.auth # "off"
        <3>1. authed' = TRUE /\ (timer' = timer \/ timer' = "stopped")
            BY <1>2, <2>3 DEF authAccepted, stopAuthTimer
        <3> QED
            BY <1>0, <1>1, <2>1, <3>1 DEF ReaderTypes, PendingIsWatched
    <2> QED
        BY <2>2, <2>3
<1>3. CASE authRefused \/ refuseFrame \/ answerSent \/ readFails
    <2>1. /\ UNCHANGED <<cfg, ctx, closed, authed, timer>>
          /\ reader' \in {"reject", "refuse", "read", "failed"}
        BY <1>3 DEF authRefused, refuseFrame, answerSent, readFails, server, Answers
    <2> QED
        BY <1>0, <1>1, <2>1 DEF ReaderTypes, PendingIsWatched
<1>4. CASE authRejects /\ authed
    BY <1>0, <1>1, <1>4 DEF authRejects, ReaderTypes, PendingIsWatched
<1>5. CASE (authRejects /\ ~authed) \/ runUnregisters \/ authTimerCloses
    <2>1. /\ \E who \in {"reader", "timer", "run", "stop"} : marksClosed(who)
          /\ authed' = authed /\ reader' \in {"read", "gone", reader}
          /\ timer' \in {timer, "spent"}
        BY <1>5 DEF authRejects, runUnregisters, authTimerCloses
    <2>2. closed' /\ ctx' \in BOOLEAN
        BY <2>1, MarksClosedFacts
    <2> QED
        BY <1>0, <1>1, <2>1, <2>2 DEF ReaderTypes, PendingIsWatched
<1>6. CASE readRequest
    BY <1>0, <1>1, <1>6 DEF readRequest, server, ReaderTypes, PendingIsWatched
<1>7. CASE readCancel
    <2>1. ctx' \in BOOLEAN /\ UNCHANGED <<cfg, closed, authed, timer, reader>>
        BY <1>7 DEF readCancel, server
    <2> QED
        BY <1>0, <1>1, <2>1 DEF ReaderTypes, PendingIsWatched
<1>8. CASE authTimerFires
    BY <1>0, <1>1, <1>8 DEF authTimerFires, server, ReaderTypes, PendingIsWatched
<1> QED
    BY <1>2, <1>3, <1>4, <1>5, <1>6, <1>7, <1>8 DEF ReadSteps

\* Nobody else touches it, but for a server that stops.
LEMMA RestKeepsReader ==
    ASSUME OutputInv, SendSteps \/ CloseSteps \/ StreamSteps \/ (ClientSteps /\ ~readCancel)
    PROVE  ReaderTypes' /\ PendingIsWatched'
<1>0. ReaderTypes /\ PendingIsWatched
    BY DEF OutputInv, TypeOK, ReaderTypes
<1>1. CASE stopServer
    <2>1. UNCHANGED <<cfg, authed, timer, reader, frames>> /\ marksClosed("stop")
        BY <1>1 DEF stopServer
    <2>2. closed' /\ ctx' \in BOOLEAN
        BY <2>1, MarksClosedFacts
    <2> QED
        BY <1>0, <2>1, <2>2 DEF ReaderTypes, PendingIsWatched
<1>2. CASE ~stopServer
    <2> SUFFICES UNCHANGED <<cfg, authed, timer, reader, frames, ctx, closed>>
        BY <1>0 DEF ReaderTypes, PendingIsWatched
    <2>1. CASE SendSteps
        BY <2>1 DEF SendSteps, sendCheck, enqueue, sendReleased, server
    <2>2. CASE CloseSteps
        BY <1>2, <2>2 DEF CloseSteps, closeWS, closeGracefullyWS, closeStream, pumpWrites,
                          pumpFails, pumpSeesDone, drainEnds
    <2>3. CASE StreamSteps
        BY <2>3 DEF StreamSteps, readRequest, iterationEnds, yieldItem, chunkAdd, yieldReturns,
                    delayFlush, delayFlushReturns, chunkClose, chunkCloseReturns, runHooks,
                    sendStreamEnd, streamOver, server
    <2>4. CASE ClientSteps /\ ~readCancel
        BY <2>4 DEF ClientSteps, readRequest, startRegisters, startSends, clientReads, clientDrops,
                    clientEndsStreams, nextItem, nextEnds, consumerLeaves, callerCancels,
                    stopCancels, srv, server
    <2> QED
        BY <2>1, <2>2, <2>3, <2>4
<1> QED
    BY <1>1, <1>2

-----------------------------------------------------------------------------
(* Putting the parts together.                                             *)

\* The parts of the type invariant.
LEMMA TypesTogether ==
    /\ TypeOK <=> /\ ServerTypes /\ ReaderTypes /\ snd \in [Senders -> SendRec]
                  /\ hdl \in HandlerRec /\ chk \in ChunkRec /\ cl \in ClientRec
    /\ TypeOK' <=> /\ ServerTypes' /\ ReaderTypes' /\ snd' \in [Senders -> SendRec]
                   /\ hdl' \in HandlerRec /\ chk' \in ChunkRec /\ cl' \in ClientRec
BY DEF TypeOK, ServerTypes, ReaderTypes

\* Steps that are not the handler's leave it and the chunker alone.
LEMMA HandlerUntouched ==
    ASSUME SendSteps \/ CloseSteps \/ (ReadSteps /\ ~readRequest) \/ (ClientSteps /\ ~readRequest)
    PROVE  UNCHANGED <<hdl, chk>>
<1>1. CASE SendSteps
    BY <1>1 DEF SendSteps, sendCheck, enqueue, sendReleased
<1>2. CASE CloseSteps
    BY <1>2 DEF CloseSteps, closeWS, closeGracefullyWS, closeStream, stopServer, pumpWrites,
                pumpFails, pumpSeesDone, drainEnds
<1>3. CASE ReadSteps /\ ~readRequest
    BY <1>3 DEF ReadSteps, authAccepted, authRefused, refuseFrame, answerSent, authRejects,
                readCancel, readFails, runUnregisters, authTimerFires, authTimerCloses
<1>4. CASE ClientSteps /\ ~readRequest
    BY <1>4 DEF ClientSteps, readCancel, startRegisters, startSends, clientReads, clientDrops,
                clientEndsStreams, nextItem, nextEnds, consumerLeaves, callerCancels,
                stopCancels, srv
<1> QED
    BY <1>1, <1>2, <1>3, <1>4

\* Steps that are not the client's leave its end of the stream alone.
LEMMA ClientUntouched ==
    ASSUME \/ SendSteps \/ CloseSteps \/ (StreamSteps /\ ~readRequest)
           \/ (ReadSteps /\ ~readRequest /\ ~readCancel)
    PROVE  UNCHANGED cl
<1>1. CASE SendSteps
    BY <1>1 DEF SendSteps, sendCheck, enqueue, sendReleased
<1>2. CASE CloseSteps
    BY <1>2 DEF CloseSteps, closeWS, closeGracefullyWS, closeStream, stopServer, pumpWrites,
                pumpFails, pumpSeesDone, drainEnds
<1>3. CASE StreamSteps /\ ~readRequest
    BY <1>3 DEF StreamSteps, iterationEnds, yieldItem, chunkAdd, yieldReturns,
                delayFlush, delayFlushReturns, chunkClose, chunkCloseReturns, runHooks,
                sendStreamEnd, streamOver
<1>4. CASE ReadSteps /\ ~readRequest /\ ~readCancel
    BY <1>4 DEF ReadSteps, authAccepted, authRefused, refuseFrame, answerSent, authRejects,
                readFails, runUnregisters, authTimerFires, authTimerCloses
<1> QED
    BY <1>1, <1>2, <1>3, <1>4

\* The closers, the pump and the client send nothing.
LEMMA SendsUntouched ==
    ASSUME CloseSteps \/ ClientSteps PROVE UNCHANGED snd
<1>1. CASE CloseSteps
    BY <1>1 DEF CloseSteps, closeWS, closeGracefullyWS, closeStream, stopServer, pumpWrites,
                pumpFails, pumpSeesDone, drainEnds
<1>2. CASE ClientSteps
    BY <1>2 DEF ClientSteps, readRequest, readCancel, startRegisters, startSends, clientReads,
                clientDrops, clientEndsStreams, nextItem, nextEnds, consumerLeaves, callerCancels,
                stopCancels, srv
<1> QED
    BY <1>1, <1>2

\* Nothing happens.
LEMMA StutterKeeps ==
    ASSUME OutputInv, UNCHANGED vars PROVE OutputInv'
<1>1. ServerTypes' /\ CloseInv'
    BY DEF OutputInv, TypeOK, ServerTypes, CloseInv, vars
<1>2. ReaderTypes' /\ PendingIsWatched'
    BY DEF OutputInv, TypeOK, ReaderTypes, PendingIsWatched, vars
<1>3. /\ hdl' \in HandlerRec /\ chk' \in ChunkRec /\ cl' \in ClientRec
      /\ snd' \in [Senders -> SendRec] /\ StreamInv' /\ ClientInv'
    BY DEF OutputInv, TypeOK, StreamInv, ClientInv, vars
<1> QED
    BY <1>1, <1>2, <1>3, TypesTogether DEF OutputInv

\* Every step keeps the invariant, part by part.
LEMMA NextKeeps ==
    ASSUME OutputInv, Next PROVE OutputInv'
<1>0. /\ snd \in [Senders -> SendRec] /\ hdl \in HandlerRec /\ chk \in ChunkRec
      /\ cl \in ClientRec /\ StreamInv /\ ClientInv
    BY TypesTogether DEF OutputInv
<1>1. SendSteps \/ CloseSteps \/ ReadSteps \/ StreamSteps \/ ClientSteps \/ AtRest
    BY DEF Next, SendSteps, CloseSteps, ReadSteps, StreamSteps, ClientSteps
<1>2. readRequest => ReadSteps /\ StreamSteps /\ ClientSteps
    BY DEF ReadSteps, StreamSteps, ClientSteps
<1>3. readCancel => ReadSteps /\ ClientSteps
    BY DEF ReadSteps, ClientSteps
<1>4. CASE AtRest
    BY <1>4, StutterKeeps DEF AtRest
<1>5. CASE SendSteps \/ CloseSteps \/ ReadSteps \/ StreamSteps \/ ClientSteps
    <2>1. ServerTypes' /\ CloseInv'
        BY <1>5, SendKeepsServer, CloseKeepsServer, ReadKeepsServer, RestKeepsServer
    <2>2. ReaderTypes' /\ PendingIsWatched'
        BY <1>3, <1>5, ReadKeepsReader, RestKeepsReader
    <2>3. snd' \in [Senders -> SendRec]
        BY <1>0, <1>5, SendStepsKeep, ReadStepsKeep, StreamStepsKeep, SendsUntouched
    <2>4. hdl' \in HandlerRec /\ chk' \in ChunkRec /\ StreamInv'
        <3>1. CASE StreamSteps
            BY <3>1, StreamStepsKeep
        <3>2. CASE ~StreamSteps
            <4>1. UNCHANGED <<hdl, chk>>
                BY <1>2, <1>5, <3>2, HandlerUntouched
            <4> QED
                BY <1>0, <4>1 DEF StreamInv
        <3> QED
            BY <3>1, <3>2
    <2>5. cl' \in ClientRec /\ ClientInv'
        <3>1. CASE ClientSteps
            BY <3>1, ClientStepsKeep
        <3>2. CASE ~ClientSteps
            <4>1. UNCHANGED cl
                BY <1>2, <1>3, <1>5, <3>2, ClientUntouched
            <4> QED
                BY <1>0, <4>1 DEF ClientInv
        <3> QED
            BY <3>1, <3>2
    <2> QED
        BY <2>1, <2>2, <2>3, <2>4, <2>5, TypesTogether DEF OutputInv
<1> QED
    BY <1>1, <1>4, <1>5

-----------------------------------------------------------------------------
(* The theorems.                                                           *)

(* The invariant holds of every execution of the connection's output, for  *)
(* every configuration, queue capacity and number of items.                *)
THEOREM OutputInvariant == Spec => []OutputInv
<1>1. Init => OutputInv
    BY InitInv
<1>2. OutputInv /\ [Next]_vars => OutputInv'
    BY NextKeeps, StutterKeeps
<1> QED
    BY <1>1, <1>2, PTL DEF Spec

(* The queue holds at most QueueCap frames and everything has its type.    *)
THEOREM OutputTypes == Spec => []TypeOK
<1>1. OutputInv => TypeOK
    BY DEF OutputInv
<1> QED
    BY <1>1, OutputInvariant, PTL

(* What was queued when a WebSocket connection was closed is written       *)
(* before the socket goes down, unless a write fails: the auth_error of a  *)
(* refused token is not lost to the close that follows it.                 *)
THEOREM CloseLosesNothing == Spec => []QueuedBeforeCloseIsWritten
<1>1. OutputInv => QueuedBeforeCloseIsWritten
    BY DEF OutputInv, CloseInv, QueuedBeforeCloseIsWritten
<1> QED
    BY <1>1, OutputInvariant, PTL

(* A connection that must authenticate and has not is closed, or its timer *)
(* is still there to close it.                                             *)
THEOREM UnauthenticatedIsWatched == Spec => []PendingIsWatched
<1>1. OutputInv => PendingIsWatched
    BY DEF OutputInv
<1> QED
    BY <1>1, OutputInvariant, PTL

(* Neither a consumer nor a sender waits for what cannot come.             *)
THEOREM NobodyWaitsInVain == Spec => []WaitsAreAnswered
<1>1. OutputInv => LossReachesConsumer
    BY DEF OutputInv, ClientInv, LossReachesConsumer
<1>2. ASSUME OutputInv PROVE BlockedHaveARescuer
    <2> SUFFICES ASSUME NEW p \in Senders, Blocked(p), pump = "exited"
                 PROVE  \/ closer \in {"reader", "timer", "run", "stop"}
                        \/ reader # "gone" /\ ~Blocked("reader")
                        \/ cfg.kind = "ws" /\ Blocked("reader")
        BY DEF BlockedHaveARescuer
    <2>1. cfg.kind = "ws" /\ ~done
        BY <1>2, ConfigFacts DEF OutputInv, CloseInv, Blocked
    <2>2. closer # "finished"
        BY <1>2, <2>1 DEF OutputInv, CloseInv
    <2>3. CASE reader = "gone"
        BY <1>2, <2>2, <2>3 DEF OutputInv, CloseInv, TypeOK
    <2>4. CASE reader # "gone"
        BY <2>1, <2>4
    <2> QED
        BY <2>3, <2>4
<1>3. OutputInv => WaitsAreAnswered
    BY <1>1, <1>2 DEF WaitsAreAnswered
<1> QED
    BY <1>3, OutputInvariant, PTL

-----------------------------------------------------------------------------
(* The stream, item by item.  An item that was yielded is with the client, *)
(* on the wire, on the queue, in a send that will get through its check,   *)
(* or in the chunk buffer, in this order; a clean end counts as one more   *)
(* item behind the last.  While the client listens what is on its way has  *)
(* no gap, and a loss only ever cuts off the far end.                      *)

\* The items a frame, a sequence of frames or a send under way carries.
Of(f) == IF f.t = "end" THEN {Items + 1} ELSE {f.is[k] : k \in DOMAIN f.is}
In(q) == UNION {Of(q[i]) : i \in DOMAIN q}

Live(p) == snd[p].at = "select" \/ (snd[p].at = "check" /\ ~closed)
Doomed(p) == snd[p].at \in {"closed", "canceled"} \/ (snd[p].at = "check" /\ closed)
Flight(p) == IF Live(p) THEN Of(snd[p].f) ELSE {}

Buffered == {chk.items[k] : k \in DOMAIN chk.items}

\* What has not been queued yet, what is still before the pump, and everything.
Unsent == Flight("handler") \cup Flight("flusher") \cup Buffered
Ahead == IF pump = "exited" THEN {} ELSE In(queue) \cup Unsent
Received == 1 .. Len(cl.got) + Len(cl.buf)
Known == Received \cup In(wire) \cup Ahead

\* The client may still hand items to the consumer.
Listening == /\ cl.conn = "up" /\ ~cl.serverDone /\ ~cl.stopped
             /\ cl.at = "starting" \/ cl.entry

Below(A, B) == \A x \in A, y \in B : x < y
Sorted(q) == \A i, j \in DOMAIN q : i < j => Below(Of(q[i]), Of(q[j]))
Consecutive(is) == \A k \in DOMAIN is : is[k] = is[1] + k - 1
NoGap(S) == \A y \in S : \A n \in 1 .. y : n \in S

\* Who holds the chunker's lock, and what that says of its buffer.
LockInv ==
    /\ chk.lock # "free" => chk.items = NoItems
    /\ snd["flusher"].at # "idle" <=> chk.lock = "flusher"
    /\ chk.lock = "handler" => snd["handler"].at # "idle" /\ hdl.at \in {"sending", "flushing"}
    /\ hdl.at \in {"off", "iterating", "hooks", "ending", "over"} => snd["handler"].at = "idle"
    /\ hdl.at \in {"off", "hooks", "ending", "ended", "over"}
          => chk.items = NoItems /\ chk.lock = "free"
    /\ cfg.chunk = 0 => chk.items = NoItems /\ chk.lock = "free" /\ chk.err = "none"
    /\ hdl.at = "sending" => /\ snd["handler"].at # "idle" /\ chk.items = NoItems
                             /\ cfg.chunk > 0 => chk.lock = "handler"
    /\ hdl.at = "flushing" => /\ cfg.chunk > 0
                              /\ snd["handler"].at # "idle" => chk.lock = "handler"

\* Frames hold consecutive items, and the buffer the last ones yielded.
FrameInv ==
    /\ \A i \in DOMAIN wire : Consecutive(wire[i].is)
    /\ \A i \in DOMAIN queue : Consecutive(queue[i].is)
    /\ \A p \in Senders : Consecutive(snd[p].f.is)
    /\ \A k \in DOMAIN chk.items : chk.items[k] = hdl.next - 1 - Len(chk.items) + k
    /\ \A p \in {"reader", "timer"} : snd[p].f.t \notin {"items", "end"}

\* Why a send, a flush or the stream failed, and what the hooks were told.
ErrInv ==
    /\ done => closed \/ pump = "exited"
    /\ \A p \in Senders : snd[p].at = "closed" => closed \/ pump = "exited"
    /\ "closed" \in {hdl.err, chk.err} => closed \/ pump = "exited"
    /\ ctx => closed \/ ~Listening
    /\ hdl.at \in {"off", "iterating", "sending"} => hdl.err = "none"
    /\ hdl.at \notin {"off", "iterating", "sending"} /\ hdl.err = "none"
          => ctx \/ hdl.next = Items + 1
    /\ chk.err # "none" => chk.items = NoItems \/ hdl.err = "failed"
    /\ hdl.at = "flushing" /\ snd["handler"].at # "idle"
          => chk.err = "none" \/ hdl.err = "failed"
    /\ hdl.told = "nothing" <=> hdl.at \notin {"ending", "ended", "over"}
    /\ hdl.told # "nothing" /\ ~ctx /\ hdl.err = "none" => hdl.told = "ok"

\* The order of what is on its way.
OrderInv ==
    /\ Below(Received, In(wire))
    /\ Below(Received \cup In(wire), Ahead)
    /\ Sorted(wire)
    /\ pump # "exited" => Sorted(queue) /\ Below(In(queue), Unsent)
    /\ NoGap(Known)

\* No item is known before it is yielded.
TopInv ==
    /\ hdl.at \in {"off", "iterating"} => \A y \in Known : y < hdl.next
    /\ hdl.at = "sending" => \A y \in Known : y <= hdl.next
    /\ hdl.at \in {"flushing", "hooks", "ending"} => \A y \in Known : y <= Items

\* Nothing that the handler believes to be sent has failed.
Healthy ==
    /\ ~Doomed("handler") /\ ~Doomed("flusher") /\ hdl.err = "none"
    /\ hdl.at \in {"iterating", "flushing"} => chk.err = "none"

\* Then everything yielded is on its way; and a clean end is behind all of it.
WholeInv ==
    /\ Healthy /\ pump # "exited" =>
         /\ hdl.at \in {"iterating", "flushing", "hooks", "ending"} =>
               \A n \in 1 .. hdl.next - 1 : n \in Known
         /\ hdl.at = "sending" => \A n \in 1 .. hdl.next : n \in Known
    /\ Items + 1 \in Known => hdl.told = "ok" /\ hdl.count = Items

\* What the client has made of the stream.
DeliveryInv ==
    /\ ItemsInOrder /\ CleanEndIsComplete
    /\ cl.serverDone /\ ~cl.stopped /\ cl.err = "none" =>
          Len(cl.got) + Len(cl.buf) = Items /\ hdl.told = "ok" /\ hdl.count = Items
    /\ cl.stopped => cl.serverDone /\ cl.buf = NoItems
    /\ cl.stopped /\ cl.consumer = "reading" => cl.err = "error"
    /\ cl.consumer # "reading" \/ cl.cancel \/ cl.stopDue => cl.stopped
    /\ cl.request \/ hdl.at # "off" => cl.at = "started"
    /\ hdl.at = "off" => hdl.next = 1

IntactInv ==
    /\ OutputInv /\ LockInv /\ FrameInv /\ ErrInv /\ DeliveryInv
    /\ Listening => OrderInv /\ TopInv /\ WholeInv

-----------------------------------------------------------------------------
(* What each step of the handler and the chunker does, field by field.     *)

\* The handler is somewhere else, with another error; what it counted stays.
Moves(at, err) ==
    /\ hdl'.at = at /\ hdl'.err = err
    /\ hdl'.next = hdl.next /\ hdl'.count = hdl.count

OthersKeep(p) == \A q \in Senders \ {p} : snd'[q] = snd[q]

\* p starts to send f.
Starts(p, f) == /\ snd'[p].at = "check" /\ snd'[p].f = f /\ OthersKeep(p)

\* p is done sending.
Stops(p) == snd'[p] = Idle /\ OthersKeep(p)

\* A flush: the buffer is empty, p has the lock and sends its frame.
Flushes(p, is) ==
    /\ chk'.items = NoItems /\ chk'.lock = p /\ ~chk'.armed /\ chk'.err = chk.err
    /\ Starts(p, ItemFrame(is))

\* A flush is over: p gives the lock back and a failure is noted.
Unlocks(p) ==
    /\ chk'.items = chk.items /\ chk'.armed = chk.armed
    /\ chk'.lock = (IF chk.lock = p THEN "free" ELSE chk.lock)
    /\ chk'.err = FirstErr(chk.err, Outcome(snd[p].at))

\* Of the buffer nothing changes but that its timer may be off.
Rests == chk'.items = chk.items /\ chk'.lock = chk.lock /\ chk'.err = chk.err

\* flushLocked empties the buffer into a frame.
LEMMA FlushEffect ==
    ASSUME OutputInv, NEW p \in Senders, NEW is, flushLocked(p, is)
    PROVE  Flushes(p, is)
<1>0. chk \in ChunkRec /\ snd \in [Senders -> SendRec]
    BY DEF OutputInv, TypeOK
<1>1. snd'[p] = Sending(ItemFrame(is), "ctx") /\ OthersKeep(p)
    BY <1>0 DEF flushLocked, OthersKeep
<1>2. snd'[p].at = "check" /\ snd'[p].f = ItemFrame(is)
    BY <1>1 DEF Sending
<1> QED
    BY <1>0, <1>1, <1>2 DEF flushLocked, Flushes, Starts, ChunkRec

\* What a flush leaves behind.
LEMMA UnlockEffect ==
    ASSUME OutputInv, NEW p \in Senders, flushed(p) PROVE Unlocks(p)
<1>0. chk \in ChunkRec
    BY DEF OutputInv, TypeOK
<1>1. chk' = [chk EXCEPT !.lock = IF chk.lock = p THEN "free" ELSE chk.lock,
                         !.err = FirstErr(chk.err, Outcome(snd[p].at))]
    BY DEF flushed
<1> HIDE DEF FirstErr, Outcome
<1> QED
    BY <1>0, <1>1 DEF Unlocks, ChunkRec

\* A sender goes idle.
LEMMA StopEffect ==
    ASSUME OutputInv, NEW p \in Senders, snd' = [snd EXCEPT ![p] = Idle] PROVE Stops(p)
<1>0. snd \in [Senders -> SendRec]
    BY DEF OutputInv, TypeOK
<1> QED
    BY <1>0 DEF Stops, OthersKeep

\* A sender starts on a frame.
LEMMA StartEffect ==
    ASSUME OutputInv, NEW p \in Senders, NEW f, NEW how, snd' = [snd EXCEPT ![p] = Sending(f, how)]
    PROVE  Starts(p, f)
<1>0. snd \in [Senders -> SendRec]
    BY DEF OutputInv, TypeOK
<1>1. snd'[p] = Sending(f, how) /\ OthersKeep(p)
    BY <1>0 DEF OthersKeep
<1> QED
    BY <1>1 DEF Starts, Sending

\* An item without chunking.
LEMMA YieldItemEffect ==
    ASSUME OutputInv, yieldItem
    PROVE  /\ hdl.at = "iterating" /\ hdl.next <= Items /\ cfg.chunk = 0 /\ ~ctx
           /\ Moves("sending", hdl.err) /\ hdl'.told = hdl.told /\ chk' = chk
           /\ Starts("handler", ItemFrame(<<hdl.next>>))
<1>0. hdl \in HandlerRec /\ "handler" \in Senders
    BY DEF OutputInv, TypeOK, Senders
<1>1. Starts("handler", ItemFrame(<<hdl.next>>))
    BY <1>0, StartEffect DEF yieldItem
<1> QED
    BY <1>0, <1>1 DEF yieldItem, Moves, HandlerRec

\* streamChunker.add: an earlier error, a full chunk, or one more in the buffer.
LEMMA ChunkAddEffect ==
    ASSUME OutputInv, chunkAdd
    PROVE  /\ hdl.at = "iterating" /\ hdl.next <= Items /\ cfg.chunk > 0 /\ chk.lock = "free" /\ ~ctx
           /\ hdl'.told = hdl.told
           /\ \/ /\ chk.err # "none" /\ Moves("flushing", chk.err) /\ chk' = chk /\ snd' = snd
              \/ /\ chk.err = "none" /\ Moves("sending", hdl.err)
                 /\ Flushes("handler", Append(chk.items, hdl.next))
              \/ /\ chk.err = "none" /\ hdl'.at = "iterating" /\ hdl'.err = hdl.err
                 /\ hdl'.next = hdl.next + 1 /\ hdl'.count = hdl.count + 1 /\ snd' = snd
                 /\ chk'.items = Append(chk.items, hdl.next) /\ chk'.lock = "free"
                 /\ chk'.err = chk.err
<1>0. hdl \in HandlerRec /\ chk \in ChunkRec /\ "handler" \in Senders
    BY DEF OutputInv, TypeOK, Senders
<1> DEFINE items == Append(chk.items, hdl.next)
           n == hdl.next + 1
           m == hdl.count + 1
           b == (chk.armed \/ Len(items) = 1)
<1>1. CASE chk.err # "none"
    BY <1>0, <1>1 DEF chunkAdd, Moves, HandlerRec
<1>2. CASE chk.err = "none" /\ Len(items) >= cfg.chunk
    <2>1. hdl' = [hdl EXCEPT !.at = "sending"] /\ flushLocked("handler", items)
        BY <1>2 DEF chunkAdd
    <2>2. Flushes("handler", items)
        BY <1>0, <2>1, FlushEffect
    <2>3. Moves("sending", hdl.err) /\ hdl'.told = hdl.told
        BY <1>0, <2>1 DEF Moves, HandlerRec
    <2> QED
        BY <1>2, <2>2, <2>3 DEF chunkAdd
<1>3. CASE chk.err = "none" /\ ~(Len(items) >= cfg.chunk)
    <2>1. /\ hdl' = [hdl EXCEPT !.next = n, !.count = m] /\ snd' = snd
          /\ chk' = [chk EXCEPT !.items = items, !.armed = b]
        BY <1>3 DEF chunkAdd
    <2> HIDE DEF items, n, m, b
    <2>2. hdl'.at = hdl.at /\ hdl'.err = hdl.err /\ hdl'.told = hdl.told /\ hdl'.next = n /\ hdl'.count = m
        BY <1>0, <2>1 DEF HandlerRec
    <2>3. chk'.items = items /\ chk'.lock = chk.lock /\ chk'.err = chk.err
        BY <1>0, <2>1 DEF ChunkRec
    <2> QED
        BY <1>3, <2>1, <2>2, <2>3 DEF chunkAdd, items, n, m
<1> QED
    BY <1>1, <1>2, <1>3

\* The send of yield returned.
LEMMA YieldReturnsEffect ==
    ASSUME OutputInv, yieldReturns
    PROVE  /\ hdl.at = "sending" /\ snd["handler"].at \in Returned
           /\ hdl'.told = hdl.told /\ Stops("handler")
           /\ \/ /\ snd["handler"].at = "ok" /\ hdl'.at = "iterating" /\ hdl'.err = hdl.err
                 /\ hdl'.next = hdl.next + 1 /\ hdl'.count = hdl.count + 1
              \/ /\ snd["handler"].at # "ok" /\ Moves(AfterIteration, snd["handler"].at)
           /\ \/ cfg.chunk > 0 /\ Unlocks("handler")
              \/ cfg.chunk = 0 /\ chk' = chk
<1>0. hdl \in HandlerRec /\ "handler" \in Senders /\ cfg.chunk \in Nat
    BY ConfigFacts DEF OutputInv, TypeOK, Senders
<1>1. Stops("handler")
    BY <1>0, StopEffect DEF yieldReturns
<1>2. \/ cfg.chunk > 0 /\ Unlocks("handler")
      \/ cfg.chunk = 0 /\ chk' = chk
    BY <1>0, UnlockEffect DEF yieldReturns
<1> DEFINE n == hdl.next + 1
           m == hdl.count + 1
<1>3. CASE snd["handler"].at = "ok"
    <2>1. hdl' = [hdl EXCEPT !.at = "iterating", !.next = n, !.count = m]
        BY <1>3 DEF yieldReturns
    <2> HIDE DEF n, m
    <2>2. hdl'.at = "iterating" /\ hdl'.err = hdl.err /\ hdl'.told = hdl.told
          /\ hdl'.next = n /\ hdl'.count = m
        BY <1>0, <2>1 DEF HandlerRec
    <2> QED
        BY <1>1, <1>2, <1>3, <2>2 DEF yieldReturns, n, m
<1>4. CASE snd["handler"].at # "ok"
    <2> DEFINE s == AfterIteration
               e == snd["handler"].at
    <2>1. hdl' = [hdl EXCEPT !.at = s, !.err = e]
        BY <1>4 DEF yieldReturns
    <2> HIDE DEF s, e
    <2>2. Moves(s, e) /\ hdl'.told = hdl.told
        BY <1>0, <2>1 DEF HandlerRec, Moves
    <2> QED
        BY <1>1, <1>2, <1>4, <2>2 DEF yieldReturns, s, e
<1> QED
    BY <1>3, <1>4

\* The delay timer flushes, unless a flush has failed before.
LEMMA DelayFlushEffect ==
    ASSUME OutputInv, delayFlush
    PROVE  /\ chk.armed /\ chk.items # NoItems /\ chk.lock = "free" /\ snd["flusher"].at = "idle"
           /\ hdl' = hdl
           /\ \/ chk.err = "none" /\ Flushes("flusher", chk.items)
              \/ Rests /\ snd' = snd
<1>0. chk \in ChunkRec /\ "flusher" \in Senders /\ StreamInv
    BY DEF OutputInv, TypeOK, Senders
<1>1. CASE chk.err = "none"
    BY <1>0, <1>1, FlushEffect DEF delayFlush, StreamInv
<1>2. CASE chk.err # "none"
    BY <1>0, <1>2 DEF delayFlush, Rests, ChunkRec, StreamInv
<1> QED
    BY <1>1, <1>2

\* Its send returned.
LEMMA DelayFlushReturnsEffect ==
    ASSUME OutputInv, delayFlushReturns
    PROVE  /\ snd["flusher"].at \in Returned /\ hdl' = hdl
           /\ Unlocks("flusher") /\ Stops("flusher")
<1>0. "flusher" \in Senders
    BY DEF Senders
<1> QED
    BY <1>0, StopEffect, UnlockEffect DEF delayFlushReturns

\* streamChunker.close flushes what is left, or reports a failure.
LEMMA ChunkCloseEffect ==
    ASSUME OutputInv, chunkClose
    PROVE  /\ hdl.at = "flushing" /\ snd["handler"].at = "idle" /\ chk.lock = "free"
           /\ hdl'.told = hdl.told
           /\ \/ chk.items # NoItems /\ hdl' = hdl /\ Flushes("handler", chk.items)
              \/ /\ chk.items = NoItems /\ Moves("hooks", FirstErr(hdl.err, chk.err))
                 /\ Rests /\ snd' = snd
<1>0. hdl \in HandlerRec /\ chk \in ChunkRec /\ "handler" \in Senders
    BY DEF OutputInv, TypeOK, Senders
<1>1. CASE chk.items # NoItems
    BY <1>0, <1>1, FlushEffect DEF chunkClose
<1>2. CASE chk.items = NoItems
    <2> DEFINE e == FirstErr(hdl.err, chk.err)
    <2>1. hdl' = [hdl EXCEPT !.at = "hooks", !.err = e]
        BY <1>2 DEF chunkClose
    <2> HIDE DEF e
    <2>2. Moves("hooks", e) /\ hdl'.told = hdl.told
        BY <1>0, <2>1 DEF HandlerRec, Moves
    <2>3. Rests /\ snd' = snd
        BY <1>0, <1>2 DEF chunkClose, Rests, ChunkRec
    <2> QED
        BY <1>2, <2>2, <2>3 DEF chunkClose, e
<1> QED
    BY <1>1, <1>2

\* That flush returned.
LEMMA ChunkCloseReturnsEffect ==
    ASSUME OutputInv, chunkCloseReturns
    PROVE  /\ hdl.at = "flushing" /\ snd["handler"].at \in Returned /\ hdl'.told = hdl.told
           /\ Moves("hooks", FirstErr(hdl.err, Outcome(snd["handler"].at)))
           /\ Unlocks("handler") /\ Stops("handler")
<1>0. hdl \in HandlerRec /\ "handler" \in Senders
    BY DEF OutputInv, TypeOK, Senders
<1> DEFINE e == FirstErr(hdl.err, Outcome(snd["handler"].at))
<1>1. hdl' = [hdl EXCEPT !.at = "hooks", !.err = e]
    BY DEF chunkCloseReturns
<1> HIDE DEF e
<1>2. Moves("hooks", e) /\ hdl'.told = hdl.told
    BY <1>0, <1>1 DEF HandlerRec, Moves
<1>3. Unlocks("handler") /\ Stops("handler")
    BY <1>0, StopEffect, UnlockEffect DEF chunkCloseReturns
<1> QED
    BY <1>2, <1>3 DEF chunkCloseReturns, e

\* The iteration ends, by itself or by a failure.
LEMMA IterationEndsEffect ==
    ASSUME OutputInv, iterationEnds
    PROVE  /\ hdl.at = "iterating" /\ hdl'.told = hdl.told /\ snd' = snd
           /\ \/ /\ Moves(AfterIteration, hdl.err) /\ chk' = chk
                 /\ ctx \/ hdl.next > Items
              \/ /\ Moves(AfterIteration, "failed")
                 /\ chk'.items = chk.items /\ chk'.lock = chk.lock
                 /\ \/ chk'.err = chk.err
                    \/ cfg.chunk > 0 /\ chk'.err = FirstErr(chk.err, "failed")
<1>0. hdl \in HandlerRec /\ chk \in ChunkRec
    BY DEF OutputInv, TypeOK
<1>1. PICK why \in {"canceled", "finished", "panic", "unencodable"} :
          /\ why = "canceled" => ctx
          /\ why = "finished" <=> hdl.next > Items
          /\ hdl' = [hdl EXCEPT !.at = AfterIteration,
                                !.err = IF why \in {"panic", "unencodable"} THEN "failed" ELSE hdl.err]
          /\ chk' = IF why = "unencodable" /\ cfg.chunk > 0
                    THEN [chk EXCEPT !.err = FirstErr(chk.err, "failed")] ELSE chk
    BY DEF iterationEnds
<1> DEFINE s == AfterIteration
           r == FirstErr(chk.err, "failed")
<1>2. CASE why \in {"canceled", "finished"}
    <2>1. hdl' = [hdl EXCEPT !.at = s, !.err = hdl.err] /\ chk' = chk
        BY <1>1, <1>2
    <2> HIDE DEF s
    <2>2. Moves(s, hdl.err) /\ hdl'.told = hdl.told
        BY <1>0, <2>1 DEF Moves, HandlerRec
    <2> QED
        BY <1>1, <1>2, <2>1, <2>2 DEF iterationEnds, s
<1>3. CASE why \in {"panic", "unencodable"}
    <2>1. hdl' = [hdl EXCEPT !.at = s, !.err = "failed"]
        BY <1>1, <1>3
    <2>2. \/ chk' = chk
          \/ cfg.chunk > 0 /\ chk' = [chk EXCEPT !.err = r]
        BY <1>1
    <2> HIDE DEF s, r
    <2>3. Moves(s, "failed") /\ hdl'.told = hdl.told
        BY <1>0, <2>1 DEF Moves, HandlerRec
    <2>4. /\ chk'.items = chk.items /\ chk'.lock = chk.lock
          /\ chk'.err = chk.err \/ (cfg.chunk > 0 /\ chk'.err = r)
        BY <1>0, <2>2 DEF ChunkRec
    <2> QED
        BY <2>3, <2>4 DEF iterationEnds, s, r
<1> QED
    BY <1>2, <1>3

\* The request arrives, the hooks run, the end is sent and the stream is over.
LEMMA OtherHandlerEffects ==
    ASSUME OutputInv
    PROVE  /\ readRequest => /\ hdl.at = "off" /\ Moves("iterating", hdl.err)
                             /\ hdl'.told = hdl.told /\ chk' = chk /\ snd' = snd
           /\ runHooks => /\ hdl.at = "hooks" /\ Moves("ending", hdl.err) /\ chk' = chk /\ snd' = snd
                          /\ hdl'.told = IF ctx THEN "canceled"
                                         ELSE IF hdl.err # "none" THEN "failed" ELSE "ok"
           /\ sendStreamEnd => /\ hdl.at = "ending" /\ Moves("ended", hdl.err)
                               /\ hdl'.told = hdl.told /\ chk' = chk
                               /\ Starts("handler", EndFrame(hdl.err \notin {"none", "closed"} /\ ~ctx))
           /\ streamOver => /\ hdl.at = "ended" /\ Moves("over", hdl.err)
                            /\ hdl'.told = hdl.told /\ chk' = chk /\ Stops("handler")
<1>0. hdl \in HandlerRec /\ "handler" \in Senders
    BY DEF OutputInv, TypeOK, Senders
<1>1. ASSUME readRequest PROVE /\ hdl.at = "off" /\ Moves("iterating", hdl.err)
                               /\ hdl'.told = hdl.told /\ chk' = chk /\ snd' = snd
    BY <1>0, <1>1 DEF readRequest, Moves, HandlerRec
<1>2. ASSUME runHooks
      PROVE  /\ hdl.at = "hooks" /\ Moves("ending", hdl.err) /\ chk' = chk /\ snd' = snd
             /\ hdl'.told = IF ctx THEN "canceled" ELSE IF hdl.err # "none" THEN "failed" ELSE "ok"
    <2> DEFINE r == IF ctx THEN "canceled" ELSE IF hdl.err # "none" THEN "failed" ELSE "ok"
    <2>1. hdl' = [hdl EXCEPT !.at = "ending", !.told = r]
        BY <1>2 DEF runHooks
    <2> HIDE DEF r
    <2>2. Moves("ending", hdl.err) /\ hdl'.told = r
        BY <1>0, <2>1 DEF HandlerRec, Moves
    <2> QED
        BY <1>2, <2>2 DEF runHooks, r
<1>3. ASSUME sendStreamEnd
      PROVE  /\ hdl.at = "ending" /\ Moves("ended", hdl.err) /\ hdl'.told = hdl.told /\ chk' = chk
             /\ Starts("handler", EndFrame(hdl.err \notin {"none", "closed"} /\ ~ctx))
    <2> DEFINE f == EndFrame(hdl.err \notin {"none", "closed"} /\ ~ctx)
    <2>1. snd' = [snd EXCEPT !["handler"] = Sending(f, "raw")]
        BY <1>3 DEF sendStreamEnd
    <2> HIDE DEF f
    <2>2. Starts("handler", f)
        BY <1>0, <2>1, StartEffect
    <2>3. Moves("ended", hdl.err) /\ hdl'.told = hdl.told
        BY <1>0, <1>3 DEF sendStreamEnd, HandlerRec, Moves
    <2> QED
        BY <1>3, <2>2, <2>3 DEF sendStreamEnd, f
<1>4. ASSUME streamOver
      PROVE  /\ hdl.at = "ended" /\ Moves("over", hdl.err) /\ hdl'.told = hdl.told /\ chk' = chk
             /\ Stops("handler")
    <2>1. Stops("handler")
        BY <1>0, <1>4, StopEffect DEF streamOver
    <2> QED
        BY <1>0, <1>4, <2>1 DEF streamOver, HandlerRec, Moves
<1> QED
    BY <1>1, <1>2, <1>3, <1>4

-----------------------------------------------------------------------------
(* The lock of the chunker.                                                *)

\* A send goes on, with the frame it has.
LEMMA SendEffect ==
    ASSUME OutputInv, SendSteps
    PROVE  \E p \in Senders, s \in {"select", "ok", "closed", "canceled"} :
              /\ snd[p].at \in {"check", "select"} /\ snd'[p].at = s
              /\ snd'[p].f = snd[p].f /\ OthersKeep(p)
              /\ \/ sendCheck(p) /\ snd[p].at = "check" /\ s = (IF closed THEN "closed" ELSE "select")
                 \/ enqueue(p) /\ snd[p].at = "select" /\ s = "ok"
                 \/ /\ sendReleased(p) /\ snd[p].at = "select"
                    /\ (s = "closed" /\ done) \/ (s = "canceled" /\ ctx)
<1>0. snd \in [Senders -> SendRec]
    BY DEF OutputInv, TypeOK
<1>1. PICK p \in Senders : sendCheck(p) \/ enqueue(p) \/ sendReleased(p)
    BY DEF SendSteps
<1>2. PICK s \in {"select", "ok", "closed", "canceled"} :
         /\ snd' = [snd EXCEPT ![p].at = s] /\ snd[p].at \in {"check", "select"}
         /\ \/ sendCheck(p) /\ snd[p].at = "check" /\ s = (IF closed THEN "closed" ELSE "select")
            \/ enqueue(p) /\ snd[p].at = "select" /\ s = "ok"
            \/ /\ sendReleased(p) /\ snd[p].at = "select"
               /\ (s = "closed" /\ done) \/ (s = "canceled" /\ ctx)
    <2>1. CASE sendCheck(p)
        BY <2>1 DEF sendCheck
    <2>2. CASE enqueue(p)
        BY <2>2 DEF enqueue
    <2>3. CASE sendReleased(p)
        BY <2>3 DEF sendReleased
    <2> QED
        BY <1>1, <2>1, <2>2, <2>3
<1>3. snd[p] \in SendRec /\ snd'[p] = [snd[p] EXCEPT !.at = s] /\ OthersKeep(p)
    BY <1>0, <1>2 DEF OthersKeep
<1>4. snd'[p].at = s /\ snd'[p].f = snd[p].f
    BY <1>3 DEF SendRec
<1> QED
    BY <1>2, <1>3, <1>4

\* The read loop and the timer send for themselves, frames without items.
LEMMA ReadEffect ==
    ASSUME OutputInv, ReadSteps
    PROVE  /\ snd'["handler"] = snd["handler"] /\ snd'["flusher"] = snd["flusher"]
           /\ \A p \in {"reader", "timer"} :
                 \/ snd'[p] = snd[p]
                 \/ /\ snd'[p].at \in {"idle", "check"}
                    /\ \E t \in {"error", "auth_ok", "auth_error"} : snd'[p].f = Frame(t)
<1>0. /\ snd \in [Senders -> SendRec] /\ {"handler", "flusher", "reader", "timer"} \subseteq Senders
    BY DEF OutputInv, TypeOK, Senders
<1>1. \/ snd' = snd
      \/ \E p \in {"reader", "timer"} : snd' = [snd EXCEPT ![p] = Idle]
      \/ \E p \in {"reader", "timer"}, t \in {"error", "auth_ok", "auth_error"} :
            snd' = [snd EXCEPT ![p] = Sending(Frame(t), "raw")]
    <2>1. CASE authAccepted \/ authRefused \/ refuseFrame
        <3>1. PICK t \in {"auth_ok", "auth_error", "error"} :
                 snd' = [snd EXCEPT !["reader"] = Sending(Frame(t), "raw")]
            BY <2>1 DEF authAccepted, authRefused, refuseFrame, Answers
        <3> QED
            BY <3>1
    <2>2. CASE authTimerFires
        BY <2>2 DEF authTimerFires
    <2>3. CASE answerSent \/ authRejects \/ authTimerCloses
        BY <2>3 DEF answerSent, authRejects, authTimerCloses
    <2>4. CASE readRequest \/ readCancel \/ readFails \/ runUnregisters
        BY <2>4 DEF readRequest, readCancel, readFails, runUnregisters
    <2> QED
        BY <2>1, <2>2, <2>3, <2>4 DEF ReadSteps
<1>2. CASE snd' = snd
    BY <1>2
<1>3. ASSUME NEW p \in {"reader", "timer"}, snd' = [snd EXCEPT ![p] = Idle]
      PROVE  /\ \A q \in Senders \ {p} : snd'[q] = snd[q]
             /\ snd'[p].at = "idle" /\ snd'[p].f = Frame("error")
    BY <1>0, <1>3 DEF Idle
<1>4. ASSUME NEW p \in {"reader", "timer"}, NEW t, snd' = [snd EXCEPT ![p] = Sending(Frame(t), "raw")]
      PROVE  /\ \A q \in Senders \ {p} : snd'[q] = snd[q]
             /\ snd'[p].at = "check" /\ snd'[p].f = Frame(t)
    BY <1>0, <1>4 DEF Sending
<1>5. CASE \E p \in {"reader", "timer"} : snd' = [snd EXCEPT ![p] = Idle]
    BY <1>0, <1>3, <1>5
<1>6. CASE \E p \in {"reader", "timer"}, t \in {"error", "auth_ok", "auth_error"} :
              snd' = [snd EXCEPT ![p] = Sending(Frame(t), "raw")]
    BY <1>0, <1>4, <1>6
<1> QED
    BY <1>1, <1>2, <1>5, <1>6

\* The options of a connection never change.
LEMMA CfgFixed == ASSUME OutputInv, Next PROVE cfg' = cfg
<1>1. CASE SendSteps
    BY <1>1 DEF SendSteps, sendCheck, enqueue, sendReleased, server
<1>2. CASE CloseSteps
    BY <1>2 DEF CloseSteps, closeWS, closeGracefullyWS, closeStream, stopServer, pumpWrites,
                pumpFails, pumpSeesDone, drainEnds
<1>3. CASE ReadSteps
    BY <1>3 DEF ReadSteps, authAccepted, authRefused, refuseFrame, answerSent, authRejects,
                readRequest, readCancel, readFails, runUnregisters, authTimerFires,
                authTimerCloses, server
<1>4. CASE StreamSteps
    BY <1>4 DEF StreamSteps, readRequest, iterationEnds, yieldItem, chunkAdd, yieldReturns,
                delayFlush, delayFlushReturns, chunkClose, chunkCloseReturns, runHooks,
                sendStreamEnd, streamOver, server
<1>5. CASE ClientSteps
    BY <1>5 DEF ClientSteps, readRequest, readCancel, startRegisters, startSends, clientReads,
                clientDrops, clientEndsStreams, nextItem, nextEnds, consumerLeaves, callerCancels,
                stopCancels, srv, server
<1>6. CASE AtRest
    BY <1>6 DEF AtRest, vars
<1> QED
    BY <1>1, <1>2, <1>3, <1>4, <1>5, <1>6
       DEF Next, SendSteps, CloseSteps, ReadSteps, StreamSteps, ClientSteps

\* The steps of the handler and of the chunker pass the lock on.
LEMMA StreamKeepsLock ==
    ASSUME OutputInv, LockInv, StreamSteps, cfg' = cfg PROVE LockInv'
<1> USE DEF LockInv
<1>0. /\ cfg.chunk \in Nat /\ {"handler", "flusher"} \subseteq Senders
      /\ AfterIteration \in {"hooks", "flushing"}
      /\ AfterIteration = "hooks" <=> cfg.chunk = 0
      /\ "idle" \notin Returned /\ Idle.at = "idle"
    BY ConfigFacts DEF Senders, AfterIteration, Returned, Idle
<1>1. CASE readRequest \/ runHooks
    BY <1>1, OtherHandlerEffects DEF Moves
<1>2. CASE iterationEnds
    BY <1>0, <1>2, IterationEndsEffect DEF Moves
<1>3. CASE yieldItem
    BY <1>0, <1>3, YieldItemEffect DEF Moves, Starts, OthersKeep
<1>4. CASE chunkAdd
    BY <1>0, <1>4, ChunkAddEffect DEF Moves, Flushes, Starts, OthersKeep
<1>5. CASE yieldReturns
    BY <1>0, <1>5, YieldReturnsEffect DEF Moves, Unlocks, Stops, OthersKeep
<1>6. CASE delayFlush
    BY <1>0, <1>6, DelayFlushEffect DEF Flushes, Rests, Starts, OthersKeep
<1>7. CASE delayFlushReturns
    BY <1>0, <1>7, DelayFlushReturnsEffect DEF Unlocks, Stops, OthersKeep
<1>8. CASE chunkClose
    BY <1>0, <1>8, ChunkCloseEffect DEF Moves, Flushes, Rests, Starts, OthersKeep
<1>9. CASE chunkCloseReturns
    BY <1>0, <1>9, ChunkCloseReturnsEffect DEF Moves, Unlocks, Stops, OthersKeep
<1>10. CASE sendStreamEnd
    BY <1>0, <1>10, OtherHandlerEffects DEF Moves, Starts, OthersKeep
<1>11. CASE streamOver
    BY <1>0, <1>11, OtherHandlerEffects DEF Moves, Stops, OthersKeep
<1> QED
    BY <1>1, <1>2, <1>3, <1>4, <1>5, <1>6, <1>7, <1>8, <1>9, <1>10, <1>11 DEF StreamSteps

\* Every step does.
LEMMA NextKeepsLock ==
    ASSUME OutputInv, LockInv, Next PROVE LockInv'
<1>0. cfg' = cfg
    BY CfgFixed
<1>1. CASE StreamSteps
    BY <1>0, <1>1, StreamKeepsLock
<1>2. CASE SendSteps
    <2>1. UNCHANGED <<hdl, chk>>
        BY <1>2, HandlerUntouched
    <2>2. \A p \in Senders : snd'[p].at = "idle" <=> snd[p].at = "idle"
        BY <1>2, SendEffect DEF OthersKeep
    <2> QED
        BY <1>0, <2>1, <2>2 DEF LockInv, Senders
<1>3. CASE ReadSteps /\ ~readRequest
    <2>1. UNCHANGED <<hdl, chk>>
        BY <1>3, HandlerUntouched
    <2>2. snd'["handler"] = snd["handler"] /\ snd'["flusher"] = snd["flusher"]
        BY <1>3, ReadEffect
    <2> QED
        BY <1>0, <2>1, <2>2 DEF LockInv
<1>4. CASE CloseSteps \/ (ClientSteps /\ ~readRequest) \/ AtRest
    <2>1. UNCHANGED <<hdl, chk, snd>>
        BY <1>4, HandlerUntouched, SendsUntouched DEF AtRest, vars
    <2> QED
        BY <1>0, <2>1 DEF LockInv
<1> QED
    BY <1>1, <1>2, <1>3, <1>4 DEF Next, SendSteps, CloseSteps, ReadSteps, StreamSteps, ClientSteps

-----------------------------------------------------------------------------
(* Frames hold consecutive items.                                          *)

\* Every frame of a sequence does.
AllConsecutive(q) == \A i \in DOMAIN q : Consecutive(q[i].is)

\* That is so of a longer queue, and of the rest of one.
LEMMA ConsecutiveQueue ==
    ASSUME NEW q \in Seq(AllFrames), AllConsecutive(q)
    PROVE  /\ \A f \in AllFrames : Consecutive(f.is) => AllConsecutive(Append(q, f))
           /\ q # <<>> => Consecutive(Head(q).is) /\ AllConsecutive(Tail(q))
<1>1. ASSUME NEW f \in AllFrames, Consecutive(f.is), NEW i \in DOMAIN Append(q, f)
      PROVE  Consecutive(Append(q, f)[i].is)
    <2>1. i \in 1 .. Len(q) + 1 /\ Len(q) \in Nat
        OBVIOUS
    <2>2. CASE i = Len(q) + 1
        BY <1>1, <2>2
    <2>3. CASE i \in 1 .. Len(q)
        <3>1. Append(q, f)[i] = q[i] /\ i \in DOMAIN q
            BY <2>3
        <3> QED
            BY <3>1 DEF AllConsecutive
    <2> QED
        BY <2>1, <2>2, <2>3
<1>2. ASSUME q # <<>> PROVE Consecutive(Head(q).is)
    <2>1. Head(q) = q[1] /\ 1 \in DOMAIN q
        BY <1>2
    <2> QED
        BY <2>1 DEF AllConsecutive
<1>3. ASSUME q # <<>>, NEW i \in DOMAIN Tail(q) PROVE Consecutive(Tail(q)[i].is)
    <2>1. Tail(q)[i] = q[i + 1] /\ i + 1 \in DOMAIN q
        BY <1>3
    <2> QED
        BY <2>1 DEF AllConsecutive
<1> QED
    BY <1>1, <1>2, <1>3 DEF AllConsecutive

\* The buffer is a run of items that ends before the next one.
Trailing(is, n) == \A k \in DOMAIN is : is[k] = n - 1 - Len(is) + k

\* So is what it becomes with the next one.
LEMMA TrailingFacts ==
    ASSUME NEW is \in Seq(1 .. Items), NEW n \in Nat, Trailing(is, n)
    PROVE  /\ Consecutive(is)
           /\ Trailing(Append(is, n), n + 1) /\ Consecutive(Append(is, n))
<1>1. ASSUME NEW s, NEW m \in Nat, NEW l \in Nat, DOMAIN s = 1 .. l,
             \A k \in 1 .. l : s[k] = m - 1 - l + k
      PROVE  Consecutive(s)
    <2> SUFFICES ASSUME NEW k \in 1 .. l PROVE s[k] = s[1] + k - 1
        BY <1>1 DEF Consecutive
    <2>1. 1 \in 1 .. l
        OBVIOUS
    <2>2. s[k] = m - 1 - l + k /\ s[1] = m - 1 - l + 1
        BY <1>1, <2>1
    <2> QED
        BY <2>2
<1>2. Len(is) \in Nat /\ DOMAIN is = 1 .. Len(is)
    OBVIOUS
<1>3. Consecutive(is)
    BY <1>1, <1>2 DEF Trailing
<1> DEFINE t == Append(is, n)
           l == Len(is) + 1
<1>4. DOMAIN t = 1 .. l /\ Len(t) = l /\ t[l] = n /\ \A k \in 1 .. Len(is) : t[k] = is[k]
    OBVIOUS
<1>5. \A k \in 1 .. l : t[k] = (n + 1) - 1 - l + k
    <2> TAKE k \in 1 .. l
    <2>1. CASE k = l
        BY <1>2, <1>4, <2>1
    <2>2. CASE k \in 1 .. Len(is)
        <3>1. t[k] = n - 1 - Len(is) + k
            BY <1>2, <1>4, <2>2 DEF Trailing
        <3> QED
            BY <1>2, <3>1
    <2> QED
        BY <1>2, <2>1, <2>2
<1> HIDE DEF t
<1>6. Trailing(t, n + 1)
    BY <1>4, <1>5 DEF Trailing
<1>7. Consecutive(t)
    <2> DEFINE m == n + 1
    <2>1. l \in Nat /\ m \in Nat /\ DOMAIN t = 1 .. l /\ \A k \in 1 .. l : t[k] = m - 1 - l + k
        BY <1>2, <1>4, <1>5
    <2> HIDE DEF m, l
    <2> QED
        BY <1>1, <2>1
<1> QED
    BY <1>3, <1>6, <1>7 DEF t

\* Frames without items, and with one.
LEMMA SmallFrames ==
    /\ Consecutive(NoItems) /\ \A n \in Nat : Trailing(NoItems, n)
    /\ \A t \in FrameKinds : Consecutive(Frame(t).is)
    /\ \A bad \in BOOLEAN : Consecutive(EndFrame(bad).is)
    /\ \A n \in Nat : Consecutive(ItemFrame(<<n>>).is)
    /\ \A is : ItemFrame(is).is = is /\ ItemFrame(is).t = "items"
    /\ Consecutive(Idle.f.is)
<1>1. Consecutive(NoItems) /\ \A n \in Nat : Trailing(NoItems, n)
    BY DEF Consecutive, Trailing, NoItems
<1>2. \A n \in Nat : Consecutive(<<n>>)
    BY DEF Consecutive
<1> QED
    BY <1>1, <1>2 DEF Frame, EndFrame, ItemFrame, Idle

\* FrameInv, in these words.
LEMMA FrameWords ==
    /\ FrameInv <=> /\ AllConsecutive(wire) /\ AllConsecutive(queue)
                    /\ \A p \in Senders : Consecutive(snd[p].f.is)
                    /\ Trailing(chk.items, hdl.next)
                    /\ \A p \in {"reader", "timer"} : snd[p].f.t \notin {"items", "end"}
    /\ FrameInv' <=> /\ AllConsecutive(wire') /\ AllConsecutive(queue')
                     /\ \A p \in Senders : Consecutive(snd'[p].f.is)
                     /\ Trailing(chk'.items, hdl'.next)
                     /\ \A p \in {"reader", "timer"} : snd'[p].f.t \notin {"items", "end"}
BY DEF FrameInv, AllConsecutive, Trailing

\* The steps of the handler and of the chunker make frames of what was yielded.
LEMMA StreamKeepsFrames ==
    ASSUME OutputInv, LockInv, FrameInv, StreamSteps
    PROVE  /\ \A p \in Senders : Consecutive(snd'[p].f.is)
           /\ Trailing(chk'.items, hdl'.next)
           /\ \A p \in {"reader", "timer"} : snd'[p].f.t \notin {"items", "end"}
<1>0. /\ \A p \in Senders : Consecutive(snd[p].f.is)
      /\ Trailing(chk.items, hdl.next)
      /\ \A p \in {"reader", "timer"} : snd[p].f.t \notin {"items", "end"}
      /\ Senders = {"reader", "timer", "handler", "flusher"}
    BY FrameWords DEF Senders
<1>1. hdl.next \in Nat /\ chk.items \in Seq(1 .. Items) /\ Items \in Nat
    BY OutputAssumption DEF OutputInv, TypeOK, HandlerRec, ChunkRec
<1>2. /\ Consecutive(NoItems) /\ Trailing(NoItems, hdl.next) /\ Trailing(NoItems, hdl.next + 1)
      /\ Consecutive(ItemFrame(<<hdl.next>>).is) /\ Consecutive(Idle.f.is)
      /\ \A bad \in BOOLEAN : Consecutive(EndFrame(bad).is)
    BY <1>1, SmallFrames
<1>3. /\ Consecutive(ItemFrame(chk.items).is)
      /\ Consecutive(ItemFrame(Append(chk.items, hdl.next)).is)
      /\ Trailing(Append(chk.items, hdl.next), hdl.next + 1)
    BY <1>0, <1>1, TrailingFacts, SmallFrames
<1>4. CASE readRequest \/ runHooks
    BY <1>0, <1>4, OtherHandlerEffects DEF Moves
<1>5. CASE iterationEnds
    BY <1>0, <1>5, IterationEndsEffect DEF Moves
<1>6. CASE yieldItem
    BY <1>0, <1>2, <1>6, YieldItemEffect DEF Moves, Starts, OthersKeep
<1>7. CASE chunkAdd
    BY <1>0, <1>2, <1>3, <1>7, ChunkAddEffect DEF Moves, Flushes, Starts, OthersKeep
<1>8. CASE yieldReturns
    BY <1>0, <1>2, <1>8, YieldReturnsEffect DEF LockInv, Moves, Unlocks, Stops, OthersKeep
<1>9. CASE delayFlush
    BY <1>0, <1>2, <1>3, <1>9, DelayFlushEffect DEF Flushes, Rests, Starts, OthersKeep
<1>10. CASE delayFlushReturns
    BY <1>0, <1>2, <1>10, DelayFlushReturnsEffect DEF Unlocks, Stops, OthersKeep
<1>11. CASE chunkClose
    BY <1>0, <1>2, <1>3, <1>11, ChunkCloseEffect DEF Moves, Flushes, Rests, Starts, OthersKeep
<1>12. CASE chunkCloseReturns
    BY <1>0, <1>2, <1>12, ChunkCloseReturnsEffect DEF Moves, Unlocks, Stops, OthersKeep
<1>13. CASE sendStreamEnd
    BY <1>0, <1>2, <1>13, OtherHandlerEffects DEF Moves, Starts, OthersKeep
<1>14. CASE streamOver
    BY <1>0, <1>2, <1>14, OtherHandlerEffects DEF Moves, Stops, OthersKeep
<1> QED
    BY <1>4, <1>5, <1>6, <1>7, <1>8, <1>9, <1>10, <1>11, <1>12, <1>13, <1>14 DEF StreamSteps

\* The queue and the wire pass frames on as they are.
LEMMA QueuesKeepFrames ==
    ASSUME OutputInv, FrameInv, Next PROVE AllConsecutive(wire') /\ AllConsecutive(queue')
<1>0. /\ AllConsecutive(wire) /\ AllConsecutive(queue)
      /\ \A p \in Senders : Consecutive(snd[p].f.is) /\ snd[p].f \in AllFrames
      /\ wire \in Seq(AllFrames) /\ queue \in Seq(AllFrames)
    BY FrameWords DEF OutputInv, TypeOK, SendRec
<1>1. CASE SendSteps
    <2>1. CASE \E p \in Senders : enqueue(p)
        <3>1. PICK p \in Senders : enqueue(p)
            BY <2>1
        <3> QED
            BY <1>0, <3>1, ConsecutiveQueue DEF enqueue
    <2>2. CASE ~\E p \in Senders : enqueue(p)
        BY <1>0, <1>1, <2>2 DEF SendSteps, sendCheck, sendReleased, server
    <2> QED
        BY <2>1, <2>2
<1>2. CASE pumpWrites
    BY <1>0, <1>2, ConsecutiveQueue, FirstOf DEF pumpWrites
<1>3. CASE pumpFails
    BY <1>0, <1>3, ConsecutiveQueue DEF pumpFails
<1>4. CASE CloseSteps /\ ~pumpWrites /\ ~pumpFails
    BY <1>0, <1>4 DEF CloseSteps, closeWS, closeGracefullyWS, closeStream, stopServer,
                      pumpSeesDone, drainEnds
<1>5. CASE ReadSteps
    BY <1>0, <1>5 DEF ReadSteps, authAccepted, authRefused, refuseFrame, answerSent, authRejects,
                readRequest, readCancel, readFails, runUnregisters, authTimerFires,
                authTimerCloses, server
<1>6. CASE StreamSteps
    BY <1>0, <1>6 DEF StreamSteps, readRequest, iterationEnds, yieldItem, chunkAdd, yieldReturns,
                delayFlush, delayFlushReturns, chunkClose, chunkCloseReturns, runHooks,
                sendStreamEnd, streamOver, server
<1>7. CASE clientReads
    BY <1>0, <1>7, ConsecutiveQueue DEF clientReads
<1>8. CASE clientDrops
    BY <1>0, <1>8 DEF clientDrops, AllConsecutive
<1>9. CASE ClientSteps /\ ~clientReads /\ ~clientDrops
    BY <1>0, <1>9 DEF ClientSteps, readRequest, readCancel, startRegisters, startSends,
                clientEndsStreams, nextItem, nextEnds, consumerLeaves, callerCancels,
                stopCancels, srv, server
<1>10. CASE AtRest
    BY <1>0, <1>10 DEF AtRest, vars
<1> QED
    BY <1>1, <1>2, <1>3, <1>4, <1>5, <1>6, <1>7, <1>8, <1>9, <1>10
       DEF Next, SendSteps, CloseSteps, ReadSteps, StreamSteps, ClientSteps

\* So every step keeps the frames in form.
LEMMA NextKeepsFrames ==
    ASSUME OutputInv, LockInv, FrameInv, Next PROVE FrameInv'
<1>0. /\ \A p \in Senders : Consecutive(snd[p].f.is)
      /\ Trailing(chk.items, hdl.next)
      /\ \A p \in {"reader", "timer"} : snd[p].f.t \notin {"items", "end"}
      /\ Senders = {"reader", "timer", "handler", "flusher"}
    BY FrameWords DEF Senders
<1> SUFFICES /\ \A p \in Senders : Consecutive(snd'[p].f.is)
             /\ Trailing(chk'.items, hdl'.next)
             /\ \A p \in {"reader", "timer"} : snd'[p].f.t \notin {"items", "end"}
    BY QueuesKeepFrames, FrameWords
<1>1. CASE StreamSteps
    BY <1>1, StreamKeepsFrames
<1>2. CASE SendSteps
    <2>1. UNCHANGED <<hdl, chk>>
        BY <1>2, HandlerUntouched
    <2>2. \A p \in Senders : snd'[p].f = snd[p].f
        BY <1>2, SendEffect DEF OthersKeep
    <2> QED
        BY <1>0, <2>1, <2>2
<1>3. CASE ReadSteps /\ ~readRequest
    <2>1. UNCHANGED <<hdl, chk>>
        BY <1>3, HandlerUntouched
    <2>2. \A p \in Senders : snd'[p] = snd[p] \/ (p \in {"reader", "timer"}
              /\ \E t \in {"error", "auth_ok", "auth_error"} : snd'[p].f = Frame(t))
        BY <1>0, <1>3, ReadEffect
    <2>3. \A t \in {"error", "auth_ok", "auth_error"} :
              Consecutive(Frame(t).is) /\ Frame(t).t \notin {"items", "end"}
        BY SmallFrames DEF Frame, FrameKinds
    <2> QED
        BY <1>0, <2>1, <2>2, <2>3
<1>4. CASE CloseSteps \/ (ClientSteps /\ ~readRequest) \/ AtRest
    <2>1. UNCHANGED <<hdl, chk, snd>>
        BY <1>4, HandlerUntouched, SendsUntouched DEF AtRest, vars
    <2> QED
        BY <1>0, <2>1
<1> QED
    BY <1>1, <1>2, <1>3, <1>4 DEF Next, SendSteps, CloseSteps, ReadSteps, StreamSteps, ClientSteps

-----------------------------------------------------------------------------
(* What each step of the client does, field by field.                      *)

KeptPlace == cl'.at = cl.at /\ cl'.conn = cl.conn /\ cl'.entry = cl.entry
KeptItems == cl'.got = cl.got /\ cl'.buf = cl.buf
KeptEnd == cl'.serverDone = cl.serverDone /\ cl'.err = cl.err
KeptStop == /\ cl'.stopped = cl.stopped /\ cl'.stopDue = cl.stopDue
            /\ cl'.cancel = cl.cancel /\ cl'.consumer = cl.consumer

\* The stream is over, with e if it was not before.
EndedWith(e) == /\ cl'.serverDone
                /\ cl'.err = (IF cl.serverDone THEN cl.err ELSE FirstErr(cl.err, e))

\* The consumer's side has stopped the stream.
StoppedWith(e) == /\ cl'.stopped /\ cl'.serverDone /\ cl'.err = FirstErr(cl.err, e)
                  /\ cl'.buf = NoItems /\ KeptPlace

\* rawStream.end sets the end and the error, and nothing else.
LEMMA EndFields ==
    ASSUME NEW c \in ClientRec, NEW e
    PROVE  /\ end(c, e).serverDone
           /\ end(c, e).err = (IF c.serverDone THEN c.err ELSE FirstErr(c.err, e))
           /\ end(c, e).at = c.at /\ end(c, e).conn = c.conn /\ end(c, e).entry = c.entry
           /\ end(c, e).got = c.got /\ end(c, e).buf = c.buf
           /\ end(c, e).stopped = c.stopped /\ end(c, e).stopDue = c.stopDue
           /\ end(c, e).cancel = c.cancel /\ end(c, e).consumer = c.consumer
<1> DEFINE r == FirstErr(c.err, e)
<1>1. end(c, e) = IF c.serverDone THEN c ELSE [c EXCEPT !.serverDone = TRUE, !.err = r]
    BY DEF end
<1> HIDE DEF r
<1>2. CASE c.serverDone
    BY <1>1, <1>2
<1>3. CASE ~c.serverDone
    <2>1. end(c, e) = [c EXCEPT !.serverDone = TRUE, !.err = r]
        BY <1>1, <1>3
    <2> QED
        BY <1>3, <2>1 DEF ClientRec, r
<1> QED
    BY <1>2, <1>3

\* The same of rawStream.stop.
LEMMA StopFields ==
    ASSUME NEW c \in ClientRec, NEW e
    PROVE  /\ stop(c, e).serverDone /\ stop(c, e).stopped /\ stop(c, e).err = FirstErr(c.err, e)
           /\ stop(c, e).at = c.at /\ stop(c, e).conn = c.conn /\ stop(c, e).entry = c.entry
           /\ stop(c, e).got = c.got /\ stop(c, e).buf = NoItems
           /\ stop(c, e).cancel = c.cancel /\ stop(c, e).consumer = c.consumer
<1> DEFINE r == FirstErr(c.err, e)
           b == ~c.serverDone
<1>1. stop(c, e) = [c EXCEPT !.stopped = TRUE, !.err = r, !.stopDue = b,
                             !.serverDone = TRUE, !.buf = NoItems]
    BY DEF stop
<1> HIDE DEF r, b
<1> QED
    BY <1>1 DEF ClientRec, r

\* Starting, ending and losing a stream.
LEMMA ClientEffects ==
    ASSUME OutputInv
    PROVE  /\ readRequest => KeptPlace /\ KeptItems /\ KeptEnd /\ KeptStop
           /\ readCancel => /\ cl.cancel /\ KeptPlace /\ KeptItems /\ KeptEnd
                            /\ cl'.stopped = cl.stopped /\ cl'.stopDue = cl.stopDue
                            /\ ~cl'.cancel /\ cl'.consumer = cl.consumer
           /\ startRegisters => /\ cl.at = "starting" /\ cl'.at = "registered"
                                /\ cl'.conn = cl.conn /\ cl'.entry
                                /\ KeptItems /\ KeptEnd /\ KeptStop
           /\ startSends => /\ cl.at = "registered" /\ cl'.at = "started" /\ cl'.conn = cl.conn
                            /\ KeptItems /\ KeptStop
                            /\ \/ KeptEnd /\ cl'.entry = cl.entry
                               \/ EndedWith("error") /\ ~cl'.entry
           /\ clientDrops => /\ cl'.at = cl.at /\ cl'.conn = "down" /\ ~cl'.entry /\ ~cl'.cancel
                             /\ KeptItems /\ KeptEnd /\ cl'.stopped = cl.stopped
                             /\ cl'.stopDue = cl.stopDue /\ cl'.consumer = cl.consumer
           /\ clientEndsStreams => KeptPlace /\ KeptItems /\ KeptStop /\ EndedWith("error")
           /\ stopCancels => /\ cl.stopDue /\ cl'.at = cl.at /\ cl'.conn = cl.conn /\ ~cl'.entry
                             /\ KeptItems /\ KeptEnd /\ cl'.stopped = cl.stopped /\ ~cl'.stopDue
                             /\ cl'.consumer = cl.consumer
<1> USE DEF KeptPlace, KeptItems, KeptEnd, KeptStop
<1>0. cl \in ClientRec
    BY DEF OutputInv, TypeOK
<1>1. ASSUME readRequest PROVE KeptPlace /\ KeptItems /\ KeptEnd /\ KeptStop
    BY <1>0, <1>1 DEF readRequest, ClientRec
<1>2. ASSUME readCancel
      PROVE  /\ cl.cancel /\ KeptPlace /\ KeptItems /\ KeptEnd
             /\ cl'.stopped = cl.stopped /\ cl'.stopDue = cl.stopDue
             /\ ~cl'.cancel /\ cl'.consumer = cl.consumer
    BY <1>0, <1>2 DEF readCancel, ClientRec
<1>3. ASSUME startRegisters
      PROVE  /\ cl.at = "starting" /\ cl'.at = "registered" /\ cl'.conn = cl.conn /\ cl'.entry
             /\ KeptItems /\ KeptEnd /\ KeptStop
    BY <1>0, <1>3 DEF startRegisters, ClientRec
<1>4. ASSUME startSends
      PROVE  /\ cl.at = "registered" /\ cl'.at = "started" /\ cl'.conn = cl.conn
             /\ KeptItems /\ KeptStop
             /\ \/ KeptEnd /\ cl'.entry = cl.entry
                \/ EndedWith("error") /\ ~cl'.entry
    <2>1. CASE cl.conn = "up"
        BY <1>0, <1>4, <2>1 DEF startSends, ClientRec
    <2>2. CASE cl.conn # "up"
        <3>1. PICK c \in ClientRec : c = end(cl, "error")
            BY <1>0, EndFacts
        <3>2. cl' = [c EXCEPT !.at = "started", !.entry = FALSE]
            BY <1>4, <2>2, <3>1 DEF startSends
        <3>3. /\ c.serverDone /\ c.err = (IF cl.serverDone THEN cl.err ELSE FirstErr(cl.err, "error"))
              /\ c.conn = cl.conn /\ c.got = cl.got /\ c.buf = cl.buf
              /\ c.stopped = cl.stopped /\ c.stopDue = cl.stopDue
              /\ c.cancel = cl.cancel /\ c.consumer = cl.consumer
            BY <1>0, <3>1, EndFields
        <3>4. /\ cl'.serverDone = c.serverDone /\ cl'.err = c.err /\ cl'.at = "started" /\ ~cl'.entry
              /\ cl'.conn = c.conn /\ cl'.got = c.got /\ cl'.buf = c.buf
              /\ cl'.stopped = c.stopped /\ cl'.stopDue = c.stopDue
              /\ cl'.cancel = c.cancel /\ cl'.consumer = c.consumer
            BY <3>2 DEF ClientRec
        <3> QED
            BY <1>4, <3>3, <3>4 DEF startSends, EndedWith
    <2> QED
        BY <2>1, <2>2
<1>5. ASSUME clientDrops
      PROVE  /\ cl'.at = cl.at /\ cl'.conn = "down" /\ ~cl'.entry /\ ~cl'.cancel
             /\ KeptItems /\ KeptEnd /\ cl'.stopped = cl.stopped
             /\ cl'.stopDue = cl.stopDue /\ cl'.consumer = cl.consumer
    BY <1>0, <1>5 DEF clientDrops, ClientRec
<1>6. ASSUME clientEndsStreams PROVE KeptPlace /\ KeptItems /\ KeptStop /\ EndedWith("error")
    <2>1. PICK c \in ClientRec : c = end(cl, "error")
        BY <1>0, EndFacts
    <2>2. cl' = [c EXCEPT !.endDue = FALSE]
        BY <1>6, <2>1 DEF clientEndsStreams
    <2>3. /\ c.serverDone /\ c.err = (IF cl.serverDone THEN cl.err ELSE FirstErr(cl.err, "error"))
          /\ c.at = cl.at /\ c.conn = cl.conn /\ c.entry = cl.entry
          /\ c.got = cl.got /\ c.buf = cl.buf
          /\ c.stopped = cl.stopped /\ c.stopDue = cl.stopDue
          /\ c.cancel = cl.cancel /\ c.consumer = cl.consumer
        BY <1>0, <2>1, EndFields
    <2>4. /\ cl'.serverDone = c.serverDone /\ cl'.err = c.err /\ cl'.at = c.at
          /\ cl'.conn = c.conn /\ cl'.entry = c.entry /\ cl'.got = c.got /\ cl'.buf = c.buf
          /\ cl'.stopped = c.stopped /\ cl'.stopDue = c.stopDue
          /\ cl'.cancel = c.cancel /\ cl'.consumer = c.consumer
        BY <2>2 DEF ClientRec
    <2> QED
        BY <2>3, <2>4 DEF EndedWith
<1>7. ASSUME stopCancels
      PROVE  /\ cl.stopDue /\ cl'.at = cl.at /\ cl'.conn = cl.conn /\ ~cl'.entry
             /\ KeptItems /\ KeptEnd /\ cl'.stopped = cl.stopped /\ ~cl'.stopDue
             /\ cl'.consumer = cl.consumer
    <2>1. PICK b \in BOOLEAN : b = (cl.conn = "up")
        OBVIOUS
    <2>2. cl' = [cl EXCEPT !.stopDue = FALSE, !.entry = FALSE, !.cancel = b]
        BY <1>7, <2>1 DEF stopCancels
    <2> QED
        BY <1>0, <1>7, <2>2 DEF stopCancels, ClientRec
<1> QED
    BY <1>1, <1>2, <1>3, <1>4, <1>5, <1>6, <1>7

\* What the consumer's own steps do.
LEMMA ConsumerEffects ==
    ASSUME OutputInv
    PROVE  /\ nextItem => /\ KeptPlace /\ KeptEnd /\ KeptStop /\ ~cl.stopped /\ cl.buf # NoItems
                          /\ cl'.buf = Tail(cl.buf) /\ cl'.got = Append(cl.got, Head(cl.buf))
           /\ nextEnds => /\ cl.consumer = "reading" /\ cl'.consumer = "finished"
                          /\ cl'.got = cl.got /\ cl'.cancel = cl.cancel
                          /\ \/ /\ cl.stopped /\ KeptPlace /\ KeptEnd /\ cl'.stopped
                                /\ cl'.buf = cl.buf /\ cl'.stopDue = cl.stopDue
                             \/ /\ ~cl.stopped /\ cl.buf = NoItems /\ cl.serverDone
                                /\ StoppedWith("none")
           /\ consumerLeaves => /\ cl'.consumer = "left" /\ cl'.got = NoItems
                                /\ cl'.cancel = cl.cancel /\ StoppedWith("none")
           /\ callerCancels => /\ cl'.consumer = cl.consumer /\ cl'.got = NoItems
                               /\ cl'.cancel = cl.cancel /\ StoppedWith("error")
<1> USE DEF KeptPlace, KeptItems, KeptEnd, KeptStop
<1>0. cl \in ClientRec
    BY DEF OutputInv, TypeOK
<1>1. ASSUME nextItem
      PROVE  /\ KeptPlace /\ KeptEnd /\ KeptStop /\ ~cl.stopped /\ cl.buf # NoItems
             /\ cl'.buf = Tail(cl.buf) /\ cl'.got = Append(cl.got, Head(cl.buf))
    <2> DEFINE t == Tail(cl.buf)
               g == Append(cl.got, Head(cl.buf))
    <2>1. cl' = [cl EXCEPT !.buf = t, !.got = g]
        BY <1>1 DEF nextItem
    <2> HIDE DEF t, g
    <2>2. KeptPlace /\ KeptEnd /\ KeptStop /\ cl'.buf = t /\ cl'.got = g
        BY <1>0, <2>1 DEF ClientRec
    <2> QED
        BY <1>1, <2>2 DEF nextItem, t, g
<1>2. ASSUME NEW e \in {"none", "error"}, NEW c \in ClientRec, c = stop(cl, e)
      PROVE  /\ c.serverDone /\ c.stopped /\ c.err = FirstErr(cl.err, e)
             /\ c.at = cl.at /\ c.conn = cl.conn /\ c.entry = cl.entry
             /\ c.got = cl.got /\ c.buf = NoItems /\ c.cancel = cl.cancel /\ c.consumer = cl.consumer
    BY <1>0, <1>2, StopFields
<1>3. ASSUME nextEnds
      PROVE  /\ cl.consumer = "reading" /\ cl'.consumer = "finished"
             /\ cl'.got = cl.got /\ cl'.cancel = cl.cancel
             /\ \/ /\ cl.stopped /\ KeptPlace /\ KeptEnd /\ cl'.stopped
                   /\ cl'.buf = cl.buf /\ cl'.stopDue = cl.stopDue
                \/ /\ ~cl.stopped /\ cl.buf = NoItems /\ cl.serverDone /\ StoppedWith("none")
    <2>1. CASE cl.stopped
        BY <1>0, <1>3, <2>1 DEF nextEnds, ClientRec
    <2>2. CASE ~cl.stopped
        <3>1. PICK c \in ClientRec : c = stop(cl, "none")
            BY <1>0, EndFacts
        <3>2. cl' = [c EXCEPT !.consumer = "finished"]
            BY <1>3, <2>2, <3>1 DEF nextEnds
        <3>3. /\ cl'.serverDone = c.serverDone /\ cl'.stopped = c.stopped /\ cl'.err = c.err
              /\ cl'.at = c.at /\ cl'.conn = c.conn /\ cl'.entry = c.entry /\ cl'.got = c.got
              /\ cl'.buf = c.buf /\ cl'.cancel = c.cancel /\ cl'.consumer = "finished"
            BY <3>2 DEF ClientRec
        <3> QED
            BY <1>2, <1>3, <2>2, <3>1, <3>3 DEF nextEnds, StoppedWith
    <2> QED
        BY <2>1, <2>2
<1>4. ASSUME consumerLeaves
      PROVE  /\ cl'.consumer = "left" /\ cl'.got = NoItems
             /\ cl'.cancel = cl.cancel /\ StoppedWith("none")
    <2>1. PICK c \in ClientRec : c = stop(cl, "none")
        BY <1>0, EndFacts
    <2>2. cl' = [c EXCEPT !.consumer = "left", !.got = NoItems]
        BY <1>4, <2>1 DEF consumerLeaves
    <2>3. /\ cl'.serverDone = c.serverDone /\ cl'.stopped = c.stopped /\ cl'.err = c.err
          /\ cl'.at = c.at /\ cl'.conn = c.conn /\ cl'.entry = c.entry /\ cl'.got = NoItems
          /\ cl'.buf = c.buf /\ cl'.cancel = c.cancel /\ cl'.consumer = "left"
        BY <2>2 DEF ClientRec
    <2> QED
        BY <1>2, <2>1, <2>3 DEF StoppedWith
<1>5. ASSUME callerCancels
      PROVE  /\ cl'.consumer = cl.consumer /\ cl'.got = NoItems
             /\ cl'.cancel = cl.cancel /\ StoppedWith("error")
    <2>1. PICK c \in ClientRec : c = stop(cl, "error")
        BY <1>0, EndFacts
    <2>2. cl' = [c EXCEPT !.got = NoItems]
        BY <1>5, <2>1 DEF callerCancels
    <2>3. /\ cl'.serverDone = c.serverDone /\ cl'.stopped = c.stopped /\ cl'.err = c.err
          /\ cl'.at = c.at /\ cl'.conn = c.conn /\ cl'.entry = c.entry /\ cl'.got = NoItems
          /\ cl'.buf = c.buf /\ cl'.cancel = c.cancel /\ cl'.consumer = c.consumer
        BY <2>2 DEF ClientRec
    <2> QED
        BY <1>2, <2>1, <2>3 DEF StoppedWith
<1> QED
    BY <1>1, <1>3, <1>4, <1>5

\* The client reads a frame: items, an end, or something else.
LEMMA ReadsEffect ==
    ASSUME OutputInv, clientReads
    PROVE  /\ wire # <<>> /\ Head(wire) \in AllFrames /\ cl.conn = "up" /\ KeptStop
           /\ cl'.at = cl.at /\ cl'.conn = cl.conn /\ cl'.got = cl.got
           /\ \/ /\ Head(wire).t = "items" /\ cl.entry /\ ~cl.serverDone /\ ~cl.stopped
                 /\ cl'.buf = cl.buf \o Head(wire).is /\ KeptPlace /\ KeptEnd
              \/ /\ Head(wire).t = "items" /\ ~(cl.entry /\ ~cl.serverDone /\ ~cl.stopped)
                 /\ KeptPlace /\ KeptItems /\ KeptEnd
              \/ /\ Head(wire).t = "end" /\ cl.entry /\ ~cl'.entry
                 /\ KeptItems /\ EndedWith("none")
              \/ /\ Head(wire).t = "end_error" /\ cl.entry /\ ~cl'.entry
                 /\ KeptItems /\ EndedWith("error")
              \/ /\ Head(wire).t \in {"end", "end_error"} /\ ~cl.entry
                 /\ KeptPlace /\ KeptItems /\ KeptEnd
              \/ /\ Head(wire).t \notin {"items", "end", "end_error"}
                 /\ KeptPlace /\ KeptItems /\ KeptEnd
<1> USE DEF KeptPlace, KeptItems, KeptEnd, KeptStop
<1>0. cl \in ClientRec /\ wire \in Seq(AllFrames) /\ wire # <<>> /\ cl.conn = "up"
    BY DEF OutputInv, TypeOK, clientReads
<1> DEFINE f == Head(wire)
           ended == [cl EXCEPT !.entry = FALSE]
<1>1. f \in AllFrames /\ f.t \in FrameKinds /\ f.is \in Seq(1 .. Items)
    BY <1>0 DEF AllFrames
<1>2. cl' = CASE f.t = "items" -> push(cl, f.is)
               [] f.t = "end" -> IF cl.entry THEN end(ended, "none") ELSE cl
               [] f.t = "end_error" -> IF cl.entry THEN end(ended, "error") ELSE cl
               [] f.t = "auth_ok" -> [cl EXCEPT !.ready = TRUE]
               [] OTHER -> cl
    BY DEF clientReads
<1>3. /\ ended \in ClientRec /\ ~ended.entry /\ ended.at = cl.at /\ ended.conn = cl.conn
      /\ ended.got = cl.got /\ ended.buf = cl.buf /\ ended.serverDone = cl.serverDone
      /\ ended.err = cl.err /\ ended.stopped = cl.stopped /\ ended.stopDue = cl.stopDue
      /\ ended.cancel = cl.cancel /\ ended.consumer = cl.consumer
    BY <1>0 DEF ClientRec
<1> HIDE DEF f, ended
<1>4. CASE f.t = "items"
    <2>1. cl' = push(cl, f.is)
        BY <1>2, <1>4
    <2> DEFINE b == cl.buf \o f.is
    <2>2. CASE cl.entry /\ ~cl.serverDone /\ ~cl.stopped
        <3>1. cl' = [cl EXCEPT !.buf = b]
            BY <2>1, <2>2 DEF push
        <3> HIDE DEF b
        <3>2. /\ KeptPlace /\ KeptEnd /\ KeptStop /\ cl'.buf = b /\ cl'.got = cl.got
            BY <1>0, <3>1 DEF ClientRec
        <3> QED
            BY <1>0, <1>1, <1>4, <2>2, <3>2 DEF f, b
    <2>3. CASE ~(cl.entry /\ ~cl.serverDone /\ ~cl.stopped)
        <3>1. cl' = cl
            BY <2>1, <2>3 DEF push
        <3> QED
            BY <1>0, <1>1, <1>4, <2>3, <3>1 DEF f
    <2> QED
        BY <2>2, <2>3
<1>5. ASSUME NEW e, cl' = end(ended, e)
      PROVE  /\ ~cl'.entry /\ KeptItems /\ EndedWith(e) /\ KeptStop
             /\ cl'.at = cl.at /\ cl'.conn = cl.conn
    BY <1>3, <1>5, EndFields DEF EndedWith
<1>6. CASE f.t = "end"
    BY <1>0, <1>1, <1>2, <1>5, <1>6 DEF f
<1>7. CASE f.t = "end_error"
    BY <1>0, <1>1, <1>2, <1>5, <1>7 DEF f
<1>8. CASE f.t = "auth_ok"
    <2>1. cl' = [cl EXCEPT !.ready = TRUE]
        BY <1>2, <1>8
    <2>2. KeptPlace /\ KeptItems /\ KeptEnd /\ KeptStop
        BY <1>0, <2>1 DEF ClientRec
    <2> QED
        BY <1>0, <1>1, <1>8, <2>2 DEF f
<1>9. CASE f.t \notin {"items", "end", "end_error", "auth_ok"}
    <2>1. cl' = cl
        BY <1>2, <1>9
    <2> QED
        BY <1>0, <1>1, <1>9, <2>1 DEF f
<1> QED
    BY <1>4, <1>6, <1>7, <1>8, <1>9

-----------------------------------------------------------------------------
(* What never comes back, and why things fail.                             *)

\* A client that stopped listening does not start again.
LEMMA ListeningEnds ==
    ASSUME OutputInv, Next PROVE Listening' => Listening
<1> USE DEF Listening
<1>1. CASE ClientSteps
    <2>1. CASE readRequest \/ readCancel \/ startRegisters \/ startSends \/ clientDrops
               \/ clientEndsStreams \/ stopCancels
        BY <2>1, ClientEffects DEF KeptPlace, KeptEnd, KeptStop, EndedWith
    <2>2. CASE nextItem \/ nextEnds \/ consumerLeaves \/ callerCancels
        BY <2>2, ConsumerEffects DEF KeptPlace, KeptEnd, KeptStop, StoppedWith
    <2>3. CASE clientReads
        BY <2>3, ReadsEffect DEF KeptPlace, KeptEnd, KeptStop, EndedWith
    <2> QED
        BY <1>1, <2>1, <2>2, <2>3 DEF ClientSteps
<1>2. CASE ~ClientSteps
    <2>1. UNCHANGED cl
        <3>1. ~readRequest /\ ~readCancel
            BY <1>2 DEF ClientSteps
        <3>2. SendSteps \/ CloseSteps \/ ReadSteps \/ StreamSteps \/ AtRest
            BY <1>2 DEF Next, SendSteps, CloseSteps, ReadSteps, StreamSteps, ClientSteps
        <3> QED
            BY <3>1, <3>2, ClientUntouched DEF AtRest, vars
    <2> QED
        BY <2>1
<1> QED
    BY <1>1, <1>2

\* A closed connection stays closed, a pump that has returned is gone, and a
\* cancelled context stays cancelled.
LEMMA Monotone ==
    ASSUME OutputInv, Next
    PROVE  /\ closed => closed'
           /\ pump = "exited" => pump' = "exited"
           /\ ctx => ctx'
<1>0. closed \in BOOLEAN /\ ctx \in BOOLEAN
    BY DEF OutputInv, TypeOK
<1>1. CASE SendSteps
    BY <1>1 DEF SendSteps, sendCheck, enqueue, sendReleased, server
<1>2. CASE CloseSteps
    BY <1>0, <1>2 DEF CloseSteps, closeWS, closeGracefullyWS, closeStream, stopServer, marksClosed,
                pumpWrites, pumpFails, pumpSeesDone, drainEnds
<1>3. CASE ReadSteps
    <2>1. CASE authAccepted \/ authRefused \/ refuseFrame \/ answerSent \/ readRequest \/ readFails
               \/ authTimerFires
        BY <2>1 DEF authAccepted, authRefused, refuseFrame, answerSent, readRequest, readFails,
                    authTimerFires, server
    <2>2. CASE authRejects \/ runUnregisters \/ authTimerCloses
        BY <1>0, <2>2 DEF authRejects, runUnregisters, authTimerCloses, marksClosed
    <2>3. CASE readCancel
        BY <1>0, <2>3 DEF readCancel, server
    <2> QED
        BY <1>3, <2>1, <2>2, <2>3 DEF ReadSteps
<1>4. CASE StreamSteps
    BY <1>4 DEF StreamSteps, readRequest, iterationEnds, yieldItem, chunkAdd, yieldReturns,
                delayFlush, delayFlushReturns, chunkClose, chunkCloseReturns, runHooks,
                sendStreamEnd, streamOver, server
<1>5. CASE ClientSteps /\ ~readCancel
    BY <1>5 DEF ClientSteps, readRequest, startRegisters, startSends, clientReads,
                clientDrops, clientEndsStreams, nextItem, nextEnds, consumerLeaves, callerCancels,
                stopCancels, srv, server
<1>6. CASE AtRest
    BY <1>6 DEF AtRest, vars
<1> QED
    BY <1>1, <1>2, <1>3, <1>4, <1>5, <1>6
       DEF Next, SendSteps, CloseSteps, ReadSteps, StreamSteps, ClientSteps

\* The connection has failed: it is closed, or nobody writes any more.
Broken == closed \/ pump = "exited"

\* done is closed by a close, or by the pump that returns.
LEMMA DoneKept ==
    ASSUME OutputInv, done => Broken, Next PROVE done' => Broken'
<1>0. closed \in BOOLEAN /\ (closed <=> closer # "nobody")
    BY DEF OutputInv, TypeOK, CloseInv
<1>1. Broken => Broken'
    BY Monotone DEF Broken
<1>2. CASE done' = done
    BY <1>1, <1>2
<1>3. CASE closeWS \/ closeGracefullyWS \/ closeStream
    BY <1>0, <1>3 DEF closeWS, closeGracefullyWS, closeStream, Broken
<1>4. CASE pumpReturns
    BY <1>4 DEF pumpReturns, Broken
<1>5. CASE runUnregisters
    BY <1>5, MarksClosedFacts DEF runUnregisters, Broken
<1>6. CASE SendSteps \/ stopServer \/ pumpWrites \/ (pumpSeesDone /\ ~pumpReturns)
           \/ (ReadSteps /\ ~runUnregisters) \/ StreamSteps \/ ClientSteps \/ AtRest
    <2>1. CASE SendSteps
        BY <1>2, <2>1 DEF SendSteps, sendCheck, enqueue, sendReleased, server
    <2>2. CASE stopServer \/ pumpWrites \/ (pumpSeesDone /\ ~pumpReturns)
        BY <1>2, <2>2 DEF stopServer, pumpWrites, pumpSeesDone
    <2>3. CASE ReadSteps /\ ~runUnregisters
        BY <1>2, <2>3 DEF ReadSteps, authAccepted, authRefused, refuseFrame, answerSent, authRejects,
                    readRequest, readCancel, readFails, authTimerFires, authTimerCloses, server
    <2>4. CASE StreamSteps
        BY <1>2, <2>4 DEF StreamSteps, readRequest, iterationEnds, yieldItem, chunkAdd,
                    yieldReturns, delayFlush, delayFlushReturns, chunkClose, chunkCloseReturns,
                    runHooks, sendStreamEnd, streamOver, server
    <2>5. CASE ClientSteps
        BY <1>2, <2>5 DEF ClientSteps, readRequest, readCancel, startRegisters, startSends,
                    clientReads, clientDrops, clientEndsStreams, nextItem, nextEnds,
                    consumerLeaves, callerCancels, stopCancels, srv, server
    <2>6. CASE AtRest
        BY <1>2, <2>6 DEF AtRest, vars
    <2> QED
        BY <1>6, <2>1, <2>2, <2>3, <2>4, <2>5, <2>6
<1> QED
    BY <1>3, <1>4, <1>5, <1>6
       DEF Next, SendSteps, CloseSteps, ReadSteps, StreamSteps, ClientSteps, pumpFails, drainEnds

\* The context is cancelled by a close, or by a client that has stopped.
LEMMA CtxKept ==
    ASSUME OutputInv, ErrInv, DeliveryInv, Next PROVE ctx' => closed' \/ ~Listening'
<1>0. ctx => closed \/ ~Listening
    BY DEF ErrInv
<1>1. (closed => closed') /\ (Listening' => Listening)
    BY Monotone, ListeningEnds
<1>2. CASE ctx' = ctx
    BY <1>0, <1>1, <1>2
<1>3. CASE \E who \in {"reader", "timer", "run", "stop"} : marksClosed(who)
    BY <1>3, MarksClosedFacts
<1>4. CASE readCancel
    <2>1. cl.cancel
        BY <1>4 DEF readCancel
    <2> QED
        BY <1>1, <2>1 DEF DeliveryInv, Listening
<1>5. CASE SendSteps \/ (CloseSteps /\ ~stopServer) \/ StreamSteps \/ (ClientSteps /\ ~readCancel)
           \/ AtRest
    <2>1. CASE SendSteps
        BY <1>2, <2>1 DEF SendSteps, sendCheck, enqueue, sendReleased
    <2>2. CASE CloseSteps /\ ~stopServer
        BY <1>2, <2>2 DEF CloseSteps, closeWS, closeGracefullyWS, closeStream, pumpWrites, pumpFails,
                          pumpSeesDone, drainEnds
    <2>3. CASE StreamSteps
        BY <1>2, <2>3 DEF StreamSteps, readRequest, iterationEnds, yieldItem, chunkAdd,
                    yieldReturns, delayFlush, delayFlushReturns, chunkClose, chunkCloseReturns,
                    runHooks, sendStreamEnd, streamOver
    <2>4. CASE ClientSteps /\ ~readCancel
        BY <1>2, <2>4 DEF ClientSteps, readRequest, startRegisters, startSends,
                    clientReads, clientDrops, clientEndsStreams, nextItem, nextEnds,
                    consumerLeaves, callerCancels, stopCancels, srv
    <2>5. CASE AtRest
        BY <1>2, <2>5 DEF AtRest, vars
    <2> QED
        BY <1>5, <2>1, <2>2, <2>3, <2>4, <2>5
<1>6. CASE stopServer
    BY <1>3, <1>6 DEF stopServer
<1>7. CASE ReadSteps /\ ~readCancel
    <2>1. CASE authRejects
        BY <1>2, <1>3, <2>1 DEF authRejects
    <2>2. CASE runUnregisters \/ authTimerCloses
        BY <1>3, <2>2 DEF runUnregisters, authTimerCloses
    <2>3. CASE ~authRejects /\ ~runUnregisters /\ ~authTimerCloses
        BY <1>2, <1>7, <2>3 DEF ReadSteps, authAccepted, authRefused, refuseFrame, answerSent,
                    readRequest, readFails, authTimerFires
    <2> QED
        BY <2>1, <2>2, <2>3
<1> QED
    BY <1>4, <1>5, <1>6, <1>7 DEF Next, SendSteps, CloseSteps, ReadSteps, StreamSteps, ClientSteps

\* A send fails as closed only if the connection is broken.
LEMMA ClosedSends ==
    ASSUME OutputInv, ErrInv, Next
    PROVE  \A p \in Senders : snd'[p].at = "closed" => Broken'
<1>0. /\ \A p \in Senders : snd[p].at = "closed" => Broken
      /\ done => Broken
      /\ Senders = {"reader", "timer", "handler", "flusher"}
      /\ Broken => Broken'
    BY Monotone DEF ErrInv, Broken, Senders
<1>1. CASE SendSteps
    <2>1. PICK p \in Senders, s \in {"select", "ok", "closed", "canceled"} :
              /\ snd'[p].at = s /\ OthersKeep(p)
              /\ s = "closed" => closed \/ done
        BY <1>1, SendEffect
    <2> QED
        BY <1>0, <2>1 DEF OthersKeep, Broken
<1>2. CASE ReadSteps
    BY <1>0, <1>2, ReadEffect
<1>3. CASE CloseSteps \/ ClientSteps \/ AtRest
    <2>1. snd' = snd
        BY <1>3, SendsUntouched DEF AtRest, vars
    <2> QED
        BY <1>0, <2>1
<1>4. CASE StreamSteps
    <2>1. \A p \in Senders : snd'[p] = snd[p] \/ snd'[p].at \in {"check", "idle"}
        <3>0. Idle.at = "idle"
            BY DEF Idle
        <3>1. CASE readRequest \/ runHooks \/ sendStreamEnd \/ streamOver
            BY <3>0, <3>1, OtherHandlerEffects DEF Starts, Stops, OthersKeep
        <3>2. CASE iterationEnds \/ yieldItem \/ chunkAdd
            BY <3>2, IterationEndsEffect, YieldItemEffect, ChunkAddEffect
               DEF Flushes, Starts, OthersKeep
        <3>3. CASE yieldReturns \/ delayFlushReturns \/ chunkCloseReturns
            BY <3>0, <3>3, YieldReturnsEffect, DelayFlushReturnsEffect, ChunkCloseReturnsEffect
               DEF Stops, OthersKeep
        <3>4. CASE delayFlush \/ chunkClose
            BY <3>4, DelayFlushEffect, ChunkCloseEffect DEF Flushes, Starts, OthersKeep
        <3> QED
            BY <1>4, <3>1, <3>2, <3>3, <3>4 DEF StreamSteps
    <2> QED
        BY <1>0, <2>1
<1> QED
    BY <1>1, <1>2, <1>3, <1>4 DEF Next, SendSteps, CloseSteps, ReadSteps, StreamSteps, ClientSteps

\* The parts of ErrInv that are about the handler and the chunker.
HandlerErrs ==
    /\ "closed" \in {hdl.err, chk.err} => Broken
    /\ hdl.at \in {"off", "iterating", "sending"} => hdl.err = "none"
    /\ hdl.at \notin {"off", "iterating", "sending"} /\ hdl.err = "none"
          => ctx \/ hdl.next = Items + 1
    /\ chk.err # "none" => chk.items = NoItems \/ hdl.err = "failed"
    /\ hdl.at = "flushing" /\ snd["handler"].at # "idle"
          => chk.err = "none" \/ hdl.err = "failed"
    /\ hdl.told = "nothing" <=> hdl.at \notin {"ending", "ended", "over"}
    /\ hdl.told # "nothing" /\ ~ctx /\ hdl.err = "none" => hdl.told = "ok"

\* The steps of the stream keep them.
LEMMA StreamKeepsErrs ==
    ASSUME OutputInv, LockInv, ErrInv, StreamSteps, Next PROVE HandlerErrs'
<1>0. /\ HandlerErrs /\ {"handler", "flusher"} \subseteq Senders
      /\ Broken => Broken'
      /\ \A p \in Senders : snd[p].at = "closed" => Broken
      /\ cfg' = cfg /\ Idle.at = "idle" /\ cfg.chunk \in Nat
      /\ hdl.next \in 1 .. Items + 1 /\ hdl.next \in Nat /\ Items \in Nat
      /\ AfterIteration \in {"hooks", "flushing"}
      /\ AfterIteration = "hooks" <=> cfg.chunk = 0
    BY Monotone, CfgFixed, ConfigFacts DEF ErrInv, HandlerErrs, Broken, Senders, Idle, OutputInv,
       TypeOK, HandlerRec, AfterIteration
<1>1. ctx' = ctx
    BY DEF StreamSteps, readRequest, iterationEnds, yieldItem, chunkAdd, yieldReturns, delayFlush,
           delayFlushReturns, chunkClose, chunkCloseReturns, runHooks, sendStreamEnd, streamOver
<1> USE DEF HandlerErrs
<1> HIDE DEF Broken
<1>2. CASE readRequest
    BY <1>0, <1>1, <1>2, OtherHandlerEffects DEF Moves, Starts, OthersKeep
<1>3. CASE runHooks
    BY <1>0, <1>1, <1>3, OtherHandlerEffects DEF Moves, Starts, OthersKeep
<1>4. CASE sendStreamEnd \/ streamOver
    BY <1>0, <1>1, <1>4, OtherHandlerEffects DEF Moves
<1>5. CASE iterationEnds
    BY <1>0, <1>1, <1>5, IterationEndsEffect DEF Moves, FirstErr, LockInv
<1>6. CASE yieldItem
    BY <1>0, <1>1, <1>6, YieldItemEffect DEF Moves
<1>7. CASE chunkAdd
    BY <1>0, <1>1, <1>7, ChunkAddEffect DEF Moves, Flushes, LockInv
<1>8. CASE yieldReturns
    BY <1>0, <1>1, <1>8, YieldReturnsEffect
       DEF Moves, Unlocks, Stops, FirstErr, Outcome, Returned, LockInv
<1>9. CASE delayFlush
    BY <1>0, <1>1, <1>9, DelayFlushEffect DEF Flushes, Starts, OthersKeep, Rests, LockInv
<1>10. CASE delayFlushReturns
    BY <1>0, <1>1, <1>10, DelayFlushReturnsEffect
       DEF Unlocks, Stops, OthersKeep, FirstErr, Outcome, Returned, LockInv
<1>11. CASE chunkClose
    BY <1>0, <1>1, <1>11, ChunkCloseEffect
       DEF Moves, Flushes, Starts, OthersKeep, Rests, FirstErr, LockInv
<1>12. CASE chunkCloseReturns
    BY <1>0, <1>1, <1>12, ChunkCloseReturnsEffect
       DEF Moves, Unlocks, Stops, FirstErr, Outcome, Returned, LockInv
<1> QED
    BY <1>2, <1>3, <1>4, <1>5, <1>6, <1>7, <1>8, <1>9, <1>10, <1>11, <1>12 DEF StreamSteps

\* So every step keeps the errors explained.
LEMMA NextKeepsErrs ==
    ASSUME OutputInv, LockInv, ErrInv, DeliveryInv, Next PROVE ErrInv'
<1>1. done' => Broken'
    <2>1. done => Broken
        BY DEF ErrInv, Broken
    <2> QED
        BY <2>1, DoneKept
<1>2. (\A p \in Senders : snd'[p].at = "closed" => Broken') /\ (ctx' => closed' \/ ~Listening')
    BY ClosedSends, CtxKept
<1>3. HandlerErrs'
    <2>0. /\ HandlerErrs /\ (Broken => Broken') /\ (ctx => ctx') /\ ctx \in BOOLEAN /\ ctx' \in BOOLEAN
        BY Monotone, NextKeeps DEF HandlerErrs, ErrInv, Broken, OutputInv, TypeOK
    <2>1. CASE StreamSteps
        BY <2>1, StreamKeepsErrs
    <2>2. CASE ~StreamSteps
        <3>1. ~readRequest
            BY <2>2 DEF StreamSteps
        <3>2. SendSteps \/ CloseSteps \/ ReadSteps \/ ClientSteps \/ AtRest
            BY <2>2 DEF Next, SendSteps, CloseSteps, ReadSteps, StreamSteps, ClientSteps
        <3>3. UNCHANGED <<hdl, chk>>
            BY <3>1, <3>2, HandlerUntouched DEF AtRest, vars
        <3>4. snd'["handler"].at # "idle" => snd["handler"].at # "idle"
            <4>1. CASE SendSteps
                BY <4>1, SendEffect DEF OthersKeep, Senders
            <4>2. CASE ReadSteps
                BY <4>2, ReadEffect
            <4>3. CASE CloseSteps \/ ClientSteps \/ AtRest
                BY <4>3, SendsUntouched DEF AtRest, vars
            <4> QED
                BY <3>2, <4>1, <4>2, <4>3
        <3> QED
            BY <2>0, <3>3, <3>4 DEF HandlerErrs
    <2> QED
        BY <2>1, <2>2
<1> QED
    BY <1>1, <1>2, <1>3 DEF ErrInv, HandlerErrs, Broken

-----------------------------------------------------------------------------
(* Sets of items in order.                                                 *)

\* What a frame carries.
LEMMA OfFacts ==
    ASSUME NEW f \in AllFrames
    PROVE  /\ Of(f) \subseteq Nat
           /\ f.t \notin {"items", "end"} => Of(f) = {}
           /\ f.t = "items" => Of(f) = {f.is[k] : k \in 1 .. Len(f.is)} /\ Len(f.is) \in Nat \ {0}
           /\ f.t = "end" => Of(f) = {Items + 1}
<1>1. f.is \in Seq(1 .. Items) /\ (f.t = "items" <=> f.is # NoItems)
    BY DEF AllFrames
<1>2. DOMAIN f.is = 1 .. Len(f.is) /\ Len(f.is) \in Nat
    BY <1>1
<1>3. \A k \in DOMAIN f.is : f.is[k] \in Nat
    <2>1. ASSUME NEW S, NEW s \in Seq(S), NEW k \in DOMAIN s PROVE s[k] \in S
        OBVIOUS
    <2>2. \A k \in DOMAIN f.is : f.is[k] \in 1 .. Items
        BY <1>1, <2>1
    <2> QED
        BY <2>2
<1>4. Items + 1 \in Nat
    BY OutputAssumption
<1>5. f.is = NoItems => DOMAIN f.is = {}
    BY DEF NoItems
<1>6. f.is # NoItems => Len(f.is) # 0
    BY <1>1 DEF NoItems
<1> QED
    BY <1>1, <1>2, <1>3, <1>4, <1>5, <1>6 DEF Of

\* What a queue carries.
LEMMA InFacts ==
    ASSUME NEW q \in Seq(AllFrames)
    PROVE  In(q) \subseteq Nat
<1> SUFFICES ASSUME NEW i \in DOMAIN q PROVE Of(q[i]) \subseteq Nat
    BY DEF In
<1>1. q[i] \in AllFrames
    OBVIOUS
<1> QED
    BY <1>1, OfFacts

\* A frame at the end of a queue ...
LEMMA InAppend ==
    ASSUME NEW q \in Seq(AllFrames), NEW f \in AllFrames
    PROVE  /\ In(Append(q, f)) = In(q) \cup Of(f)
           /\ Sorted(q) /\ Below(In(q), Of(f)) => Sorted(Append(q, f))
<1> DEFINE r == Append(q, f)
           n == Len(q)
<1>1. /\ n \in Nat /\ DOMAIN q = 1 .. n /\ DOMAIN r = 1 .. n + 1 /\ r[n + 1] = f
      /\ \A i \in 1 .. n : r[i] = q[i]
    OBVIOUS
<1> HIDE DEF r, n
<1>2. ASSUME NEW x PROVE x \in In(r) <=> x \in In(q) \cup Of(f)
    <2>1. ASSUME x \in In(r) PROVE x \in In(q) \cup Of(f)
        <3>1. PICK i \in 1 .. n + 1 : x \in Of(r[i])
            BY <1>1, <2>1 DEF In
        <3>2. CASE i = n + 1
            BY <1>1, <3>1, <3>2
        <3>3. CASE i \in 1 .. n
            BY <1>1, <3>1, <3>3 DEF In
        <3> QED
            BY <1>1, <3>2, <3>3
    <2>2. ASSUME x \in In(q) PROVE x \in In(r)
        <3>1. PICK i \in 1 .. n : x \in Of(q[i])
            BY <1>1, <2>2 DEF In
        <3>2. i \in 1 .. n + 1 /\ r[i] = q[i]
            BY <1>1
        <3> QED
            BY <1>1, <3>1, <3>2 DEF In
    <2>3. ASSUME x \in Of(f) PROVE x \in In(r)
        <3>1. n + 1 \in 1 .. n + 1
            BY <1>1
        <3> QED
            BY <1>1, <2>3, <3>1 DEF In
    <2> QED
        BY <2>1, <2>2, <2>3
<1>3. ASSUME Sorted(q), Below(In(q), Of(f)), NEW i \in 1 .. n + 1, NEW j \in 1 .. n + 1, i < j
      PROVE  Below(Of(r[i]), Of(r[j]))
    <2>1. i \in 1 .. n /\ r[i] = q[i]
        BY <1>1, <1>3
    <2>2. CASE j \in 1 .. n
        BY <1>1, <1>3, <2>1, <2>2 DEF Sorted
    <2>3. CASE j = n + 1
        <3>1. Of(r[j]) = Of(f) /\ Of(r[i]) \subseteq In(q)
            BY <1>1, <2>1, <2>3 DEF In
        <3> QED
            BY <1>3, <3>1 DEF Below
    <2> QED
        BY <1>1, <2>2, <2>3
<1>4. Sorted(q) /\ Below(In(q), Of(f)) => Sorted(r)
    BY <1>1, <1>3 DEF Sorted
<1>5. In(r) = In(q) \cup Of(f)
    BY <1>2
<1> QED
    BY <1>4, <1>5 DEF r

\* ... and one taken from its front.
LEMMA InTail ==
    ASSUME NEW q \in Seq(AllFrames), q # <<>>
    PROVE  /\ In(q) = Of(Head(q)) \cup In(Tail(q))
           /\ Sorted(q) => Sorted(Tail(q)) /\ Below(Of(Head(q)), In(Tail(q)))
<1> DEFINE r == Tail(q)
           n == Len(q)
<1>1. /\ n \in Nat /\ n > 0 /\ DOMAIN q = 1 .. n /\ DOMAIN r = 1 .. n - 1 /\ Head(q) = q[1]
      /\ \A i \in 1 .. n - 1 : r[i] = q[i + 1]
    OBVIOUS
<1> HIDE DEF r, n
<1>2. ASSUME NEW x PROVE x \in In(q) <=> x \in Of(Head(q)) \cup In(r)
    <2>1. ASSUME x \in In(q) PROVE x \in Of(Head(q)) \cup In(r)
        <3>1. PICK i \in 1 .. n : x \in Of(q[i])
            BY <1>1, <2>1 DEF In
        <3>2. CASE i = 1
            BY <1>1, <3>1, <3>2
        <3>3. CASE i # 1
            <4>1. i - 1 \in 1 .. n - 1 /\ (i - 1) + 1 = i
                BY <1>1, <3>3
            <4>2. r[i - 1] = q[i]
                BY <1>1, <4>1
            <4> QED
                BY <1>1, <3>1, <4>1, <4>2 DEF In
        <3> QED
            BY <3>2, <3>3
    <2>2. ASSUME x \in Of(Head(q)) PROVE x \in In(q)
        <3>1. 1 \in 1 .. n
            BY <1>1
        <3> QED
            BY <1>1, <2>2, <3>1 DEF In
    <2>3. ASSUME x \in In(r) PROVE x \in In(q)
        <3>1. PICK i \in 1 .. n - 1 : x \in Of(r[i])
            BY <1>1, <2>3 DEF In
        <3>2. i + 1 \in 1 .. n /\ r[i] = q[i + 1]
            BY <1>1
        <3> QED
            BY <1>1, <3>1, <3>2 DEF In
    <2> QED
        BY <2>1, <2>2, <2>3
<1>3. ASSUME Sorted(q), NEW i \in 1 .. n - 1, NEW j \in 1 .. n - 1, i < j
      PROVE  Below(Of(r[i]), Of(r[j]))
    <2>1. i + 1 \in 1 .. n /\ j + 1 \in 1 .. n /\ i + 1 < j + 1 /\ r[i] = q[i + 1] /\ r[j] = q[j + 1]
        BY <1>1, <1>3
    <2> QED
        BY <1>1, <1>3, <2>1 DEF Sorted
<1>4. ASSUME Sorted(q), NEW x \in Of(Head(q)), NEW y \in In(r) PROVE x < y
    <2>1. PICK i \in 1 .. n - 1 : y \in Of(r[i])
        BY <1>1 DEF In
    <2>2. i + 1 \in 1 .. n /\ 1 \in 1 .. n /\ 1 < i + 1 /\ r[i] = q[i + 1]
        BY <1>1
    <2>3. Below(Of(q[1]), Of(q[i + 1]))
        BY <1>1, <1>4, <2>2 DEF Sorted
    <2> QED
        BY <1>1, <2>1, <2>2, <2>3 DEF Below
<1>5. In(q) = Of(Head(q)) \cup In(r)
    BY <1>2
<1>6. Sorted(q) => Sorted(r) /\ Below(Of(Head(q)), In(r))
    BY <1>1, <1>3, <1>4 DEF Sorted, Below
<1> QED
    BY <1>5, <1>6 DEF r

\* Cutting off the far end leaves no gap.
LEMMA CutNoGap ==
    ASSUME NEW S \in SUBSET Nat, NEW T \in SUBSET Nat, NoGap(S \cup T), Below(S, T)
    PROVE  NoGap(S)
<1> SUFFICES ASSUME NEW y \in S, NEW n \in 1 .. y PROVE n \in S
    BY DEF NoGap
<1>1. n \in S \cup T
    BY DEF NoGap
<1>2. ASSUME n \in T PROVE FALSE
    BY <1>2 DEF Below
<1> QED
    BY <1>1, <1>2

\* Nor does the next number leave one.
LEMMA GrowNoGap ==
    ASSUME NEW S \in SUBSET Nat, NEW n \in Nat, NoGap(S), \A k \in 1 .. n - 1 : k \in S
    PROVE  NoGap(S \cup {n})
<1> SUFFICES ASSUME NEW y \in S \cup {n}, NEW k \in 1 .. y PROVE k \in S \cup {n}
    BY DEF NoGap
<1>1. CASE y \in S
    BY <1>1 DEF NoGap
<1>2. CASE y = n
    BY <1>2
<1> QED
    BY <1>1, <1>2

-----------------------------------------------------------------------------
(* The order of what is on its way, as a relation between what the client  *)
(* has received, the wire, the queue, and what is not queued yet.          *)

\* All that will still reach the client; x: the pump is gone.
Held(R, w, x, q, U) == R \cup In(w) \cup (IF x THEN {} ELSE In(q) \cup U)

Ordered(R, w, x, q, U) ==
    /\ Below(R, In(w))
    /\ Below(R \cup In(w), IF x THEN {} ELSE In(q) \cup U)
    /\ Sorted(w)
    /\ ~x => Sorted(q) /\ Below(In(q), U)
    /\ NoGap(Held(R, w, x, q, U))

\* OrderInv and Known, in these words.
LEMMA OrderWords ==
    /\ OrderInv <=> Ordered(Received, wire, pump = "exited", queue, Unsent)
    /\ Known = Held(Received, wire, pump = "exited", queue, Unsent)
    /\ OrderInv' <=> Ordered(Received', wire', pump' = "exited", queue', Unsent')
    /\ Known' = Held(Received', wire', pump' = "exited", queue', Unsent')
BY DEF OrderInv, Ordered, Known, Held, Ahead

\* A loss cuts off the far end: the items not queued yet, or, when the pump is
\* gone, the queue as well.
LEMMA OrderCut ==
    ASSUME NEW R \in SUBSET Nat, NEW w \in Seq(AllFrames), NEW x \in BOOLEAN,
           NEW q \in Seq(AllFrames), NEW U \in SUBSET Nat, Ordered(R, w, x, q, U)
    PROVE  /\ Ordered(R, w, x, q, {}) /\ Held(R, w, x, q, {}) \subseteq Held(R, w, x, q, U)
           /\ \A p, V : Ordered(R, w, TRUE, p, V) /\ Held(R, w, TRUE, p, V) \subseteq Held(R, w, x, q, U)
<1> DEFINE W == In(w)
           Q == In(q)
<1>0. W \subseteq Nat /\ Q \subseteq Nat
    BY InFacts
<1>1. /\ Below(R, W) /\ Below(R \cup W, IF x THEN {} ELSE Q \cup U) /\ Sorted(w)
      /\ ~x => Sorted(q) /\ Below(Q, U)
      /\ NoGap(R \cup W \cup (IF x THEN {} ELSE Q \cup U))
    BY DEF Ordered, Held
<1> HIDE DEF W, Q
<1>2. Below(R \cup W, {}) /\ Below(Q, {}) /\ (~x => Below(R \cup W, Q))
    BY <1>1 DEF Below
<1>3. NoGap(R \cup W)
    <2>1. CASE x
        BY <1>1, <2>1
    <2>2. CASE ~x
        <3>1. NoGap((R \cup W) \cup (Q \cup U)) /\ Below(R \cup W, Q \cup U)
            BY <1>1, <2>2
        <3> QED
            BY <1>0, <3>1, CutNoGap
    <2> QED
        BY <2>1, <2>2
<1>4. ASSUME ~x PROVE NoGap(R \cup W \cup Q)
    <2>1. NoGap((R \cup W \cup Q) \cup U)
        <3>1. R \cup W \cup (Q \cup U) = (R \cup W \cup Q) \cup U
            OBVIOUS
        <3> QED
            BY <1>1, <1>4, <3>1
    <2>2. Below(R \cup W \cup Q, U)
        BY <1>1, <1>4 DEF Below
    <2>3. R \cup W \cup Q \in SUBSET Nat
        BY <1>0
    <2> QED
        BY <2>1, <2>2, <2>3, CutNoGap
<1>5. \A p, V : Ordered(R, w, TRUE, p, V) /\ Held(R, w, TRUE, p, V) \subseteq Held(R, w, x, q, U)
    <2>1. ASSUME NEW p, NEW V
          PROVE  Held(R, w, TRUE, p, V) = R \cup W
        BY DEF Held, W
    <2>2. R \cup W \subseteq Held(R, w, x, q, U)
        BY DEF Held, W
    <2>3. ASSUME NEW p, NEW V PROVE Ordered(R, w, TRUE, p, V)
        BY <1>1, <1>2, <1>3, <2>1 DEF Ordered, W
    <2> QED
        BY <2>1, <2>2, <2>3
<1>6. Ordered(R, w, x, q, {}) /\ Held(R, w, x, q, {}) \subseteq Held(R, w, x, q, U)
    <2>1. CASE x
        <3>1. x = TRUE
            BY <2>1
        <3> QED
            BY <1>5, <3>1
    <2>2. CASE ~x
        <3>1. Held(R, w, x, q, {}) = R \cup W \cup Q /\ Held(R, w, x, q, U) = R \cup W \cup (Q \cup U)
            BY <2>2 DEF Held, W, Q
        <3> QED
            BY <1>1, <1>2, <1>4, <2>2, <3>1 DEF Ordered, W, Q
    <2> QED
        BY <2>1, <2>2
<1> QED
    BY <1>5, <1>6

\* The next item is known.
LEMMA OrderGrow ==
    ASSUME NEW R \in SUBSET Nat, NEW w \in Seq(AllFrames), NEW x \in BOOLEAN,
           NEW q \in Seq(AllFrames), NEW U \in SUBSET Nat, Ordered(R, w, x, q, U), NEW n \in Nat,
           \A y \in Held(R, w, x, q, U) : y < n,
           ~x => \A k \in 1 .. n - 1 : k \in Held(R, w, x, q, U)
    PROVE  /\ Ordered(R, w, x, q, U \cup {n})
           /\ Held(R, w, x, q, U \cup {n}) \subseteq Held(R, w, x, q, U) \cup {n}
           /\ Held(R, w, x, q, U) \subseteq Held(R, w, x, q, U \cup {n})
           /\ ~x => n \in Held(R, w, x, q, U \cup {n})
<1>1. CASE x
    <2>1. \A V : Held(R, w, x, q, V) = R \cup In(w)
        BY <1>1 DEF Held
    <2>2. Held(R, w, x, q, U \cup {n}) = Held(R, w, x, q, U)
        BY <2>1
    <2> QED
        BY <1>1, <2>2 DEF Ordered
<1>2. CASE ~x
    <2> DEFINE W == In(w)
               Q == In(q)
               H == Held(R, w, x, q, U)
    <2>1. H = R \cup W \cup (Q \cup U) /\ Held(R, w, x, q, U \cup {n}) = H \cup {n}
        BY <1>2 DEF Held
    <2>2. /\ Below(R, W) /\ Below(R \cup W, Q \cup U) /\ Sorted(w)
          /\ Sorted(q) /\ Below(Q, U) /\ NoGap(H)
        BY <1>2 DEF Ordered
    <2>3. H \in SUBSET Nat
        BY <2>1, InFacts
    <2>4. NoGap(H \cup {n})
        BY <1>2, <2>2, <2>3, GrowNoGap
    <2> HIDE DEF W, Q, H
    <2>5. Below(R \cup W, Q \cup (U \cup {n})) /\ Below(Q, U \cup {n})
        BY <2>1, <2>2 DEF Below, H
    <2>6. Ordered(R, w, x, q, U \cup {n})
        BY <1>2, <2>1, <2>2, <2>4, <2>5 DEF Ordered, W, Q
    <2> QED
        BY <1>2, <2>1, <2>6 DEF H
<1> QED
    BY <1>1, <1>2

\* A frame is queued.
LEMMA OrderQueue ==
    ASSUME NEW R \in SUBSET Nat, NEW w \in Seq(AllFrames), NEW x \in BOOLEAN,
           NEW q \in Seq(AllFrames), NEW f \in AllFrames, NEW U \in SUBSET Nat,
           Ordered(R, w, x, q, Of(f) \cup U), Of(f) = {} \/ U = {}
    PROVE  /\ Ordered(R, w, x, Append(q, f), U)
           /\ Held(R, w, x, Append(q, f), U) = Held(R, w, x, q, Of(f) \cup U)
<1> DEFINE r == Append(q, f)
<1>1. In(r) = In(q) \cup Of(f) /\ (Sorted(q) /\ Below(In(q), Of(f)) => Sorted(r))
    BY InAppend
<1> HIDE DEF r
<1>2. Held(R, w, x, r, U) = Held(R, w, x, q, Of(f) \cup U)
    BY <1>1 DEF Held
<1>3. In(r) \cup U = In(q) \cup (Of(f) \cup U)
    BY <1>1
<1>4. /\ Below(R, In(w)) /\ Below(R \cup In(w), IF x THEN {} ELSE In(r) \cup U) /\ Sorted(w)
      /\ NoGap(Held(R, w, x, r, U))
    BY <1>2, <1>3 DEF Ordered
<1>5. ASSUME ~x PROVE Sorted(r) /\ Below(In(r), U)
    <2>1. Sorted(q) /\ Below(In(q), Of(f) \cup U)
        BY <1>5 DEF Ordered
    <2>2. Below(In(q), Of(f)) /\ Below(In(q), U) /\ Below(Of(f), U)
        BY <2>1 DEF Below
    <2> QED
        BY <1>1, <2>1, <2>2 DEF Below
<1>6. Ordered(R, w, x, r, U)
    BY <1>4, <1>5 DEF Ordered
<1> QED
    BY <1>2, <1>6 DEF r

\* The pump writes a frame.
LEMMA OrderPump ==
    ASSUME NEW R \in SUBSET Nat, NEW w \in Seq(AllFrames),
           NEW q \in Seq(AllFrames), q # <<>>, NEW U \in SUBSET Nat, Ordered(R, w, FALSE, q, U)
    PROVE  /\ Ordered(R, Append(w, Head(q)), FALSE, Tail(q), U)
           /\ Held(R, Append(w, Head(q)), FALSE, Tail(q), U) = Held(R, w, FALSE, q, U)
<1> DEFINE f == Head(q)
           r == Tail(q)
           v == Append(w, f)
<1>1. f \in AllFrames
    OBVIOUS
<1>2. In(v) = In(w) \cup Of(f) /\ (Sorted(w) /\ Below(In(w), Of(f)) => Sorted(v))
    BY <1>1, InAppend
<1>3. In(q) = Of(f) \cup In(r) /\ (Sorted(q) => Sorted(r) /\ Below(Of(f), In(r)))
    BY InTail
<1> HIDE DEF f, r, v
<1>4. /\ Below(R, In(w)) /\ Below(R \cup In(w), In(q) \cup U) /\ Sorted(w)
      /\ Sorted(q) /\ Below(In(q), U) /\ NoGap(Held(R, w, FALSE, q, U))
    BY DEF Ordered
<1>5. Held(R, v, FALSE, r, U) = Held(R, w, FALSE, q, U)
    BY <1>2, <1>3 DEF Held
<1>6. Below(R, In(v)) /\ Below(R \cup In(v), In(r) \cup U) /\ Below(In(w), Of(f)) /\ Below(In(r), U)
    BY <1>2, <1>3, <1>4 DEF Below
<1>7. Ordered(R, v, FALSE, r, U)
    BY <1>2, <1>3, <1>4, <1>5, <1>6 DEF Ordered
<1> QED
    BY <1>5, <1>7 DEF f, r, v

\* The client reads a frame: R grows by what it carries.
LEMMA OrderRead ==
    ASSUME NEW R \in SUBSET Nat, NEW w \in Seq(AllFrames), w # <<>>, NEW x \in BOOLEAN,
           NEW q \in Seq(AllFrames), NEW U \in SUBSET Nat, Ordered(R, w, x, q, U)
    PROVE  /\ Ordered(R \cup Of(Head(w)), Tail(w), x, q, U)
           /\ Held(R \cup Of(Head(w)), Tail(w), x, q, U) = Held(R, w, x, q, U)
<1> DEFINE f == Head(w)
           v == Tail(w)
           A == IF x THEN {} ELSE In(q) \cup U
<1>1. In(w) = Of(f) \cup In(v) /\ (Sorted(w) => Sorted(v) /\ Below(Of(f), In(v)))
    BY InTail
<1> HIDE DEF f, v
<1>2. /\ Below(R, In(w)) /\ Below(R \cup In(w), A) /\ Sorted(w)
      /\ (~x => Sorted(q) /\ Below(In(q), U)) /\ NoGap(Held(R, w, x, q, U))
    BY DEF Ordered
<1>3. Held(R \cup Of(f), v, x, q, U) = Held(R, w, x, q, U)
    BY <1>1 DEF Held
<1> HIDE DEF A
<1>4. Below(R \cup Of(f), In(v)) /\ Below((R \cup Of(f)) \cup In(v), A)
    BY <1>1, <1>2 DEF Below
<1>5. Ordered(R \cup Of(f), v, x, q, U)
    BY <1>1, <1>2, <1>3, <1>4 DEF Ordered, A
<1> QED
    BY <1>3, <1>5 DEF f, v

-----------------------------------------------------------------------------
(* What is on its way, step by step.                                       *)

\* Items are numbers.
LEMMA WayTypes ==
    ASSUME OutputInv
    PROVE  /\ Received \in SUBSET Nat /\ Unsent \in SUBSET Nat /\ Known \in SUBSET Nat
           /\ wire \in Seq(AllFrames) /\ queue \in Seq(AllFrames)
<1>1. /\ wire \in Seq(AllFrames) /\ queue \in Seq(AllFrames) /\ chk.items \in Seq(1 .. Items)
      /\ \A p \in Senders : snd[p].f \in AllFrames
      /\ {"handler", "flusher"} \subseteq Senders
    BY DEF OutputInv, TypeOK, ChunkRec, SendRec, Senders
<1>2. Received \in SUBSET Nat
    <2>1. cl.got \in Seq(1 .. Items) /\ cl.buf \in Seq(1 .. Items)
        BY DEF OutputInv, TypeOK, ClientRec
    <2>2. ASSUME NEW S, NEW s \in Seq(S) PROVE Len(s) \in Nat
        OBVIOUS
    <2>3. Len(cl.got) \in Nat /\ Len(cl.buf) \in Nat
        BY <2>1, <2>2
    <2>4. ASSUME NEW a \in Nat, NEW b \in Nat PROVE 1 .. a + b \subseteq Nat
        OBVIOUS
    <2> QED
        BY <2>3, <2>4 DEF Received
<1>3. \A p \in Senders : Flight(p) \subseteq Nat
    BY <1>1, OfFacts DEF Flight
<1>4. Buffered \subseteq Nat
    <2>1. ASSUME NEW S, NEW s \in Seq(S), NEW k \in DOMAIN s PROVE s[k] \in S
        OBVIOUS
    <2>2. \A k \in DOMAIN chk.items : chk.items[k] \in 1 .. Items
        BY <1>1, <2>1
    <2> QED
        BY <2>2 DEF Buffered
<1>5. Unsent \in SUBSET Nat
    BY <1>1, <1>3, <1>4 DEF Unsent
<1> QED
    BY <1>1, <1>2, <1>5, InFacts DEF Known, Ahead

\* Only one of the handler's send, the flusher's and the buffer has anything.
LEMMA OneAtATime ==
    ASSUME OutputInv, LockInv
    PROVE  /\ snd["handler"].at # "idle" =>
                 snd["flusher"].at = "idle" /\ chk.items = NoItems
           /\ snd["flusher"].at # "idle" =>
                 /\ snd["handler"].at = "idle" /\ chk.items = NoItems
                 /\ hdl.at \in {"iterating", "flushing"}
<1>1. cfg.chunk \in Nat /\ hdl.at \in {"off", "iterating", "sending", "flushing", "hooks", "ending",
                                       "ended", "over"}
    BY ConfigFacts DEF OutputInv, TypeOK, HandlerRec
<1> QED
    BY <1>1 DEF LockInv

\* So what is not queued yet is in one of the three places.
LEMMA UnsentIs ==
    /\ \A p \in Senders : snd[p].at \notin {"check", "select"} => Flight(p) = {} /\ ~Live(p)
    /\ chk.items = NoItems => Buffered = {}
    /\ OutputInv /\ LockInv /\ snd["handler"].at # "idle" => Unsent = Flight("handler")
    /\ OutputInv /\ LockInv /\ snd["flusher"].at # "idle" => Unsent = Flight("flusher")
    /\ snd["handler"].at \notin {"check", "select"} /\ snd["flusher"].at \notin {"check", "select"}
          => Unsent = Buffered
<1>1. \A p \in Senders : snd[p].at \notin {"check", "select"} => Flight(p) = {} /\ ~Live(p)
    BY DEF Flight, Live
<1>2. chk.items = NoItems => Buffered = {}
    BY DEF Buffered, NoItems
<1>3. {"handler", "flusher"} \subseteq Senders
    BY DEF Senders
<1> QED
    BY <1>1, <1>2, <1>3, OneAtATime DEF Unsent

\* The same of the next state.
LEMMA UnsentIsNext ==
    /\ \A p \in Senders : snd'[p].at \notin {"check", "select"} => Flight(p)' = {}
    /\ chk'.items = NoItems => Buffered' = {}
    /\ snd'["handler"].at \notin {"check", "select"} /\ snd'["flusher"].at \notin {"check", "select"}
          => Unsent' = Buffered'
<1>1. \A p \in Senders : snd'[p].at \notin {"check", "select"} => Flight(p)' = {}
    BY DEF Flight, Live
<1>2. chk'.items = NoItems => Buffered' = {}
    BY DEF Buffered, NoItems
<1>3. {"handler", "flusher"} \subseteq Senders
    BY DEF Senders
<1> QED
    BY <1>1, <1>2, <1>3 DEF Unsent

\* The client, the wire, the queue and the pump are as they were.
SameWay == /\ Received' = Received /\ wire' = wire /\ queue' = queue
           /\ pump' = "exited" <=> pump = "exited"

\* A step that leaves the rest alone and cuts off at most what was not queued.
LEMMA CutStep ==
    ASSUME OutputInv, OrderInv, SameWay, Unsent' = Unsent \/ Unsent' = {}
    PROVE  OrderInv' /\ Known' \subseteq Known /\ (Unsent' = Unsent => Known' = Known)
<1> DEFINE x == (pump = "exited")
<1>1. x \in BOOLEAN /\ (pump' = "exited") = x
    BY DEF SameWay
<1>2. Ordered(Received, wire, x, queue, Unsent) /\ Known = Held(Received, wire, x, queue, Unsent)
    BY OrderWords
<1>3. /\ OrderInv' <=> Ordered(Received, wire, x, queue, Unsent')
      /\ Known' = Held(Received, wire, x, queue, Unsent')
    BY <1>1, OrderWords DEF SameWay
<1> HIDE DEF x
<1>4. CASE Unsent' = Unsent
    BY <1>2, <1>3, <1>4
<1>5. CASE Unsent' = {}
    BY <1>1, <1>2, <1>3, <1>5, WayTypes, OrderCut
<1> QED
    BY <1>4, <1>5

\* A step that the handler has no part in.
LEMMA AloneStep ==
    ASSUME TopInv, WholeInv, hdl' = hdl, Known' \subseteq Known,
           Healthy' /\ pump' # "exited" => Healthy /\ pump # "exited" /\ Known' = Known
    PROVE  TopInv' /\ WholeInv'
<1>1. TopInv'
    BY DEF TopInv
<1>2. WholeInv'
    BY DEF WholeInv
<1> QED
    BY <1>1, <1>2

\* The pump returns.
LEMMA ExitStep ==
    ASSUME OutputInv, OrderInv, TopInv, WholeInv, pump' = "exited", hdl' = hdl,
           Received' = Received, wire' = wire
    PROVE  OrderInv' /\ TopInv' /\ WholeInv'
<1> DEFINE x == (pump = "exited")
<1>1. x \in BOOLEAN /\ (pump' = "exited") = TRUE
    OBVIOUS
<1>2. Ordered(Received, wire, x, queue, Unsent) /\ Known = Held(Received, wire, x, queue, Unsent)
    BY OrderWords
<1>3. /\ OrderInv' <=> Ordered(Received, wire, TRUE, queue', Unsent')
      /\ Known' = Held(Received, wire, TRUE, queue', Unsent')
    BY <1>1, OrderWords
<1> HIDE DEF x
<1>4. OrderInv' /\ Known' \subseteq Known
    BY <1>1, <1>2, <1>3, WayTypes, OrderCut
<1> QED
    BY <1>4, AloneStep

-----------------------------------------------------------------------------
(* Steps that the stream has no part in keep it in order.                  *)

WayInv == OrderInv /\ TopInv /\ WholeInv

\* Nothing of the stream changes but what a close cuts off.
LEMMA CloseCuts ==
    ASSUME OutputInv, LockInv, WayInv, SameWay, hdl' = hdl, chk' = chk, closed => closed',
           closed \in BOOLEAN, closed' \in BOOLEAN,
           snd'["handler"] = snd["handler"], snd'["flusher"] = snd["flusher"]
    PROVE  WayInv'
<1> USE DEF WayInv
<1>0. Buffered' = Buffered
    BY DEF Buffered
<1>1. CASE closed' = closed
    <2>1. Unsent' = Unsent /\ Healthy' = Healthy
        BY <1>0, <1>1 DEF Unsent, Flight, Live, Healthy, Doomed
    <2>2. OrderInv' /\ Known' = Known
        BY <2>1, CutStep
    <2> QED
        BY <2>1, <2>2, AloneStep DEF SameWay
<1>2. CASE closed' /\ ~closed
    <2>1. ASSUME NEW p \in {"handler", "flusher"}
          PROVE  /\ snd[p].at = "check" => Doomed(p)' /\ Flight(p)' = {}
                 /\ snd[p].at # "check" => Flight(p)' = Flight(p) /\ (Doomed(p)' <=> Doomed(p))
                 /\ Doomed(p) => Doomed(p)'
        BY <1>2, <2>1 DEF Flight, Live, Doomed
    <2>2. CASE \E p \in {"handler", "flusher"} : snd[p].at = "check"
        <3>1. PICK p \in {"handler", "flusher"} : snd[p].at = "check"
            BY <2>2
        <3>2. Unsent' = {}
            <4>1. chk.items = NoItems /\ \A r \in {"handler", "flusher"} \ {p} : snd[r].at = "idle"
                BY <3>1, OneAtATime
            <4>2. {"handler", "flusher"} \subseteq Senders
                BY DEF Senders
            <4>3. Buffered' = {} /\ \A r \in {"handler", "flusher"} \ {p} : Flight(r)' = {}
                BY <4>1, <4>2, UnsentIsNext
            <4> QED
                BY <2>1, <3>1, <4>3 DEF Unsent
        <3>3. ~Healthy'
            BY <2>1, <3>1 DEF Healthy
        <3>4. OrderInv' /\ Known' \subseteq Known
            BY <3>2, CutStep
        <3> QED
            BY <3>3, <3>4, AloneStep
    <2>3. CASE ~\E p \in {"handler", "flusher"} : snd[p].at = "check"
        <3>1. Unsent' = Unsent
            BY <1>0, <2>1, <2>3 DEF Unsent
        <3>2. Healthy' => Healthy
            BY <2>1 DEF Healthy
        <3>3. OrderInv' /\ Known' = Known
            BY <3>1, CutStep
        <3> QED
            BY <3>2, <3>3, AloneStep DEF SameWay
    <2> QED
        BY <2>2, <2>3
<1> QED
    BY <1>1, <1>2

\* A send goes on.
LEMMA SendKeepsWay ==
    ASSUME OutputInv, LockInv, FrameInv, WayInv, SendSteps PROVE WayInv'
<1> USE DEF WayInv
<1>0. /\ hdl' = hdl /\ chk' = chk /\ Received' = Received /\ wire' = wire /\ pump' = pump
      /\ closed' = closed /\ Buffered' = Buffered
      /\ Senders = {"reader", "timer", "handler", "flusher"} /\ closed \in BOOLEAN
    <2>1. UNCHANGED <<hdl, chk, cl, wire, pump, closed>>
        BY DEF SendSteps, sendCheck, enqueue, sendReleased, server
    <2> QED
        BY <2>1 DEF Received, Buffered, Senders, OutputInv, TypeOK
<1>1. PICK p \in Senders, s \in {"select", "ok", "closed", "canceled"} :
              /\ snd[p].at \in {"check", "select"} /\ snd'[p].at = s
              /\ snd'[p].f = snd[p].f /\ OthersKeep(p)
              /\ \/ sendCheck(p) /\ snd[p].at = "check" /\ s = (IF closed THEN "closed" ELSE "select")
                 \/ enqueue(p) /\ snd[p].at = "select" /\ s = "ok"
                 \/ /\ sendReleased(p) /\ snd[p].at = "select"
                    /\ (s = "closed" /\ done) \/ (s = "canceled" /\ ctx)
    BY SendEffect
<1>2. \A r \in Senders \ {p} : Flight(r)' = Flight(r) /\ (Doomed(r)' <=> Doomed(r))
    BY <1>0, <1>1 DEF OthersKeep, Flight, Live, Doomed
<1>3. CASE sendCheck(p) /\ snd[p].at = "check" /\ s = (IF closed THEN "closed" ELSE "select")
    <2>1. Flight(p)' = Flight(p) /\ (Doomed(p)' <=> Doomed(p))
        BY <1>0, <1>1, <1>3 DEF Flight, Live, Doomed
    <2>2. Unsent' = Unsent /\ Healthy' = Healthy
        BY <1>0, <1>2, <2>1 DEF Unsent, Healthy
    <2>3. SameWay
        BY <1>0, <1>3 DEF SameWay, sendCheck, server
    <2>4. OrderInv' /\ Known' = Known
        BY <2>2, <2>3, CutStep
    <2> QED
        BY <1>0, <2>2, <2>4, AloneStep
<1>4. CASE sendReleased(p) /\ snd[p].at = "select" /\ s \in {"closed", "canceled"}
    <2>1. SameWay
        BY <1>0, <1>4 DEF SameWay, sendReleased, server
    <2>2. CASE p \in {"handler", "flusher"}
        <3>1. Unsent = Flight(p) /\ Flight(p)' = {} /\ Doomed(p)'
            BY <1>0, <1>1, <1>4, <2>2, UnsentIs DEF Flight, Live, Doomed
        <3>2. Unsent' = {}
            <4>1. chk.items = NoItems /\ \A r \in {"handler", "flusher"} \ {p} : snd[r].at = "idle"
                BY <1>4, <2>2, OneAtATime
            <4>2. Buffered = {} /\ \A r \in {"handler", "flusher"} \ {p} : Flight(r) = {}
                BY <1>0, <4>1, UnsentIs
            <4> QED
                BY <1>0, <1>2, <2>2, <3>1, <4>2 DEF Unsent
        <3>3. ~Healthy'
            BY <2>2, <3>1 DEF Healthy
        <3>4. OrderInv' /\ Known' \subseteq Known
            BY <2>1, <3>2, CutStep
        <3> QED
            BY <1>0, <3>3, <3>4, AloneStep
    <2>3. CASE p \notin {"handler", "flusher"}
        <3>1. Unsent' = Unsent /\ Healthy' = Healthy
            BY <1>0, <1>2, <2>3 DEF Unsent, Healthy
        <3>2. OrderInv' /\ Known' = Known
            BY <2>1, <3>1, CutStep
        <3> QED
            BY <1>0, <3>1, <3>2, AloneStep
    <2> QED
        BY <2>2, <2>3
<1>5. CASE enqueue(p) /\ snd[p].at = "select" /\ s = "ok"
    <2> DEFINE f == snd[p].f
               x == (pump = "exited")
    <2>1. queue' = Append(queue, f) /\ f \in AllFrames /\ x \in BOOLEAN
        BY <1>5 DEF enqueue, OutputInv, TypeOK, SendRec
    <2>2. Unsent = Of(f) \cup Unsent' /\ (Of(f) = {} \/ Unsent' = {})
        <3>1. CASE p \in {"handler", "flusher"}
            <4>1. Unsent = Flight(p) /\ Flight(p)' = {} /\ Flight(p) = Of(f)
                BY <1>0, <1>1, <1>5, <3>1, UnsentIs DEF Flight, Live
            <4>2. chk.items = NoItems /\ \A r \in {"handler", "flusher"} \ {p} : snd[r].at = "idle"
                BY <1>5, <3>1, OneAtATime
            <4>3. Buffered = {} /\ \A r \in {"handler", "flusher"} \ {p} : Flight(r) = {}
                BY <1>0, <4>2, UnsentIs
            <4>4. Unsent' = {}
                BY <1>0, <1>2, <3>1, <4>1, <4>3 DEF Unsent
            <4> QED
                BY <4>1, <4>4
        <3>2. CASE p \notin {"handler", "flusher"}
            <4>1. f.t \notin {"items", "end"}
                BY <1>0, <3>2 DEF FrameInv
            <4>2. Of(f) = {}
                BY <2>1, <4>1, OfFacts
            <4>3. Unsent' = Unsent
                BY <1>0, <1>2, <3>2 DEF Unsent
            <4> QED
                BY <4>2, <4>3
        <3> QED
            BY <3>1, <3>2
    <2>3. Healthy' = Healthy
        <3>1. Doomed(p)' <=> Doomed(p)
            BY <1>1, <1>5 DEF Doomed
        <3> QED
            BY <1>0, <1>2, <3>1 DEF Healthy
    <2> DEFINE V == Unsent'
    <2>4. /\ Ordered(Received, wire, x, queue, Of(f) \cup V) /\ (Of(f) = {} \/ V = {})
          /\ V \in SUBSET Nat /\ Received \in SUBSET Nat /\ wire \in Seq(AllFrames)
          /\ queue \in Seq(AllFrames)
        BY <2>2, OrderWords, WayTypes
    <2> HIDE DEF f, x, V
    <2>5. /\ Ordered(Received, wire, x, Append(queue, f), V)
          /\ Held(Received, wire, x, Append(queue, f), V)
                = Held(Received, wire, x, queue, Of(f) \cup V)
        BY <2>1, <2>4, OrderQueue
    <2>6. OrderInv' /\ Known' = Known
        BY <1>0, <2>1, <2>2, <2>5, OrderWords DEF x, V
    <2> QED
        BY <1>0, <2>3, <2>6, AloneStep
<1> QED
    BY <1>1, <1>3, <1>4, <1>5

\* The pump, the closers and the read loop.
LEMMA ServerKeepsWay ==
    ASSUME OutputInv, OutputInv', LockInv, WayInv, CloseSteps \/ (ReadSteps /\ ~readRequest /\ ~readCancel)
    PROVE  WayInv'
<1> USE DEF WayInv
<1>0. /\ hdl' = hdl /\ chk' = chk /\ closed \in BOOLEAN /\ closed' \in BOOLEAN
      /\ snd'["handler"] = snd["handler"] /\ snd'["flusher"] = snd["flusher"]
    <2>1. UNCHANGED <<hdl, chk>>
        BY HandlerUntouched
    <2>2. snd'["handler"] = snd["handler"] /\ snd'["flusher"] = snd["flusher"]
        <3>1. CASE CloseSteps
            BY <3>1, SendsUntouched
        <3>2. CASE ReadSteps
            BY <3>2, ReadEffect
        <3> QED
            BY <3>1, <3>2
    <2> QED
        BY <2>1, <2>2 DEF OutputInv, TypeOK
<1>1. CASE pumpWrites
    <2>1. /\ pump # "exited" /\ pump' = pump /\ queue # <<>> /\ queue' = Tail(queue)
          /\ wire' = Append(wire, Head(queue)) /\ closed' = closed /\ Received' = Received
        BY <1>1 DEF pumpWrites, Received
    <2>2. Unsent' = Unsent /\ Healthy' = Healthy
        BY <1>0, <2>1 DEF Unsent, Flight, Live, Buffered, Healthy, Doomed
    <2>3. Ordered(Received, wire, FALSE, queue, Unsent)
        <3>1. (pump = "exited") = FALSE
            BY <2>1
        <3> QED
            BY <3>1, OrderWords
    <2>4. /\ Ordered(Received, Append(wire, Head(queue)), FALSE, Tail(queue), Unsent)
          /\ Held(Received, Append(wire, Head(queue)), FALSE, Tail(queue), Unsent)
                = Held(Received, wire, FALSE, queue, Unsent)
        BY <2>1, <2>3, WayTypes, OrderPump
    <2>5. OrderInv' /\ Known' = Known
        <3>1. (pump = "exited") = FALSE /\ (pump' = "exited") = FALSE
            BY <2>1
        <3> QED
            BY <2>1, <2>2, <2>4, <3>1, OrderWords
    <2> QED
        BY <1>0, <2>1, <2>2, <2>5, AloneStep
<1>2. CASE pumpReturns /\ (pumpFails \/ pumpSeesDone \/ drainEnds)
    <2>1. pump' = "exited" /\ wire' = wire /\ Received' = Received
        BY <1>2 DEF pumpReturns, pumpFails, pumpSeesDone, drainEnds, Received
    <2> QED
        BY <1>0, <2>1, ExitStep
<1>3. CASE closeWS \/ closeGracefullyWS \/ closeStream \/ stopServer \/ (pumpSeesDone /\ ~pumpReturns)
    <2>1. SameWay /\ (closed => closed')
        BY <1>0, <1>3 DEF closeWS, closeGracefullyWS, closeStream, stopServer, marksClosed,
                          pumpSeesDone, SameWay, Received
    <2> QED
        BY <1>0, <2>1, CloseCuts
<1>4. CASE ReadSteps /\ ~readRequest /\ ~readCancel
    <2>1. SameWay
        BY <1>4 DEF ReadSteps, authAccepted, authRefused, refuseFrame, answerSent, authRejects,
                    readFails, runUnregisters, authTimerFires, authTimerCloses, server,
                    SameWay, Received
    <2>2. closed => closed'
        <3>1. Next
            BY <1>4 DEF ReadSteps, Next
        <3> QED
            BY <3>1, Monotone
    <2> QED
        BY <1>0, <2>1, <2>2, CloseCuts
<1> QED
    BY <1>1, <1>2, <1>3, <1>4 DEF CloseSteps, pumpFails, drainEnds

-----------------------------------------------------------------------------
(* The steps of the handler and of the chunker.                            *)

\* What the frames that they make carry.
LEMMA OfMade ==
    /\ \A is : Of(ItemFrame(is)) = {is[k] : k \in DOMAIN is}
    /\ \A n \in Nat : Of(ItemFrame(<<n>>)) = {n}
    /\ \A is \in Seq(1 .. Items), n \in Nat :
          Of(ItemFrame(Append(is, n))) = {is[k] : k \in DOMAIN is} \cup {n}
    /\ Of(EndFrame(TRUE)) = {} /\ Of(EndFrame(FALSE)) = {Items + 1}
<1>1. \A is : Of(ItemFrame(is)) = {is[k] : k \in DOMAIN is}
    BY DEF Of, ItemFrame
<1>2. ASSUME NEW n \in Nat PROVE Of(ItemFrame(<<n>>)) = {n}
    <2>1. DOMAIN <<n>> = {1} /\ <<n>>[1] = n
        OBVIOUS
    <2> QED
        BY <1>1, <2>1
<1>3. ASSUME NEW S, NEW is \in Seq(S), NEW n
      PROVE  {Append(is, n)[k] : k \in DOMAIN Append(is, n)} = {is[k] : k \in DOMAIN is} \cup {n}
    <2> DEFINE r == Append(is, n)
               l == Len(is)
    <2>1. /\ l \in Nat /\ DOMAIN is = 1 .. l /\ DOMAIN r = 1 .. l + 1 /\ r[l + 1] = n
          /\ \A k \in 1 .. l : r[k] = is[k]
        OBVIOUS
    <2> HIDE DEF r, l
    <2>2. 1 .. l + 1 = 1 .. l \cup {l + 1}
        BY <2>1
    <2>3. {r[k] : k \in DOMAIN r} = {is[k] : k \in DOMAIN is} \cup {n}
        BY <2>1, <2>2
    <2> QED
        BY <2>3 DEF r
<1>4. Of(EndFrame(TRUE)) = {} /\ Of(EndFrame(FALSE)) = {Items + 1}
    BY DEF Of, EndFrame, Frame, NoItems
<1>5. ASSUME NEW is \in Seq(1 .. Items), NEW n \in Nat
      PROVE  Of(ItemFrame(Append(is, n))) = {is[k] : k \in DOMAIN is} \cup {n}
    <2>1. Of(ItemFrame(Append(is, n))) = {Append(is, n)[k] : k \in DOMAIN Append(is, n)}
        BY <1>1
    <2>2. PICK S : is \in Seq(S)
        OBVIOUS
    <2>3. {Append(is, n)[k] : k \in DOMAIN Append(is, n)} = {is[k] : k \in DOMAIN is} \cup {n}
        BY <1>3, <2>2
    <2> QED
        BY <2>1, <2>3
<1> QED
    BY <1>1, <1>2, <1>4, <1>5

\* The next item is on its way.
LEMMA GrowStep ==
    ASSUME OutputInv, OrderInv, SameWay, NEW n \in Nat, Unsent' = Unsent \cup {n},
           \A y \in Known : y < n,
           pump # "exited" => \A k \in 1 .. n - 1 : k \in Known
    PROVE  /\ OrderInv' /\ Known' \subseteq Known \cup {n} /\ Known \subseteq Known'
           /\ pump # "exited" => n \in Known'
<1> DEFINE x == (pump = "exited")
<1>1. x \in BOOLEAN /\ (pump' = "exited") = x
    BY DEF SameWay
<1>2. Ordered(Received, wire, x, queue, Unsent) /\ Known = Held(Received, wire, x, queue, Unsent)
    BY OrderWords
<1>3. /\ OrderInv' <=> Ordered(Received, wire, x, queue, Unsent \cup {n})
      /\ Known' = Held(Received, wire, x, queue, Unsent \cup {n})
    BY <1>1, OrderWords DEF SameWay
<1>4. ~x <=> pump # "exited"
    OBVIOUS
<1> HIDE DEF x
<1>5. /\ \A y \in Held(Received, wire, x, queue, Unsent) : y < n
      /\ ~x => \A k \in 1 .. n - 1 : k \in Held(Received, wire, x, queue, Unsent)
    BY <1>2, <1>4
<1>6. /\ Received \in SUBSET Nat /\ Unsent \in SUBSET Nat
      /\ wire \in Seq(AllFrames) /\ queue \in Seq(AllFrames)
    BY WayTypes
<1>7. /\ Ordered(Received, wire, x, queue, Unsent \cup {n})
      /\ Held(Received, wire, x, queue, Unsent \cup {n})
            \subseteq Held(Received, wire, x, queue, Unsent) \cup {n}
      /\ Held(Received, wire, x, queue, Unsent) \subseteq Held(Received, wire, x, queue, Unsent \cup {n})
      /\ ~x => n \in Held(Received, wire, x, queue, Unsent \cup {n})
    BY <1>1, <1>2, <1>5, <1>6, OrderGrow
<1> QED
    BY <1>2, <1>3, <1>4, <1>7

\* These steps leave the client, the wire, the queue and the close alone.
LEMMA StreamSame ==
    ASSUME OutputInv, StreamSteps
    PROVE  SameWay /\ closed' = closed /\ pump' = pump /\ ctx' = ctx
<1>1. CASE readRequest
    <2>1. wire' = wire /\ queue' = queue /\ pump' = pump /\ closed' = closed /\ ctx' = ctx
        BY <1>1 DEF readRequest, server
    <2>2. Received' = Received
        BY <1>1, ClientEffects DEF KeptItems, Received
    <2> QED
        BY <2>1, <2>2 DEF SameWay
<1>2. CASE ~readRequest
    BY <1>2 DEF StreamSteps, iterationEnds, yieldItem, chunkAdd, yieldReturns, delayFlush,
           delayFlushReturns, chunkClose, chunkCloseReturns, runHooks, sendStreamEnd, streamOver,
           server, SameWay, Received
<1> QED
    BY <1>1, <1>2

\* A flush: what was in the buffer, with or without another item, is in flight,
\* or doomed if the connection is closed.
LEMMA FlushUnsent ==
    ASSUME OutputInv, LockInv, NEW p \in {"handler", "flusher"}, NEW is, Flushes(p, is),
           snd["handler"].at = "idle", snd["flusher"].at = "idle", closed' = closed, closed \in BOOLEAN
    PROVE  /\ Unsent = Buffered
           /\ ~closed => Unsent' = {is[k] : k \in DOMAIN is} /\ ~Doomed("handler")' /\ ~Doomed("flusher")'
           /\ closed => Unsent' = {} /\ Doomed(p)'
<1>0. {"handler", "flusher"} \subseteq Senders
    BY DEF Senders
<1>1. /\ chk'.items = NoItems /\ snd'[p].at = "check" /\ snd'[p].f = ItemFrame(is)
      /\ \A r \in {"handler", "flusher"} \ {p} : snd'[r].at = "idle"
    BY <1>0 DEF Flushes, Starts, OthersKeep
<1>2. Buffered' = {} /\ \A r \in {"handler", "flusher"} \ {p} : Flight(r)' = {} /\ ~Doomed(r)'
    BY <1>0, <1>1, UnsentIsNext DEF Doomed
<1>3. ~closed => Flight(p)' = {is[k] : k \in DOMAIN is} /\ ~Doomed(p)'
    BY <1>1, OfMade DEF Flight, Live, Doomed
<1>4. closed => Flight(p)' = {} /\ Doomed(p)'
    BY <1>1 DEF Flight, Live, Doomed
<1>5. Unsent' = Flight(p)'
    BY <1>2 DEF Unsent
<1>6. Unsent = Buffered
    BY UnsentIs
<1> QED
    BY <1>2, <1>3, <1>4, <1>5, <1>6

\* An item goes out: in a frame of its own, in a full chunk, or to the buffer.
LEMMA YieldKeepsWay ==
    ASSUME OutputInv, LockInv, ErrInv, WayInv, Listening, yieldItem \/ chunkAdd
    PROVE  WayInv'
<1> USE DEF WayInv
<1> DEFINE n == hdl.next
<1>0. /\ SameWay /\ closed' = closed /\ closed \in BOOLEAN /\ pump' = pump
      /\ n \in Nat /\ n <= Items /\ Items \in Nat /\ cfg.chunk \in Nat
      /\ hdl.at = "iterating" /\ hdl.err = "none" /\ snd["handler"].at = "idle"
      /\ {"handler", "flusher"} \subseteq Senders /\ chk.items \in Seq(1 .. Items)
    BY StreamSame, YieldItemEffect, ChunkAddEffect, ConfigFacts, OutputAssumption
       DEF StreamSteps, OutputInv, TypeOK, HandlerRec, ChunkRec, LockInv, ErrInv, Senders
<1>1. chk.lock = "free" /\ snd["flusher"].at = "idle"
    BY YieldItemEffect, ChunkAddEffect DEF LockInv
<1>2. \A y \in Known : y < n
    BY <1>0 DEF TopInv
<1>3. chk.err = "none" /\ pump # "exited" => \A k \in 1 .. n - 1 : k \in Known
    <2>1. chk.err = "none" => Healthy
        BY <1>0, <1>1 DEF Healthy, Doomed
    <2> QED
        BY <1>0, <2>1 DEF WholeInv
<1>4. Known \in SUBSET Nat
    BY WayTypes
<1>5. Items + 1 \notin Known /\ Items + 1 # n
    BY <1>0, <1>2
<1>6. ASSUME hdl'.at = "sending", hdl'.next = n, chk.err = "none",
             \/ ~closed /\ Unsent' = Unsent \cup {n}
             \/ closed /\ Unsent' = {} /\ Doomed("handler")'
      PROVE  WayInv'
    <2>1. CASE ~closed /\ Unsent' = Unsent \cup {n}
        <3>1. /\ OrderInv' /\ Known' \subseteq Known \cup {n} /\ Known \subseteq Known'
              /\ pump # "exited" => n \in Known'
            BY <1>0, <1>2, <1>3, <1>6, <2>1, GrowStep
        <3>2. TopInv'
            BY <1>0, <1>2, <1>4, <1>6, <3>1 DEF TopInv
        <3>3. pump' # "exited" => \A k \in 1 .. n : k \in Known'
            BY <1>0, <1>3, <1>6, <3>1
        <3>4. Items + 1 \notin Known'
            BY <1>5, <3>1
        <3>5. WholeInv'
            BY <1>6, <3>3, <3>4 DEF WholeInv
        <3> QED
            BY <3>1, <3>2, <3>5
    <2>2. CASE closed /\ Unsent' = {} /\ Doomed("handler")'
        <3>1. OrderInv' /\ Known' \subseteq Known
            BY <1>0, <2>2, CutStep
        <3>2. TopInv'
            BY <1>0, <1>2, <1>4, <1>6, <3>1 DEF TopInv
        <3>3. WholeInv'
            BY <1>5, <2>2, <3>1 DEF WholeInv, Healthy
        <3> QED
            BY <3>1, <3>2, <3>3
    <2> QED
        BY <1>6, <2>1, <2>2
<1>7. CASE yieldItem
    <2>1. /\ hdl'.at = "sending" /\ hdl'.next = n /\ chk' = chk /\ chk.err = "none" /\ chk.items = NoItems
          /\ snd'["handler"].at = "check" /\ snd'["handler"].f = ItemFrame(<<n>>)
          /\ snd'["flusher"] = snd["flusher"]
        BY <1>0, <1>7, YieldItemEffect DEF Moves, Starts, OthersKeep, LockInv
    <2>2. Unsent = {} /\ Buffered' = {} /\ Flight("flusher")' = {}
        BY <1>0, <1>1, <2>1, UnsentIs, UnsentIsNext
    <2>3. /\ ~closed => Flight("handler")' = {n}
          /\ closed => Flight("handler")' = {} /\ Doomed("handler")'
        BY <1>0, <2>1, OfMade DEF Flight, Live, Doomed
    <2>4. \/ ~closed /\ Unsent' = Unsent \cup {n}
          \/ closed /\ Unsent' = {} /\ Doomed("handler")'
        BY <1>0, <2>2, <2>3 DEF Unsent
    <2> QED
        BY <1>6, <2>1, <2>4
<1>8. CASE chunkAdd /\ chk.err # "none" /\ Moves("flushing", chk.err) /\ chk' = chk /\ snd' = snd
    <2>1. Unsent' = Unsent
        BY <1>0, <1>8 DEF Unsent, Flight, Live, Buffered
    <2>2. OrderInv' /\ Known' = Known
        BY <1>0, <2>1, CutStep
    <2>3. TopInv'
        BY <1>0, <1>2, <1>4, <1>8, <2>2 DEF TopInv, Moves
    <2>4. WholeInv'
        BY <1>5, <1>8, <2>2 DEF WholeInv, Healthy, Moves
    <2> QED
        BY <2>2, <2>3, <2>4
<1>9. CASE /\ chunkAdd /\ chk.err = "none" /\ Moves("sending", hdl.err)
           /\ Flushes("handler", Append(chk.items, n))
    <2>1. {Append(chk.items, n)[k] : k \in DOMAIN Append(chk.items, n)} = Buffered \cup {n}
        BY <1>0, OfMade DEF Buffered
    <2>2. \/ ~closed /\ Unsent' = Unsent \cup {n}
          \/ closed /\ Unsent' = {} /\ Doomed("handler")'
        BY <1>0, <1>1, <1>9, <2>1, FlushUnsent
    <2> QED
        BY <1>6, <1>9, <2>2 DEF Moves
<1>10. CASE /\ chunkAdd /\ chk.err = "none" /\ hdl'.at = "iterating" /\ hdl'.err = hdl.err
            /\ hdl'.next = n + 1 /\ snd' = snd
            /\ chk'.items = Append(chk.items, n) /\ chk'.err = chk.err
    <2>1. Buffered' = Buffered \cup {n}
        <3>1. {Append(chk.items, n)[k] : k \in DOMAIN Append(chk.items, n)} = Buffered \cup {n}
            BY <1>0, OfMade DEF Buffered
        <3> QED
            BY <1>10, <3>1 DEF Buffered
    <2>2. Unsent' = Unsent \cup {n}
        BY <1>0, <1>10, <2>1 DEF Unsent, Flight, Live
    <2>3. /\ OrderInv' /\ Known' \subseteq Known \cup {n} /\ Known \subseteq Known'
          /\ pump # "exited" => n \in Known'
        BY <1>0, <1>2, <1>3, <1>10, <2>2, GrowStep
    <2>4. TopInv'
        BY <1>0, <1>2, <1>4, <1>10, <2>3 DEF TopInv
    <2>5. pump' # "exited" => \A k \in 1 .. (n + 1) - 1 : k \in Known'
        BY <1>0, <1>3, <1>10, <2>3
    <2>6. Items + 1 \notin Known'
        BY <1>5, <2>3
    <2>7. WholeInv'
        BY <1>10, <2>5, <2>6 DEF WholeInv
    <2> QED
        BY <2>3, <2>4, <2>7
<1> QED
    BY <1>7, <1>8, <1>9, <1>10, ChunkAddEffect

\* A send or the iteration returns: nothing is lost that was not lost before.
LEMMA ReturnKeepsWay ==
    ASSUME OutputInv, LockInv, ErrInv, DeliveryInv, WayInv,
           \/ iterationEnds \/ yieldReturns \/ delayFlushReturns \/ chunkCloseReturns
           \/ runHooks \/ streamOver \/ readRequest
    PROVE  WayInv'
<1> USE DEF WayInv
<1>0. /\ SameWay /\ closed' = closed /\ closed \in BOOLEAN /\ pump' = pump
      /\ hdl.next \in Nat /\ hdl.next <= Items + 1 /\ Items \in Nat /\ cfg.chunk \in Nat
      /\ {"handler", "flusher"} \subseteq Senders /\ Idle.at = "idle"
      /\ AfterIteration \in {"hooks", "flushing"}
      /\ AfterIteration = "hooks" <=> cfg.chunk = 0
    BY StreamSame, ConfigFacts, OutputAssumption
       DEF StreamSteps, OutputInv, TypeOK, HandlerRec, Senders, Idle, AfterIteration
<1>1. Known \in SUBSET Nat
    BY WayTypes
<1>2. ASSUME chk'.items = chk.items,
             \A p \in {"handler", "flusher"} :
                 snd'[p] = snd[p] \/ (snd[p].at \in Returned /\ snd'[p] = Idle)
      PROVE  /\ OrderInv' /\ Known' = Known
             /\ \A p \in {"handler", "flusher"} :
                   /\ snd'[p] = snd[p] => (Doomed(p)' <=> Doomed(p))
                   /\ Doomed(p) /\ ~Doomed(p)' => snd[p].at \in {"closed", "canceled"} /\ snd'[p] = Idle
    <2>1. Buffered' = Buffered
        BY <1>2 DEF Buffered
    <2>2. \A p \in {"handler", "flusher"} : Flight(p)' = Flight(p)
        BY <1>0, <1>2 DEF Flight, Live, Returned
    <2>3. Unsent' = Unsent
        BY <2>1, <2>2 DEF Unsent
    <2>4. OrderInv' /\ Known' = Known
        BY <1>0, <2>3, CutStep
    <2>5. \A p \in {"handler", "flusher"} :
                   /\ snd'[p] = snd[p] => (Doomed(p)' <=> Doomed(p))
                   /\ Doomed(p) /\ ~Doomed(p)' => snd[p].at \in {"closed", "canceled"} /\ snd'[p] = Idle
        BY <1>0, <1>2 DEF Doomed, Returned
    <2> QED
        BY <2>4, <2>5
<1>3. CASE readRequest \/ runHooks
    <2>1. chk' = chk /\ snd' = snd
        BY <1>3, OtherHandlerEffects
    <2>2. OrderInv' /\ Known' = Known /\ \A p \in {"handler", "flusher"} : Doomed(p)' <=> Doomed(p)
        BY <1>2, <2>1
    <2>3. CASE readRequest
        <3>1. /\ hdl.at = "off" /\ hdl'.at = "iterating" /\ hdl'.next = hdl.next
              /\ hdl'.told = hdl.told /\ hdl'.count = hdl.count
            BY <2>3, OtherHandlerEffects DEF Moves
        <3>2. TopInv'
            BY <2>2, <3>1 DEF TopInv
        <3>3. hdl.next = 1
            BY <3>1 DEF DeliveryInv
        <3> QED
            BY <2>2, <3>1, <3>2, <3>3 DEF WholeInv
    <2>4. CASE runHooks
        <3>1. /\ hdl.at = "hooks" /\ hdl'.at = "ending" /\ hdl'.next = hdl.next /\ hdl'.err = hdl.err
            BY <2>4, OtherHandlerEffects DEF Moves
        <3>2. TopInv'
            BY <2>2, <3>1 DEF TopInv
        <3>3. Items + 1 \notin Known
            BY <1>0, <3>1 DEF TopInv
        <3>4. Healthy' => Healthy
            BY <2>2, <3>1 DEF Healthy
        <3> QED
            BY <1>0, <2>2, <3>1, <3>2, <3>3, <3>4 DEF WholeInv
    <2> QED
        BY <1>3, <2>3, <2>4
<1>4. CASE iterationEnds
    <2>1. chk'.items = chk.items /\ snd' = snd /\ hdl.at = "iterating" /\ hdl'.told = hdl.told
        BY <1>4, IterationEndsEffect
    <2>2. OrderInv' /\ Known' = Known /\ \A p \in {"handler", "flusher"} : Doomed(p)' <=> Doomed(p)
        BY <1>2, <2>1
    <2>3. /\ hdl'.at = AfterIteration /\ hdl'.next = hdl.next
          /\ \/ hdl'.err = hdl.err /\ chk' = chk
             \/ hdl'.err = "failed"
        BY <1>4, IterationEndsEffect DEF Moves
    <2>4. \A y \in Known : y < hdl.next
        BY <2>1 DEF TopInv
    <2>5. \A y \in Known : y <= Items
        BY <1>0, <1>1, <2>4
    <2>6. TopInv'
        BY <1>0, <2>2, <2>3, <2>5 DEF TopInv
    <2>7. Items + 1 \notin Known
        BY <1>0, <2>5
    <2>8. Healthy' => Healthy
        BY <1>0, <2>1, <2>2, <2>3 DEF Healthy, LockInv
    <2>9. WholeInv'
        BY <1>0, <2>1, <2>2, <2>3, <2>7, <2>8 DEF WholeInv
    <2> QED
        BY <2>2, <2>6, <2>9
<1>5. CASE yieldReturns
    <2>1. /\ chk'.items = chk.items /\ snd'["flusher"] = snd["flusher"] /\ snd'["handler"] = Idle
          /\ snd["handler"].at \in Returned /\ hdl.at = "sending" /\ hdl.next <= Items
        BY <1>0, <1>5, YieldReturnsEffect DEF Unlocks, Stops, OthersKeep, OutputInv, StreamInv
    <2>2. /\ OrderInv' /\ Known' = Known
          /\ Doomed("flusher") <=> Doomed("flusher")'
          /\ Doomed("handler") => snd["handler"].at \in {"closed", "canceled"}
        BY <1>2, <2>1 DEF Doomed, Returned
    <2>3. \A y \in Known : y <= hdl.next
        BY <2>1 DEF TopInv
    <2>4. Items + 1 \notin Known
        BY <1>0, <2>1, <2>3
    <2>5. CASE snd["handler"].at = "ok"
        <3>1. hdl'.at = "iterating" /\ hdl'.next = hdl.next + 1 /\ hdl'.err = hdl.err
            BY <1>5, <2>5, YieldReturnsEffect
        <3>2. TopInv'
            BY <1>0, <1>1, <2>2, <2>3, <3>1 DEF TopInv
        <3>3. Healthy' => Healthy
            BY <2>1, <2>2, <2>5, <3>1 DEF Healthy
        <3>4. (hdl.next + 1) - 1 = hdl.next
            BY <1>0
        <3>5. WholeInv'
            BY <1>0, <2>1, <2>2, <2>4, <3>1, <3>3, <3>4 DEF WholeInv
        <3> QED
            BY <2>2, <3>2, <3>5
    <2>6. CASE snd["handler"].at # "ok"
        <3>1. hdl'.at = AfterIteration /\ hdl'.err # "none"
            BY <1>5, <2>1, <2>6, YieldReturnsEffect DEF Moves, Returned
        <3>2. \A y \in Known : y <= Items
            <4>1. ASSUME NEW m \in Nat, NEW y \in Nat, y <= m, m <= Items PROVE y <= Items
                BY <1>0, <4>1
            <4> QED
                BY <1>0, <1>1, <2>1, <2>3, <4>1
        <3>3. TopInv'
            BY <1>0, <2>2, <3>1, <3>2 DEF TopInv
        <3>4. WholeInv'
            BY <2>2, <2>4, <3>1 DEF WholeInv, Healthy
        <3> QED
            BY <2>2, <3>3, <3>4
    <2> QED
        BY <2>5, <2>6
<1>6. CASE delayFlushReturns
    <2>1. /\ chk'.items = chk.items /\ snd'["handler"] = snd["handler"] /\ snd'["flusher"] = Idle
          /\ snd["flusher"].at \in Returned /\ hdl' = hdl
          /\ chk'.err = FirstErr(chk.err, Outcome(snd["flusher"].at))
        BY <1>0, <1>6, DelayFlushReturnsEffect DEF Unlocks, Stops, OthersKeep
    <2>2. /\ OrderInv' /\ Known' = Known
          /\ Doomed("handler") <=> Doomed("handler")'
          /\ Doomed("flusher") => snd["flusher"].at \in {"closed", "canceled"}
        BY <1>2, <2>1 DEF Doomed, Returned
    <2>3. hdl.at \in {"iterating", "flushing"}
        BY <2>1, OneAtATime DEF Returned
    <2>4. Healthy' => Healthy
        BY <2>1, <2>2, <2>3 DEF Healthy, FirstErr, Outcome, Returned
    <2> QED
        BY <1>0, <2>1, <2>2, <2>4, AloneStep
<1>7. CASE chunkCloseReturns
    <2>1. /\ chk'.items = chk.items /\ snd'["flusher"] = snd["flusher"] /\ snd'["handler"] = Idle
          /\ snd["handler"].at \in Returned /\ hdl.at = "flushing" /\ hdl'.at = "hooks"
          /\ hdl'.next = hdl.next /\ hdl'.err = FirstErr(hdl.err, Outcome(snd["handler"].at))
        BY <1>0, <1>7, ChunkCloseReturnsEffect DEF Unlocks, Stops, OthersKeep, Moves
    <2>2. /\ OrderInv' /\ Known' = Known
          /\ Doomed("flusher") <=> Doomed("flusher")'
          /\ Doomed("handler") => snd["handler"].at \in {"closed", "canceled"}
        BY <1>2, <2>1 DEF Doomed, Returned
    <2>3. TopInv'
        BY <2>1, <2>2 DEF TopInv
    <2>4. Items + 1 \notin Known
        BY <1>0, <2>1 DEF TopInv
    <2>5. Healthy' => Healthy
        BY <2>1, <2>2 DEF Healthy, FirstErr, Outcome, Returned, ErrInv
    <2>6. WholeInv'
        BY <1>0, <2>1, <2>2, <2>4, <2>5 DEF WholeInv
    <2> QED
        BY <2>2, <2>3, <2>6
<1>8. CASE streamOver
    <2>1. /\ chk' = chk /\ snd'["flusher"] = snd["flusher"] /\ snd'["handler"] = Idle
          /\ snd["handler"].at \in Returned /\ hdl'.at = "over"
          /\ hdl'.told = hdl.told /\ hdl'.count = hdl.count
        BY <1>0, <1>8, OtherHandlerEffects DEF Stops, OthersKeep, Moves, streamOver
    <2>2. OrderInv' /\ Known' = Known
        BY <1>2, <2>1
    <2> QED
        BY <2>1, <2>2 DEF TopInv, WholeInv
<1> QED
    BY <1>3, <1>4, <1>5, <1>6, <1>7, <1>8

\* The buffer is flushed, or found empty; the end goes out.
LEMMA FlushKeepsWay ==
    ASSUME OutputInv, LockInv, ErrInv, WayInv, Listening, delayFlush \/ chunkClose \/ sendStreamEnd
    PROVE  WayInv'
<1> USE DEF WayInv
<1>0. /\ SameWay /\ closed' = closed /\ closed \in BOOLEAN /\ pump' = pump
      /\ hdl.next \in Nat /\ Items \in Nat /\ hdl.count = hdl.next - 1
      /\ {"handler", "flusher"} \subseteq Senders
    BY StreamSame, OutputAssumption
       DEF StreamSteps, OutputInv, TypeOK, HandlerRec, Senders, StreamInv
<1>1. Known \in SUBSET Nat
    BY WayTypes
<1>2. ASSUME NEW p \in {"handler", "flusher"}, Flushes(p, chk.items), hdl' = hdl,
             snd["handler"].at = "idle", snd["flusher"].at = "idle"
      PROVE  WayInv'
    <2>1. /\ Unsent = Buffered
          /\ ~closed => Unsent' = Buffered
          /\ closed => Unsent' = {} /\ Doomed(p)'
        BY <1>0, <1>2, FlushUnsent DEF Buffered
    <2>2. chk'.err = chk.err /\ ~Doomed("handler") /\ ~Doomed("flusher")
        BY <1>2 DEF Flushes, Doomed
    <2>3. Healthy' => Healthy /\ Unsent' = Unsent
        BY <1>2, <2>1, <2>2 DEF Healthy
    <2>4. OrderInv' /\ Known' \subseteq Known /\ (Unsent' = Unsent => Known' = Known)
        BY <1>0, <2>1, CutStep
    <2> QED
        BY <1>0, <1>2, <2>3, <2>4, AloneStep
<1>3. ASSUME Rests, snd' = snd
      PROVE  /\ OrderInv' /\ Known' = Known
             /\ \A p \in {"handler", "flusher"} : Doomed(p)' <=> Doomed(p)
    <2>1. Unsent' = Unsent
        BY <1>0, <1>3 DEF Unsent, Flight, Live, Buffered, Rests
    <2>2. \A p \in {"handler", "flusher"} : Doomed(p)' <=> Doomed(p)
        BY <1>0, <1>3 DEF Doomed
    <2> QED
        BY <1>0, <2>1, <2>2, CutStep
<1>4. CASE delayFlush
    <2>1. CASE Rests /\ snd' = snd
        <3>1. hdl' = hdl
            BY <1>4, DelayFlushEffect
        <3>2. Healthy' => Healthy
            BY <1>3, <2>1, <3>1 DEF Healthy, Rests
        <3> QED
            BY <1>0, <1>3, <2>1, <3>1, <3>2, AloneStep
    <2>2. CASE Flushes("flusher", chk.items)
        <3>1. hdl' = hdl /\ snd["flusher"].at = "idle" /\ snd["handler"].at = "idle"
            BY <1>4, DelayFlushEffect, OneAtATime
        <3> QED
            BY <1>2, <2>2, <3>1
    <2> QED
        BY <1>4, <2>1, <2>2, DelayFlushEffect
<1>5. CASE chunkClose
    <2>0. hdl.at = "flushing" /\ snd["handler"].at = "idle" /\ snd["flusher"].at = "idle"
        BY <1>5, ChunkCloseEffect DEF LockInv
    <2>1. CASE hdl' = hdl /\ Flushes("handler", chk.items)
        BY <1>2, <2>0, <2>1
    <2>2. CASE Moves("hooks", FirstErr(hdl.err, chk.err)) /\ Rests /\ snd' = snd
        <3>1. /\ OrderInv' /\ Known' = Known
              /\ \A p \in {"handler", "flusher"} : Doomed(p)' <=> Doomed(p)
            BY <1>3, <2>2
        <3>2. TopInv'
            BY <2>0, <2>2, <3>1 DEF TopInv, Moves
        <3>3. Items + 1 \notin Known
            BY <1>0, <2>0 DEF TopInv
        <3>4. Healthy' => Healthy
            BY <2>0, <2>2, <3>1 DEF Healthy, Moves, FirstErr
        <3>5. WholeInv'
            BY <1>0, <2>0, <2>2, <3>1, <3>3, <3>4 DEF WholeInv, Moves
        <3> QED
            BY <3>1, <3>2, <3>5
    <2> QED
        BY <1>5, <2>1, <2>2, ChunkCloseEffect
<1>6. CASE sendStreamEnd
    <2> DEFINE bad == (hdl.err \notin {"none", "closed"} /\ ~ctx)
    <2>1. /\ hdl.at = "ending" /\ hdl'.at = "ended" /\ hdl'.told = hdl.told /\ hdl'.count = hdl.count
          /\ chk' = chk /\ chk.items = NoItems
          /\ snd["handler"].at = "idle" /\ snd["flusher"].at = "idle"
          /\ snd'["handler"].at = "check" /\ snd'["handler"].f = EndFrame(bad)
          /\ snd'["flusher"] = snd["flusher"]
        BY <1>0, <1>6, OtherHandlerEffects DEF Moves, Starts, OthersKeep, LockInv
    <2>2. Unsent = {} /\ Buffered' = {} /\ Flight("flusher")' = {}
        BY <1>0, <2>1, UnsentIs, UnsentIsNext
    <2>3. \A y \in Known : y <= Items
        BY <2>1 DEF TopInv
    <2>4. TopInv'
        BY <2>1 DEF TopInv
    <2>5. Items + 1 \notin Known
        BY <1>0, <2>3
    <2>6. CASE closed \/ bad
        <3>1. Flight("handler")' = {}
            <4>1. CASE closed
                BY <1>0, <2>1, <4>1 DEF Flight, Live
            <4>2. CASE bad
                <5>1. EndFrame(bad) = EndFrame(TRUE)
                    BY <4>2 DEF EndFrame
                <5> QED
                    BY <2>1, <5>1, OfMade DEF Flight
            <4> QED
                BY <2>6, <4>1, <4>2
        <3>2. Unsent' = Unsent
            BY <2>2, <3>1 DEF Unsent
        <3>3. OrderInv' /\ Known' = Known
            BY <1>0, <3>2, CutStep
        <3>4. WholeInv'
            BY <2>1, <2>5, <3>3 DEF WholeInv
        <3> QED
            BY <2>4, <3>3, <3>4
    <2>7. CASE ~closed /\ ~bad
        <3>1. Flight("handler")' = {Items + 1}
            <4>1. EndFrame(bad) = EndFrame(FALSE)
                BY <2>7 DEF EndFrame
            <4> QED
                BY <1>0, <2>1, <2>7, <4>1, OfMade DEF Flight, Live
        <3>2. Unsent' = Unsent \cup {Items + 1}
            BY <2>2, <3>1 DEF Unsent
        <3>3. ~ctx
            BY <2>7 DEF ErrInv
        <3>4. ASSUME pump # "exited"
              PROVE  /\ hdl.next = Items + 1 /\ hdl.told = "ok" /\ hdl.count = Items
                     /\ \A k \in 1 .. (Items + 1) - 1 : k \in Known
            <4>1. hdl.err = "none"
                BY <2>7, <3>3, <3>4 DEF ErrInv
            <4>2. hdl.next = Items + 1 /\ hdl.told = "ok"
                BY <2>1, <3>3, <4>1 DEF ErrInv
            <4>3. Healthy
                BY <2>1, <4>1 DEF Healthy, Doomed
            <4>4. \A k \in 1 .. hdl.next - 1 : k \in Known
                BY <2>1, <3>4, <4>3 DEF WholeInv
            <4> QED
                BY <1>0, <4>2, <4>4
        <3>5. Items + 1 \in Nat /\ \A y \in Known : y < Items + 1
            BY <1>0, <1>1, <2>3
        <3> DEFINE e == Items + 1
        <3>6. /\ OrderInv' /\ Known' \subseteq Known \cup {e} /\ Known \subseteq Known'
            <4>1. /\ e \in Nat /\ Unsent' = Unsent \cup {e} /\ \A y \in Known : y < e
                  /\ pump # "exited" => \A k \in 1 .. e - 1 : k \in Known
                BY <3>2, <3>4, <3>5
            <4> HIDE DEF e
            <4> QED
                BY <1>0, <4>1, GrowStep
        <3>7. CASE pump # "exited"
            BY <2>1, <2>4, <3>4, <3>6, <3>7 DEF WholeInv
        <3>8. CASE pump = "exited"
            <4>1. Known' = Known
                <5>1. pump' = "exited" /\ Received' = Received /\ wire' = wire
                    BY <1>0, <3>8 DEF SameWay
                <5> QED
                    BY <3>8, <5>1 DEF Known, Ahead
            <4>2. WholeInv'
                BY <1>0, <2>1, <2>5, <3>8, <4>1 DEF WholeInv
            <4> QED
                BY <2>4, <3>6, <4>2
        <3> QED
            BY <3>7, <3>8
    <2> QED
        BY <2>6, <2>7
<1> QED
    BY <1>4, <1>5, <1>6

-----------------------------------------------------------------------------
(* The client's steps.                                                     *)

\* What the consumer has and what is buffered for it, item by item.
InOrder(g, b) == /\ \A i \in 1 .. Len(g) : g[i] = i
                 /\ \A i \in 1 .. Len(b) : b[i] = Len(g) + i

\* This is what ItemsInOrder says.
LEMMA InOrderWords ==
    ASSUME NEW S, NEW g \in Seq(S), NEW b \in Seq(S)
    PROVE  (\A i \in DOMAIN (g \o b) : (g \o b)[i] = i) <=> InOrder(g, b)
<1> DEFINE s == g \o b
           m == Len(g)
           l == Len(b)
<1>1. /\ m \in Nat /\ l \in Nat /\ DOMAIN s = 1 .. m + l
      /\ \A i \in 1 .. m : s[i] = g[i]
      /\ \A i \in 1 .. l : s[m + i] = b[i]
    OBVIOUS
<1> HIDE DEF s, m, l
<1>2. ASSUME \A i \in DOMAIN s : s[i] = i PROVE InOrder(g, b)
    <2>1. ASSUME NEW i \in 1 .. m PROVE g[i] = i
        <3>1. i \in 1 .. m + l
            BY <1>1
        <3> QED
            BY <1>1, <1>2, <3>1
    <2>2. ASSUME NEW i \in 1 .. l PROVE b[i] = m + i
        <3>1. m + i \in 1 .. m + l
            BY <1>1
        <3> QED
            BY <1>1, <1>2, <3>1
    <2> QED
        BY <2>1, <2>2 DEF InOrder, m, l
<1>3. ASSUME InOrder(g, b), NEW i \in DOMAIN s PROVE s[i] = i
    <2>1. CASE i \in 1 .. m
        BY <1>1, <1>3, <2>1 DEF InOrder, m
    <2>2. CASE i \notin 1 .. m
        <3>1. i - m \in 1 .. l /\ m + (i - m) = i
            BY <1>1, <2>2
        <3>2. b[i - m] = m + (i - m) /\ s[m + (i - m)] = b[i - m]
            BY <1>1, <1>3, <3>1 DEF InOrder, m, l
        <3> QED
            BY <3>1, <3>2
    <2> QED
        BY <2>1, <2>2
<1> QED
    BY <1>2, <1>3 DEF s

\* The consumer takes an item; the buffer gets more.
LEMMA InOrderSteps ==
    ASSUME NEW S, NEW g \in Seq(S), NEW b \in Seq(S), InOrder(g, b)
    PROVE  /\ b # <<>> => /\ InOrder(Append(g, Head(b)), Tail(b))
                          /\ Len(Append(g, Head(b))) + Len(Tail(b)) = Len(g) + Len(b)
           /\ \A is \in Seq(S) :
                 /\ Len(b \o is) = Len(b) + Len(is)
                 /\ (\A k \in 1 .. Len(is) : is[k] = Len(g) + Len(b) + k) => InOrder(g, b \o is)
<1> DEFINE m == Len(g)
           l == Len(b)
<1>0. /\ m \in Nat /\ l \in Nat
      /\ \A i \in 1 .. m : g[i] = i
      /\ \A i \in 1 .. l : b[i] = m + i
    BY DEF InOrder
<1>1. ASSUME b # <<>>
      PROVE  /\ InOrder(Append(g, Head(b)), Tail(b))
             /\ Len(Append(g, Head(b))) + Len(Tail(b)) = Len(g) + Len(b)
    <2> DEFINE h == Append(g, Head(b))
               t == Tail(b)
    <2>1. /\ l >= 1 /\ Head(b) = b[1] /\ Len(t) = l - 1 /\ \A i \in 1 .. l - 1 : t[i] = b[i + 1]
        BY <1>1
    <2>2. Len(h) = m + 1 /\ h[m + 1] = b[1] /\ \A i \in 1 .. m : h[i] = g[i]
        BY <2>1
    <2> HIDE DEF h, t, m, l
    <2>3. ASSUME NEW i \in 1 .. m + 1 PROVE h[i] = i
        <3>1. CASE i \in 1 .. m
            BY <1>0, <2>2, <3>1
        <3>2. CASE i = m + 1
            <4>1. 1 \in 1 .. l
                BY <1>0, <2>1
            <4> QED
                BY <1>0, <2>2, <3>2, <4>1
        <3> QED
            BY <1>0, <3>1, <3>2
    <2>4. ASSUME NEW i \in 1 .. l - 1 PROVE t[i] = (m + 1) + i
        <3>1. i + 1 \in 1 .. l /\ m + (i + 1) = (m + 1) + i
            BY <1>0
        <3> QED
            BY <1>0, <2>1, <3>1
    <2>5. InOrder(h, t)
        BY <2>1, <2>2, <2>3, <2>4 DEF InOrder
    <2>6. Len(h) + Len(t) = m + l
        BY <1>0, <2>1, <2>2
    <2> QED
        BY <2>5, <2>6 DEF h, t, m, l
<1>2. ASSUME NEW is \in Seq(S)
      PROVE  /\ Len(b \o is) = Len(b) + Len(is)
             /\ (\A k \in 1 .. Len(is) : is[k] = Len(g) + Len(b) + k) => InOrder(g, b \o is)
    <2> DEFINE s == b \o is
               j == Len(is)
    <2>1. /\ j \in Nat /\ Len(s) = l + j
          /\ \A i \in 1 .. l : s[i] = b[i]
          /\ \A i \in 1 .. j : s[l + i] = is[i]
        OBVIOUS
    <2> HIDE DEF s, j, m, l
    <2>2. ASSUME \A k \in 1 .. j : is[k] = m + l + k, NEW i \in 1 .. l + j PROVE s[i] = m + i
        <3>1. CASE i \in 1 .. l
            BY <1>0, <2>1, <3>1
        <3>2. CASE i \notin 1 .. l
            <4>1. i - l \in 1 .. j /\ l + (i - l) = i /\ m + l + (i - l) = m + i
                BY <1>0, <2>1, <3>2
            <4> QED
                BY <2>1, <2>2, <4>1
        <3> QED
            BY <3>1, <3>2
    <2>3. (\A k \in 1 .. j : is[k] = m + l + k) => InOrder(g, s)
        BY <1>0, <2>1, <2>2 DEF InOrder, m
    <2> QED
        BY <2>1, <2>3 DEF s, j, m, l
<1> QED
    BY <1>1, <1>2

\* What comes first on the wire is what the client needs next.
LEMMA FirstIsNext ==
    ASSUME OutputInv, OrderInv, wire # <<>>, NEW y \in Of(Head(wire)),
           \A z \in Of(Head(wire)) : y <= z, y >= 1
    PROVE  y = Len(cl.got) + Len(cl.buf) + 1
<1> DEFINE R == Len(cl.got) + Len(cl.buf)
           F == Of(Head(wire))
           T == In(Tail(wire))
<1>1. Received = 1 .. R /\ R \in Nat
    <2>1. cl.got \in Seq(1 .. Items) /\ cl.buf \in Seq(1 .. Items)
        BY DEF OutputInv, TypeOK, ClientRec
    <2>2. ASSUME NEW S, NEW s \in Seq(S) PROVE Len(s) \in Nat
        OBVIOUS
    <2>3. Len(cl.got) \in Nat /\ Len(cl.buf) \in Nat
        BY <2>1, <2>2
    <2>4. ASSUME NEW a \in Nat, NEW c \in Nat PROVE a + c \in Nat
        OBVIOUS
    <2> QED
        BY <2>3, <2>4 DEF Received
<1>2. In(wire) = F \cup T /\ (Sorted(wire) => Below(F, T))
    BY WayTypes, InTail
<1>3. Below(Received, In(wire)) /\ Below(Received \cup In(wire), Ahead) /\ Sorted(wire) /\ NoGap(Known)
    BY DEF OrderInv
<1>4. Known = Received \cup In(wire) \cup Ahead /\ Known \in SUBSET Nat
    BY WayTypes DEF Known
<1> HIDE DEF R, F, T
<1>5. y \in F /\ y \in Nat /\ \A z \in F : y <= z
    BY <1>2, <1>4 DEF F
<1>6. R < y
    <2>1. CASE R = 0
        BY <1>5, <2>1
    <2>2. CASE R # 0
        <3>1. R \in Received
            BY <1>1, <2>2
        <3> QED
            BY <1>2, <1>3, <1>5, <3>1 DEF Below
    <2> QED
        BY <2>1, <2>2
<1>7. ASSUME R + 1 < y PROVE FALSE
    <2> DEFINE n == R + 1
    <2>1. n \in 1 .. y /\ n \notin 1 .. R /\ n \in Nat
        BY <1>1, <1>5, <1>7
    <2>2. n < y
        BY <1>7
    <2> HIDE DEF n
    <2>3. n \in Known
        BY <1>2, <1>3, <1>4, <1>5, <2>1 DEF NoGap
    <2>4. n \in F \/ n \in T \/ n \in Ahead
        BY <1>1, <1>2, <1>4, <2>1, <2>3
    <2>5. n \notin F
        BY <1>5, <2>1, <2>2
    <2>6. n \notin T
        <3>1. n \in T => y < n
            BY <1>2, <1>3, <1>5 DEF Below
        <3> QED
            BY <1>5, <2>1, <2>2, <3>1
    <2>7. n \notin Ahead
        <3>1. n \in Ahead => y < n
            BY <1>2, <1>3, <1>5 DEF Below
        <3> QED
            BY <1>5, <2>1, <2>2, <3>1
    <2> QED
        BY <2>4, <2>5, <2>6, <2>7
<1>8. y = R + 1
    BY <1>1, <1>5, <1>6, <1>7
<1> QED
    BY <1>8 DEF R

\* The frame that the client reads holds the items it needs next, or the end
\* that is behind all of them.
LEMMA HeadIs ==
    ASSUME OutputInv, FrameInv, WayInv, wire # <<>>
    PROVE  /\ Head(wire) \in AllFrames
           /\ Head(wire).t = "items" =>
                 \A k \in 1 .. Len(Head(wire).is) :
                     Head(wire).is[k] = Len(cl.got) + Len(cl.buf) + k
           /\ Head(wire).t = "end" =>
                 Len(cl.got) + Len(cl.buf) = Items /\ hdl.told = "ok" /\ hdl.count = Items
<1> USE DEF WayInv
<1> DEFINE f == Head(wire)
           R == Len(cl.got) + Len(cl.buf)
<1>1. f \in AllFrames /\ Consecutive(f.is) /\ f.is \in Seq(1 .. Items) /\ (f.t = "items" <=> f.is # NoItems)
    <2>1. f \in AllFrames
        BY WayTypes
    <2>2. AllConsecutive(wire)
        BY FrameWords
    <2>3. Consecutive(f.is)
        BY <2>2, WayTypes, ConsecutiveQueue
    <2> QED
        BY <2>1, <2>3 DEF AllFrames
<1>2. ASSUME NEW y \in Of(f), \A z \in Of(f) : y <= z, y >= 1 PROVE y = R + 1
    BY <1>2, FirstIsNext
<1>3. cl.got \in Seq(1 .. Items) /\ cl.buf \in Seq(1 .. Items)
    BY DEF OutputInv, TypeOK, ClientRec
<1>4. ASSUME NEW S, NEW s \in Seq(S) PROVE /\ Len(s) \in Nat /\ DOMAIN s = 1 .. Len(s)
                                         /\ \A k \in 1 .. Len(s) : s[k] \in S
    OBVIOUS
<1>5. R \in Nat /\ Items \in Nat
    <2>1. Len(cl.got) \in Nat /\ Len(cl.buf) \in Nat
        BY <1>3, <1>4
    <2>2. ASSUME NEW a \in Nat, NEW c \in Nat PROVE a + c \in Nat
        OBVIOUS
    <2> QED
        BY <2>1, <2>2, OutputAssumption
<1> HIDE DEF R
<1>6. ASSUME f.t = "items", NEW k \in 1 .. Len(f.is) PROVE f.is[k] = R + k
    <2> DEFINE l == Len(f.is)
               a == f.is[1]
    <2>1. /\ l \in Nat /\ DOMAIN f.is = 1 .. l /\ \A j \in 1 .. l : f.is[j] \in 1 .. Items
        BY <1>1, <1>4
    <2>2. 1 \in 1 .. l /\ k \in 1 .. l
        BY <1>6, <2>1
    <2>3. a \in 1 .. Items /\ \A j \in 1 .. l : f.is[j] = a + j - 1
        BY <1>1, <2>1, <2>2 DEF Consecutive
    <2>4. Of(f) = {f.is[j] : j \in 1 .. l}
        BY <1>1, <1>6, OfFacts
    <2>5. a \in Of(f)
        BY <2>2, <2>4
    <2> HIDE DEF l, a
    <2>6. a >= 1 /\ \A z \in Of(f) : a <= z
        BY <1>5, <2>1, <2>3, <2>4
    <2>7. a = R + 1
        BY <1>2, <2>5, <2>6
    <2>8. f.is[k] = a + k - 1
        BY <2>2, <2>3
    <2> QED
        BY <1>5, <2>1, <2>2, <2>7, <2>8
<1>7. ASSUME f.t = "end" PROVE R = Items /\ hdl.told = "ok" /\ hdl.count = Items
    <2>1. Of(f) = {Items + 1}
        BY <1>1, <1>7, OfFacts
    <2>2. Items + 1 = R + 1
        BY <1>2, <1>5, <2>1
    <2>3. Items + 1 \in Known
        <3>1. Of(f) \subseteq In(wire)
            BY WayTypes, InTail
        <3> QED
            BY <2>1, <3>1 DEF Known
    <2>4. R = Items
        BY <1>5, <2>2
    <2> QED
        BY <2>3, <2>4 DEF WholeInv
<1> QED
    BY <1>1, <1>6, <1>7 DEF R

\* Reading a frame takes it off the wire, whatever the client does with it.
LEMMA ReadKeepsWay ==
    ASSUME OutputInv, FrameInv, DeliveryInv, WayInv, Listening, Listening', clientReads,
           hdl' = hdl, Unsent' = Unsent, Healthy' = Healthy, pump' = pump, queue' = queue
    PROVE  WayInv'
<1> USE DEF WayInv
<1> DEFINE f == Head(wire)
           R == Len(cl.got) + Len(cl.buf)
           x == (pump = "exited")
<1>1. wire # <<>> /\ wire' = Tail(wire) /\ f \in AllFrames
    BY ReadsEffect DEF clientReads
<1>2. cl.got \in Seq(1 .. Items) /\ cl.buf \in Seq(1 .. Items)
    BY DEF OutputInv, TypeOK, ClientRec
<1>3. ASSUME NEW S, NEW s \in Seq(S) PROVE Len(s) \in Nat
    OBVIOUS
<1>4. Len(cl.got) \in Nat /\ Len(cl.buf) \in Nat /\ Received = 1 .. R
    BY <1>2, <1>3 DEF Received
<1>5. Received' = Received \cup Of(f)
    <2>1. CASE f.t = "items" /\ cl.entry /\ ~cl.serverDone /\ ~cl.stopped
        <3> DEFINE is == f.is
                   l == Len(is)
        <3>1. cl'.got = cl.got /\ cl'.buf = cl.buf \o is
            BY <2>1, ReadsEffect
        <3>2. is \in Seq(1 .. Items)
            BY <1>1 DEF AllFrames
        <3>3. l \in Nat
            BY <1>3, <3>2
        <3>4. ASSUME NEW S, NEW s \in Seq(S), NEW t \in Seq(S) PROVE Len(s \o t) = Len(s) + Len(t)
            OBVIOUS
        <3>5. Len(cl'.buf) = Len(cl.buf) + l
            BY <1>2, <3>1, <3>2, <3>4
        <3>6. Received' = 1 .. Len(cl.got) + (Len(cl.buf) + l)
            BY <3>1, <3>5 DEF Received
        <3>7. Of(f) = {is[k] : k \in 1 .. l} /\ \A k \in 1 .. l : is[k] = R + k
            BY <1>1, <2>1, OfFacts, HeadIs
        <3> HIDE DEF is, l, f
        <3>8. ASSUME NEW a \in Nat, NEW b \in Nat, \A k \in 1 .. l : is[k] = a + b + k
              PROVE  1 .. a + (b + l) = (1 .. a + b) \cup {is[k] : k \in 1 .. l}
            <4>1. ASSUME NEW z \in 1 .. a + (b + l), z \notin 1 .. a + b
                  PROVE  z \in {is[k] : k \in 1 .. l}
                <5>1. z - (a + b) \in 1 .. l /\ a + b + (z - (a + b)) = z
                    BY <3>3, <4>1
                <5>2. is[z - (a + b)] = z
                    BY <3>8, <5>1
                <5> QED
                    BY <5>1, <5>2
            <4>2. ASSUME NEW k \in 1 .. l PROVE is[k] \in 1 .. a + (b + l)
                <5>1. is[k] = a + b + k
                    BY <3>8
                <5> QED
                    BY <3>3, <5>1
            <4>3. 1 .. a + b \subseteq 1 .. a + (b + l)
                BY <3>3
            <4> QED
                BY <4>1, <4>2, <4>3
        <3> QED
            BY <1>4, <3>6, <3>7, <3>8
    <2>2. CASE ~(f.t = "items" /\ cl.entry /\ ~cl.serverDone /\ ~cl.stopped)
        <3>1. CASE f.t \in {"items", "end"}
            <4>1. ~cl.entry
                BY <2>2, <3>1, ReadsEffect DEF Listening, EndedWith
            <4>2. hdl.at = "off" /\ hdl.next = 1
                BY <4>1 DEF Listening, DeliveryInv
            <4>3. \A y \in Of(f) : y < 1
                <5>1. Of(f) \subseteq Known
                    BY <1>1, WayTypes, InTail DEF Known
                <5> QED
                    BY <4>2, <5>1 DEF TopInv
            <4>4. \E y \in Of(f) : y >= 1 /\ y \in Nat
                <5>1. CASE f.t = "items"
                    <6>1. /\ Of(f) = {f.is[k] : k \in 1 .. Len(f.is)} /\ Len(f.is) \in Nat \ {0}
                          /\ f.is \in Seq(1 .. Items)
                        BY <1>1, <5>1, OfFacts DEF AllFrames
                    <6>2. 1 \in 1 .. Len(f.is)
                        BY <6>1
                    <6>3. ASSUME NEW S, NEW s \in Seq(S), NEW k \in 1 .. Len(s) PROVE s[k] \in S
                        OBVIOUS
                    <6>4. f.is[1] \in 1 .. Items /\ f.is[1] \in Of(f)
                        BY <6>1, <6>2, <6>3
                    <6> QED
                        BY <6>4
                <5>2. CASE f.t = "end"
                    <6>1. Of(f) = {Items + 1}
                        BY <1>1, <5>2, OfFacts
                    <6>2. Items + 1 \in Nat /\ Items + 1 >= 1
                        BY OutputAssumption
                    <6> QED
                        BY <6>1, <6>2
                <5> QED
                    BY <3>1, <5>1, <5>2
            <4> QED
                BY <4>3, <4>4
        <3>2. CASE f.t \notin {"items", "end"}
            <4>1. Of(f) = {}
                BY <1>1, <3>2, OfFacts
            <4>2. KeptItems
                BY <3>2, ReadsEffect
            <4> QED
                BY <4>1, <4>2 DEF KeptItems, Received
        <3> QED
            BY <3>1, <3>2
    <2> QED
        BY <2>1, <2>2
<1>6. x \in BOOLEAN /\ (pump' = "exited") = x
    OBVIOUS
<1>7. Ordered(Received, wire, x, queue, Unsent) /\ Known = Held(Received, wire, x, queue, Unsent)
    BY OrderWords
<1>8. /\ OrderInv' <=> Ordered(Received \cup Of(f), Tail(wire), x, queue, Unsent)
      /\ Known' = Held(Received \cup Of(f), Tail(wire), x, queue, Unsent)
    BY <1>1, <1>5, <1>6, OrderWords
<1> HIDE DEF x, R
<1>9. OrderInv' /\ Known' = Known
    BY <1>1, <1>6, <1>7, <1>8, WayTypes, OrderRead
<1> QED
    BY <1>9, AloneStep

\* The client's steps keep what is on its way in order, while it listens.
LEMMA ClientKeepsWay ==
    ASSUME OutputInv, FrameInv, DeliveryInv, WayInv, Listening, Listening',
           ClientSteps, ~readRequest
    PROVE  WayInv'
<1> USE DEF WayInv
<1>0. hdl' = hdl /\ chk' = chk /\ snd' = snd
    BY HandlerUntouched, SendsUntouched
<1>1. ~readCancel
    <2>1. readCancel => cl.cancel
        BY DEF readCancel
    <2> QED
        BY <2>1 DEF DeliveryInv, Listening
<1>2. closed' = closed /\ pump' = pump /\ queue' = queue
    BY <1>1 DEF ClientSteps, startRegisters, startSends, clientReads, clientDrops,
                clientEndsStreams, nextItem, nextEnds, consumerLeaves, callerCancels, stopCancels, server
<1>3. Unsent' = Unsent /\ Healthy' = Healthy
    BY <1>0, <1>2 DEF Unsent, Flight, Live, Buffered, Healthy, Doomed
<1>4. CASE clientReads
    BY <1>0, <1>2, <1>3, <1>4, ReadKeepsWay
<1>5. CASE startRegisters \/ startSends \/ nextItem
    <2>1. wire' = wire
        BY <1>5 DEF startRegisters, startSends, nextItem, server
    <2>2. Received' = Received
        <3>1. CASE startRegisters \/ startSends
            BY <3>1, ClientEffects DEF KeptItems, Received
        <3>2. CASE nextItem
            <4>1. /\ cl.buf # <<>> /\ cl'.buf = Tail(cl.buf) /\ cl'.got = Append(cl.got, Head(cl.buf))
                BY <3>2, ConsumerEffects DEF NoItems
            <4>2. cl.got \in Seq(1 .. Items) /\ cl.buf \in Seq(1 .. Items)
                BY DEF OutputInv, TypeOK, ClientRec
            <4>3. InOrder(cl.got, cl.buf)
                BY <4>2, InOrderWords DEF DeliveryInv, ItemsInOrder
            <4>4. Len(cl'.got) + Len(cl'.buf) = Len(cl.got) + Len(cl.buf)
                <5>1. PICK S : cl.got \in Seq(S) /\ cl.buf \in Seq(S)
                    BY <4>2
                <5>2. Len(Append(cl.got, Head(cl.buf))) + Len(Tail(cl.buf)) = Len(cl.got) + Len(cl.buf)
                    BY <4>1, <4>3, <5>1, InOrderSteps
                <5> QED
                    BY <4>1, <5>2
            <4> QED
                BY <4>4 DEF Received
        <3> QED
            BY <1>5, <3>1, <3>2
    <2>3. SameWay
        BY <1>2, <2>1, <2>2 DEF SameWay
    <2>4. OrderInv' /\ Known' = Known
        BY <1>3, <2>3, CutStep
    <2> QED
        BY <1>0, <1>2, <1>3, <2>4, AloneStep
<1>6. CASE clientDrops \/ clientEndsStreams \/ stopCancels
    BY <1>6, ClientEffects DEF EndedWith, Listening, DeliveryInv, KeptEnd
<1>7. CASE nextEnds \/ consumerLeaves \/ callerCancels
    BY <1>7, ConsumerEffects DEF StoppedWith, Listening
<1> QED
    BY <1>1, <1>4, <1>5, <1>6, <1>7 DEF ClientSteps

\* While the client listens, every step keeps what is on its way in order.
LEMMA NextKeepsWay ==
    ASSUME OutputInv, OutputInv', LockInv, FrameInv, ErrInv, DeliveryInv, WayInv,
           Listening, Listening', Next
    PROVE  WayInv'
<1>1. CASE SendSteps
    BY <1>1, SendKeepsWay
<1>2. CASE CloseSteps \/ (ReadSteps /\ ~readRequest /\ ~readCancel)
    BY <1>2, ServerKeepsWay
<1>3. CASE StreamSteps
    BY <1>3, YieldKeepsWay, ReturnKeepsWay, FlushKeepsWay DEF StreamSteps
<1>4. CASE ClientSteps /\ ~readRequest
    BY <1>4, ClientKeepsWay
<1>5. CASE AtRest
    <2>1. UNCHANGED <<cl, wire, queue, pump, snd, closed, chk, hdl>>
        BY <1>5 DEF AtRest, vars
    <2>2. SameWay /\ Unsent' = Unsent /\ Healthy' = Healthy
        BY <2>1 DEF SameWay, Received, Unsent, Flight, Live, Buffered, Healthy, Doomed
    <2>3. OrderInv' /\ Known' = Known
        BY <2>2, CutStep DEF WayInv
    <2> QED
        BY <2>1, <2>2, <2>3, AloneStep DEF WayInv
<1> QED
    BY <1>1, <1>2, <1>3, <1>4, <1>5
       DEF Next, SendSteps, CloseSteps, ReadSteps, StreamSteps, ClientSteps

-----------------------------------------------------------------------------
(* What the client makes of the stream.                                    *)

\* Once the completion hooks have run, their outcome and the count are final.
LEMMA ToldStays ==
    ASSUME OutputInv, ErrInv, Next, hdl.told # "nothing"
    PROVE  hdl'.told = hdl.told /\ hdl'.count = hdl.count
<1>1. hdl.at \in {"ending", "ended", "over"}
    BY DEF ErrInv
<1>2. CASE StreamSteps
    <2>1. CASE sendStreamEnd \/ streamOver
        BY <2>1, OtherHandlerEffects DEF Moves
    <2>2. CASE delayFlush \/ delayFlushReturns
        BY <2>2, DelayFlushEffect, DelayFlushReturnsEffect
    <2>3. CASE \/ readRequest \/ iterationEnds \/ yieldItem \/ chunkAdd \/ yieldReturns
               \/ chunkClose \/ chunkCloseReturns \/ runHooks
        BY <1>1, <2>3 DEF readRequest, iterationEnds, yieldItem, chunkAdd, yieldReturns,
                          chunkClose, chunkCloseReturns, runHooks
    <2> QED
        BY <1>2, <2>1, <2>2, <2>3 DEF StreamSteps
<1>3. CASE ~StreamSteps
    <2>1. ~readRequest
        BY <1>3 DEF StreamSteps
    <2>2. SendSteps \/ CloseSteps \/ ReadSteps \/ ClientSteps \/ AtRest
        BY <1>3 DEF Next, SendSteps, CloseSteps, ReadSteps, StreamSteps, ClientSteps
    <2> QED
        BY <2>1, <2>2, HandlerUntouched DEF AtRest, vars
<1> QED
    BY <1>2, <1>3

\* The handler runs only for a stream that was started.
LEMMA StartKept ==
    ASSUME OutputInv, DeliveryInv, Next
    PROVE  /\ cl'.request \/ hdl'.at # "off" => cl'.at = "started"
           /\ hdl'.at = "off" => hdl'.next = 1
<1>0. /\ cl.request \/ hdl.at # "off" => cl.at = "started"
      /\ hdl.at = "off" => hdl.next = 1
      /\ cl \in ClientRec
    BY DEF DeliveryInv, OutputInv, TypeOK
<1>1. CASE readRequest
    <2>1. cl.request /\ cl'.at = cl.at /\ hdl'.at = "iterating"
        BY <1>1, ClientEffects, OtherHandlerEffects DEF readRequest, KeptPlace, Moves
    <2> QED
        BY <1>0, <2>1
<1>2. CASE StreamSteps /\ ~readRequest
    <2>1. cl' = cl
        BY <1>2, ClientUntouched
    <2>2. hdl' = hdl \/ (hdl.at # "off" /\ hdl'.at # "off")
        <3>1. CASE runHooks \/ sendStreamEnd \/ streamOver
            BY <3>1, OtherHandlerEffects DEF Moves
        <3>2. CASE delayFlush \/ delayFlushReturns
            BY <3>2, DelayFlushEffect, DelayFlushReturnsEffect
        <3>3. CASE iterationEnds
            BY <3>3, IterationEndsEffect DEF Moves, AfterIteration
        <3>4. CASE yieldItem
            BY <3>4, YieldItemEffect DEF Moves
        <3>5. CASE chunkAdd
            BY <3>5, ChunkAddEffect DEF Moves
        <3>6. CASE yieldReturns
            BY <3>6, YieldReturnsEffect DEF Moves, AfterIteration
        <3>7. CASE chunkClose \/ chunkCloseReturns
            BY <3>7, ChunkCloseEffect, ChunkCloseReturnsEffect DEF Moves
        <3> QED
            BY <1>2, <3>1, <3>2, <3>3, <3>4, <3>5, <3>6, <3>7 DEF StreamSteps
    <2> QED
        BY <1>0, <2>1, <2>2
<1>3. CASE ClientSteps /\ ~readRequest
    <2>1. hdl' = hdl
        BY <1>3, HandlerUntouched
    <2>2. CASE startSends
        BY <1>0, <2>1, <2>2, ClientEffects
    <2>3. CASE startRegisters
        <3>1. cl.at = "starting" /\ cl'.request = cl.request
            BY <1>0, <2>3 DEF startRegisters, ClientRec
        <3> QED
            BY <1>0, <2>1, <3>1
    <2>4. CASE ~startSends /\ ~startRegisters
        <3>1. cl'.at = cl.at
            <4>1. CASE readCancel \/ clientDrops \/ clientEndsStreams \/ stopCancels
                BY <4>1, ClientEffects DEF KeptPlace
            <4>2. CASE nextItem \/ nextEnds \/ consumerLeaves \/ callerCancels
                BY <4>2, ConsumerEffects DEF KeptPlace, StoppedWith
            <4>3. CASE clientReads
                BY <4>3, ReadsEffect
            <4> QED
                BY <1>3, <2>4, <4>1, <4>2, <4>3 DEF ClientSteps
        <3>2. cl'.request => cl.request
            <4>1. CASE readCancel \/ clientDrops \/ nextItem \/ stopCancels
                BY <1>0, <4>1 DEF readCancel, clientDrops, nextItem, stopCancels, ClientRec
            <4>2. CASE clientEndsStreams \/ nextEnds \/ consumerLeaves \/ callerCancels
                BY ZenonT(60), <1>0, <4>2
                   DEF clientEndsStreams, nextEnds, consumerLeaves, callerCancels,
                       end, stop, ClientRec
            <4>3. CASE clientReads
                BY <1>0, <4>3 DEF clientReads, push, end, ClientRec
            <4> QED
                BY <1>3, <2>4, <4>1, <4>2, <4>3 DEF ClientSteps
        <3> QED
            BY <1>0, <2>1, <3>1, <3>2
    <2> QED
        BY <2>2, <2>3, <2>4
<1>4. CASE SendSteps \/ CloseSteps \/ (ReadSteps /\ ~readRequest /\ ~readCancel) \/ AtRest
    <2>1. UNCHANGED <<hdl, cl>>
        BY <1>4, HandlerUntouched, ClientUntouched DEF AtRest, vars
    <2> QED
        BY <1>0, <2>1
<1> QED
    BY <1>1, <1>2, <1>3, <1>4 DEF Next, SendSteps, CloseSteps, ReadSteps, StreamSteps, ClientSteps

\* The items that the client has stay in order.
LEMMA ItemsKept ==
    ASSUME OutputInv, FrameInv, DeliveryInv, Listening => WayInv, ClientSteps PROVE ItemsInOrder'
<1>0. PICK S : /\ cl.got \in Seq(S) /\ cl.buf \in Seq(S) /\ S = 1 .. Items
    BY DEF OutputInv, TypeOK, ClientRec
<1>1. InOrder(cl.got, cl.buf)
    BY <1>0, InOrderWords DEF DeliveryInv, ItemsInOrder
<1>2. ASSUME NEW g \in Seq(S), NEW b \in Seq(S), cl'.got = g, cl'.buf = b, InOrder(g, b)
      PROVE  ItemsInOrder'
    BY <1>2, InOrderWords DEF ItemsInOrder
<1>3. CASE KeptItems
    BY <1>0, <1>1, <1>2, <1>3 DEF KeptItems
<1>4. CASE cl'.got = NoItems /\ cl'.buf = NoItems
    <2>1. InOrder(NoItems, NoItems) /\ NoItems \in Seq(S)
        BY DEF InOrder, NoItems
    <2> QED
        BY <1>2, <1>4, <2>1
<1>5. CASE nextItem
    <2>1. /\ cl.buf # <<>> /\ cl'.buf = Tail(cl.buf) /\ cl'.got = Append(cl.got, Head(cl.buf))
        BY <1>5, ConsumerEffects DEF NoItems
    <2>2. InOrder(Append(cl.got, Head(cl.buf)), Tail(cl.buf))
        BY <1>0, <1>1, <2>1, InOrderSteps
    <2>3. Append(cl.got, Head(cl.buf)) \in Seq(S) /\ Tail(cl.buf) \in Seq(S)
        <3>1. ASSUME NEW T, NEW s \in Seq(T), NEW t \in Seq(T), t # <<>>
              PROVE  Append(s, Head(t)) \in Seq(T) /\ Tail(t) \in Seq(T)
            BY <3>1
        <3> QED
            BY <1>0, <2>1, <3>1
    <2> QED
        BY <1>2, <2>1, <2>2, <2>3
<1>6. CASE clientReads
    <2>1. CASE Head(wire).t = "items" /\ cl.entry /\ ~cl.serverDone /\ ~cl.stopped
        <3> DEFINE is == Head(wire).is
        <3>1. /\ cl'.got = cl.got /\ cl'.buf = cl.buf \o is /\ cl.conn = "up" /\ wire # <<>>
              /\ Head(wire) \in AllFrames
            BY <1>6, <2>1, ReadsEffect
        <3>2. WayInv
            BY <2>1, <3>1 DEF Listening
        <3>3. \A k \in 1 .. Len(is) : is[k] = Len(cl.got) + Len(cl.buf) + k
            BY <2>1, <3>1, <3>2, HeadIs
        <3>4. is \in Seq(S)
            BY <1>0, <3>1 DEF AllFrames
        <3> HIDE DEF is
        <3>5. InOrder(cl.got, cl.buf \o is)
            BY <1>0, <1>1, <3>3, <3>4, InOrderSteps
        <3>6. cl.buf \o is \in Seq(S)
            BY <1>0, <3>4
        <3> QED
            BY <1>0, <1>2, <3>1, <3>5, <3>6
    <2>2. CASE ~(Head(wire).t = "items" /\ cl.entry /\ ~cl.serverDone /\ ~cl.stopped)
        BY <1>3, <1>6, <2>2, ReadsEffect
    <2> QED
        BY <2>1, <2>2
<1>7. CASE nextEnds
    BY <1>3, <1>7, ConsumerEffects DEF StoppedWith, KeptItems
<1>8. CASE consumerLeaves \/ callerCancels
    BY <1>4, <1>8, ConsumerEffects DEF StoppedWith
<1>9. CASE \/ readRequest \/ readCancel \/ startRegisters \/ startSends \/ clientDrops
           \/ clientEndsStreams \/ stopCancels
    BY <1>3, <1>9, ClientEffects
<1> QED
    BY <1>5, <1>6, <1>7, <1>8, <1>9 DEF ClientSteps

\* How many items the client has.
Size(c) == Len(c.got) + Len(c.buf)

\* Ends and stops: a clean end comes behind the last item.
LEMMA EndsKept ==
    ASSUME OutputInv, OutputInv', FrameInv, DeliveryInv, Listening => WayInv, ClientSteps,
           hdl.told = "ok" /\ hdl.count = Items => hdl'.told = "ok" /\ hdl'.count = Items
    PROVE  /\ CleanEndIsComplete'
           /\ cl'.serverDone /\ ~cl'.stopped /\ cl'.err = "none" =>
                 Len(cl'.got) + Len(cl'.buf) = Items /\ hdl'.told = "ok" /\ hdl'.count = Items
           /\ cl'.stopped => cl'.serverDone /\ cl'.buf = NoItems
           /\ cl'.stopped /\ cl'.consumer = "reading" => cl'.err = "error"
           /\ cl'.consumer # "reading" \/ cl'.cancel \/ cl'.stopDue => cl'.stopped
<1> DEFINE Complete == hdl.told = "ok" /\ hdl.count = Items
           Finishes == cl'.consumer = "finished" /\ cl'.err = "none" => Len(cl'.got) = Items /\ Complete'
           Ends == cl'.serverDone /\ ~cl'.stopped /\ cl'.err = "none" => Size(cl') = Items /\ Complete'
           Stopping == /\ cl'.stopped => cl'.serverDone /\ cl'.buf = NoItems
                       /\ cl'.stopped /\ cl'.consumer = "reading" => cl'.err = "error"
                       /\ cl'.consumer # "reading" \/ cl'.cancel \/ cl'.stopDue => cl'.stopped
<1> SUFFICES Finishes /\ Ends /\ Stopping
    BY DEF CleanEndIsComplete, Size
<1>0. /\ cl.consumer = "finished" /\ cl.err = "none" => Len(cl.got) = Items /\ Complete
      /\ cl.serverDone /\ ~cl.stopped /\ cl.err = "none" => Size(cl) = Items /\ Complete
      /\ cl.stopped => cl.serverDone /\ cl.buf = NoItems
      /\ cl.stopped /\ cl.consumer = "reading" => cl.err = "error"
      /\ cl.consumer # "reading" \/ cl.cancel \/ cl.stopDue => cl.stopped
      /\ Complete => Complete'
    BY DEF DeliveryInv, CleanEndIsComplete, Size
<1>1. /\ cl.err \in {"none", "error"} /\ cl.consumer \in {"reading", "left", "finished"}
      /\ cl.serverDone \in BOOLEAN /\ cl.stopped \in BOOLEAN /\ cl.stopDue \in BOOLEAN
      /\ cl'.stopDue \in BOOLEAN /\ cl'.cancel \in BOOLEAN /\ cl'.stopped \in BOOLEAN
    BY DEF OutputInv, TypeOK, ClientRec
<1>2. KeptItems => Size(cl') = Size(cl)
    BY DEF KeptItems, Size
<1> HIDE DEF Complete
<1>3. CASE readRequest \/ readCancel \/ startRegisters
    BY <1>0, <1>1, <1>2, <1>3, ClientEffects DEF KeptPlace, KeptItems, KeptEnd, KeptStop
<1>4. CASE startSends \/ clientDrops
    BY <1>0, <1>1, <1>2, <1>4, ClientEffects DEF KeptItems, KeptEnd, KeptStop, EndedWith, FirstErr
<1>5. CASE clientEndsStreams \/ stopCancels
    BY <1>0, <1>1, <1>2, <1>5, ClientEffects DEF KeptItems, KeptEnd, KeptStop, EndedWith, FirstErr
<1>6. CASE nextItem
    <2>0. PICK S : cl.got \in Seq(S) /\ cl.buf \in Seq(S)
        BY DEF OutputInv, TypeOK, ClientRec
    <2>1. Size(cl') = Size(cl)
        <3>1. InOrder(cl.got, cl.buf)
            BY <2>0, InOrderWords DEF DeliveryInv, ItemsInOrder
        <3>2. /\ cl.buf # <<>> /\ cl'.buf = Tail(cl.buf) /\ cl'.got = Append(cl.got, Head(cl.buf))
            BY <1>6, ConsumerEffects DEF NoItems
        <3>3. Len(Append(cl.got, Head(cl.buf))) + Len(Tail(cl.buf)) = Len(cl.got) + Len(cl.buf)
            BY <2>0, <3>1, <3>2, InOrderSteps
        <3> QED
            BY <3>2, <3>3 DEF Size
    <2>2. KeptEnd /\ KeptStop /\ ~cl.stopped
        BY <1>6, ConsumerEffects
    <2> QED
        BY <1>0, <1>1, <2>1, <2>2 DEF KeptEnd, KeptStop
<1>7. CASE nextEnds
    <2>1. cl.consumer = "reading" /\ cl'.consumer = "finished" /\ cl'.got = cl.got /\ cl'.stopped
        BY <1>7, ConsumerEffects DEF StoppedWith
    <2>2. CASE cl.stopped
        <3>1. cl'.err = cl.err /\ cl'.serverDone = cl.serverDone /\ cl'.buf = cl.buf
            BY <1>7, <2>2, ConsumerEffects DEF KeptEnd
        <3> QED
            BY <1>0, <1>1, <2>1, <2>2, <3>1
    <2>3. CASE ~cl.stopped
        <3>1. /\ cl.buf = NoItems /\ cl.serverDone /\ cl'.serverDone /\ cl'.buf = NoItems
              /\ cl'.err = FirstErr(cl.err, "none")
            BY <1>7, <2>3, ConsumerEffects DEF StoppedWith
        <3>2. Size(cl) = Len(cl.got)
            <4>1. Len(cl.buf) = 0
                BY <3>1 DEF NoItems
            <4>2. cl.got \in Seq(1 .. Items)
                BY DEF OutputInv, TypeOK, ClientRec
            <4>3. ASSUME NEW S, NEW s \in Seq(S) PROVE Len(s) \in Nat
                OBVIOUS
            <4>4. Len(cl.got) \in Nat
                BY <4>2, <4>3
            <4>5. ASSUME NEW a \in Nat PROVE a + 0 = a
                OBVIOUS
            <4> QED
                BY <4>1, <4>4, <4>5 DEF Size
        <3> QED
            BY <1>0, <1>1, <2>1, <2>3, <3>1, <3>2 DEF FirstErr
    <2> QED
        BY <2>2, <2>3
<1>8. CASE consumerLeaves \/ callerCancels
    BY <1>0, <1>1, <1>8, ConsumerEffects DEF StoppedWith, FirstErr, consumerLeaves, callerCancels
<1>9. CASE clientReads
    <2>1. KeptStop /\ cl'.got = cl.got
        BY <1>9, ReadsEffect
    <2>2. CASE Head(wire).t = "items" /\ cl.entry /\ ~cl.serverDone /\ ~cl.stopped
        <3>1. KeptEnd
            BY <1>9, <2>2, ReadsEffect
        <3> QED
            BY <1>0, <1>1, <2>1, <2>2, <3>1 DEF KeptEnd, KeptStop
    <2>3. CASE Head(wire).t = "end" /\ cl.entry
        <3>1. KeptItems /\ EndedWith("none") /\ cl.conn = "up" /\ wire # <<>>
            BY <1>9, <2>3, ReadsEffect
        <3>2. CASE cl.serverDone
            BY <1>0, <1>1, <1>2, <2>1, <3>1, <3>2 DEF KeptItems, KeptStop, EndedWith
        <3>3. CASE ~cl.serverDone
            <4>1. ~cl.stopped
                BY <1>0, <3>3
            <4>2. WayInv
                BY <2>3, <3>1, <3>3, <4>1 DEF Listening
            <4>3. Size(cl) = Items /\ Complete
                BY <2>3, <3>1, <4>2, HeadIs DEF Size, Complete
            <4> QED
                BY <1>0, <1>1, <1>2, <2>1, <3>1, <3>3, <4>1, <4>3 DEF KeptItems, KeptStop, EndedWith
        <3> QED
            BY <3>2, <3>3
    <2>4. CASE Head(wire).t = "end_error" /\ cl.entry
        <3>1. KeptItems /\ EndedWith("error")
            BY <1>9, <2>4, ReadsEffect
        <3> QED
            BY <1>0, <1>1, <1>2, <2>1, <3>1 DEF KeptItems, KeptStop, EndedWith, FirstErr
    <2>5. CASE KeptItems /\ KeptEnd
        BY <1>0, <1>1, <1>2, <2>1, <2>5 DEF KeptItems, KeptStop, KeptEnd
    <2> QED
        BY <1>9, <2>2, <2>3, <2>4, <2>5, ReadsEffect
<1> QED
    BY <1>3, <1>4, <1>5, <1>6, <1>7, <1>8, <1>9 DEF ClientSteps

\* Every step keeps what was delivered in order, and clean ends complete.
LEMMA NextKeepsDelivery ==
    ASSUME OutputInv, OutputInv', FrameInv, ErrInv, DeliveryInv, Listening => WayInv, Next
    PROVE  DeliveryInv'
<1>0. hdl.told = "ok" /\ hdl.count = Items => hdl'.told = "ok" /\ hdl'.count = Items
    BY ToldStays
<1>1. CASE ClientSteps
    BY <1>0, <1>1, ItemsKept, EndsKept, StartKept DEF DeliveryInv
<1>2. CASE ~ClientSteps
    <2>1. cl' = cl
        <3>1. ~readRequest /\ ~readCancel
            BY <1>2 DEF ClientSteps
        <3>2. SendSteps \/ CloseSteps \/ ReadSteps \/ StreamSteps \/ AtRest
            BY <1>2 DEF Next, SendSteps, CloseSteps, ReadSteps, StreamSteps, ClientSteps
        <3> QED
            BY <3>1, <3>2, ClientUntouched DEF AtRest, vars
    <2>2. /\ cl'.request \/ hdl'.at # "off" => cl'.at = "started"
          /\ hdl'.at = "off" => hdl'.next = 1
        BY StartKept
    <2> QED
        BY <1>0, <2>1, <2>2 DEF DeliveryInv, ItemsInOrder, CleanEndIsComplete
<1> QED
    BY <1>1, <1>2

-----------------------------------------------------------------------------
(* The stream is delivered whole, or ends in an error.                     *)

\* Nothing is on its way at first.
LEMMA InitIntact == ASSUME Init PROVE IntactInv
<1>1. OutputInv
    BY InitInv
<1>2. /\ hdl.at = "off" /\ hdl.next = 1 /\ hdl.err = "none" /\ hdl.told = "nothing"
      /\ chk.items = NoItems /\ chk.lock = "free" /\ chk.err = "none"
      /\ wire = <<>> /\ queue = <<>> /\ ~done /\ ~ctx /\ pump = "select"
      /\ cl.got = NoItems /\ cl.buf = NoItems /\ ~cl.serverDone /\ ~cl.stopped
      /\ cl.consumer = "reading" /\ ~cl.cancel /\ ~cl.stopDue /\ ~cl.request
      /\ \A p \in Senders : snd[p] = Idle
      /\ Items \in Nat
    BY OutputAssumption DEF Init
<1>3. Idle.at = "idle" /\ Idle.f = Frame("error") /\ Frame("error").t = "error"
      /\ {"handler", "flusher"} \subseteq Senders
    BY DEF Idle, Frame, Senders
<1>4. LockInv
    BY <1>2, <1>3 DEF LockInv
<1>5. FrameInv
    <2>1. AllConsecutive(<<>>)
        BY DEF AllConsecutive
    <2>2. Trailing(NoItems, 1) /\ Consecutive(Idle.f.is)
        BY SmallFrames
    <2> QED
        BY <1>2, <1>3, <2>1, <2>2, FrameWords DEF Senders
<1>6. ErrInv
    BY <1>2, <1>3 DEF ErrInv
<1>7. DeliveryInv
    <2>1. ItemsInOrder
        BY <1>2 DEF ItemsInOrder, NoItems
    <2> QED
        BY <1>2, <2>1 DEF DeliveryInv, CleanEndIsComplete
<1>8. Known = {} /\ In(wire) = {} /\ In(queue) = {} /\ Received = {} /\ Ahead = {} /\ Unsent = {}
    <2>1. In(<<>>) = {}
        BY DEF In
    <2>2. Unsent = {}
        <3>1. Buffered = {} /\ Flight("handler") = {} /\ Flight("flusher") = {}
            BY <1>2, <1>3, UnsentIs
        <3> QED
            BY <3>1 DEF Unsent
    <2>3. Received = {}
        BY <1>2 DEF Received, NoItems
    <2> QED
        BY <1>2, <2>1, <2>2, <2>3 DEF Known, Ahead
<1>9. OrderInv /\ TopInv /\ WholeInv
    <2>1. Sorted(<<>>)
        BY DEF Sorted
    <2>2. OrderInv
        BY <1>2, <1>8, <2>1 DEF OrderInv, Below, NoGap
    <2> QED
        BY <1>2, <1>8, <2>2 DEF TopInv, WholeInv
<1> QED
    BY <1>1, <1>4, <1>5, <1>6, <1>7, <1>9 DEF IntactInv

\* A step that changes nothing keeps everything.
LEMMA StutterIntact == ASSUME IntactInv, UNCHANGED vars PROVE IntactInv'
<1> USE DEF vars
<1>1. OutputInv'
    BY StutterKeeps DEF IntactInv
<1>2. LockInv' /\ FrameInv'
    BY DEF IntactInv, LockInv, FrameInv
<1>3. ErrInv' /\ (Listening' <=> Listening)
    BY DEF IntactInv, ErrInv, Listening
<1>4. DeliveryInv'
    BY DEF IntactInv, DeliveryInv, ItemsInOrder, CleanEndIsComplete
<1>5. SameWay /\ Unsent' = Unsent /\ Healthy' = Healthy
    BY DEF SameWay, Received, Unsent, Flight, Live, Buffered, Healthy, Doomed
<1>6. Listening' => OrderInv' /\ TopInv' /\ WholeInv'
    BY <1>3, <1>5, CutStep, AloneStep DEF IntactInv
<1> QED
    BY <1>1, <1>2, <1>3, <1>4, <1>6 DEF IntactInv

\* The stream's part of the inductive invariant: who holds the chunker's lock,
\* frames that hold consecutive items, an explanation for every failure, and,
\* while the client listens, an unbroken run of items between the handler and
\* the consumer, with a clean end behind the last (streamIterator,
\* streamChunker, the write pump and rawStream together).
THEOREM IntactInvariant == Spec => []IntactInv
<1>1. Init => IntactInv
    BY InitIntact
<1>2. IntactInv /\ [Next]_vars => IntactInv'
    <2> SUFFICES ASSUME IntactInv, [Next]_vars PROVE IntactInv'
        OBVIOUS
    <2>1. CASE UNCHANGED vars
        BY <2>1, StutterIntact
    <2>2. CASE Next
        <3>0. /\ OutputInv /\ LockInv /\ FrameInv /\ ErrInv /\ DeliveryInv
              /\ Listening => WayInv
            BY DEF IntactInv, WayInv
        <3>1. OutputInv'
            BY <2>2, <3>0, NextKeeps
        <3>2. LockInv'
            BY <2>2, <3>0, NextKeepsLock
        <3>3. FrameInv'
            BY <2>2, <3>0, NextKeepsFrames
        <3>4. ErrInv'
            BY <2>2, <3>0, NextKeepsErrs
        <3>5. DeliveryInv'
            BY <2>2, <3>0, <3>1, NextKeepsDelivery
        <3>6. Listening' => WayInv'
            BY <2>2, <3>0, <3>1, ListeningEnds, NextKeepsWay
        <3> QED
            BY <3>1, <3>2, <3>3, <3>4, <3>5, <3>6 DEF IntactInv, WayInv
    <2> QED
        BY <2>1, <2>2
<1> QED
    BY <1>1, <1>2, PTL DEF Spec

\* Whatever the chunks, their delayed flushes, a close, a cancel and a lost
\* connection do to each other, the items reach the consumer in order without a
\* gap, and a stream that ends without an error has delivered all of them.
THEOREM StreamDelivered == Spec => []StreamIntact
<1>1. IntactInv => StreamIntact
    BY DEF IntactInv, OutputInv, DeliveryInv, StreamIntact
<1> QED
    BY <1>1, IntactInvariant, PTL
===============================================================================
