------------------------------ MODULE ConnOutput ------------------------------
(***************************************************************************)
(* What leaves a connection, and how it gets to the consumer of a stream   *)
(* (transport_ws.go, transport_stream.go, stream_chunk.go, the sending and *)
(* authenticating half of connection.go, client/stream.go).                *)
(*                                                                         *)
(* Four goroutines of the server put frames on the bounded queue of the    *)
(* connection: the read loop (answers to auth frames, refused frames), the *)
(* authentication timer, a streaming handler, and the timer that flushes a *)
(* partial chunk of that stream.  The write pump takes them to the peer.   *)
(* A close may come from each of them, from the server and from the peer.  *)
(* At the other end a Go client turns the frames of the stream back into   *)
(* items for a consumer that may stop at any moment.                       *)
(*                                                                         *)
(* One critical section, or one channel operation, is one action.  A send  *)
(* is two: sendRaw looks at c.closed under the lock, and only then does    *)
(* the transport select between the queue and done.                        *)
(***************************************************************************)
EXTENDS Integers, Sequences, FiniteSets

CONSTANTS
    Configs,        \* the transports and options tried, see AllConfigs
    QueueCap,       \* capacity of the send queue (256 in the code)
    Items,          \* how many items the handler's iterator has
    MaxFrames,      \* bound: auth frames and refused frames the peer sends
    MaxBreaks       \* bound: lost connections, failed writes and server stops

\* The transport, whether an auth hook is registered (and AllowAnonymous makes
\* it optional), and StreamChunking.MaxItems (0: no chunking).
AllConfigs == [kind: {"ws", "stream"}, auth: {"off", "required", "optional"}, chunk: Nat]

ASSUME OutputAssumption ==
    /\ Configs \subseteq AllConfigs
    /\ QueueCap \in Nat \ {0}
    /\ Items \in Nat
    /\ MaxFrames \in Nat /\ MaxBreaks \in Nat

VARIABLES
    cfg,        \* the transport and the options
    breaks,     \* how often something may still break
    link,       \* "up", "closeSent" (a close frame went out), "down"
    queue,      \* t.send
    wire,       \* frames written, not yet read by the client
    done,       \* t.done is closed
    pump,       \* the write pump
    lost,       \* a write failed
    owed,       \* frames on the queue when a plain close closed done
    closed,     \* c.closed
    closer,     \* who is between c.closed = true and transport.Close
    authed,     \* c.authenticated
    timer,      \* the authentication timer
    reader,     \* the read loop
    frames,     \* auth and refused frames the peer may still send
    snd,        \* for each sender, the state of its send
    ctx,        \* the stream's request context is cancelled
    hdl,        \* the streaming handler and streamIterator
    chk,        \* the streamChunker
    cl          \* the client's side of the stream

server == <<cfg, breaks, link, queue, wire, done, pump, lost, owed, closed, closer>>
vars == <<cfg, breaks, link, queue, wire, done, pump, lost, owed, closed, closer,
          authed, timer, reader, frames, snd, ctx, hdl, chk, cl>>

Senders == {"reader", "timer", "handler", "flusher"}

NoItems == << >>
Frame(t) == [t |-> t, is |-> NoItems]
ItemFrame(is) == [t |-> "items", is |-> is]
EndFrame(bad) == IF bad THEN Frame("end_error") ELSE Frame("end")
FrameKinds == {"items", "end", "end_error", "auth_ok", "auth_error", "error"}
AllFrames == {f \in [t : FrameKinds, is : Seq(1 .. Items)] :
                 f.t = "items" <=> f.is # NoItems}

Idle == [at |-> "idle", f |-> Frame("error"), how |-> "raw"]
Sending(f, how) == [at |-> "check", f |-> f, how |-> how]
Returned == {"ok", "closed", "canceled"}

SendRec == [at : {"idle", "check", "select"} \cup Returned, f : AllFrames,
            how : {"raw", "ctx"}]
HandlerRec == [at : {"off", "iterating", "sending", "flushing", "hooks", "ending",
                     "ended", "over"},
               next : 1 .. Items + 1, count : 0 .. Items,
               err : {"none", "closed", "canceled", "failed"},
               told : {"nothing", "ok", "canceled", "failed"}]
ChunkRec == [items : Seq(1 .. Items), lock : {"free", "handler", "flusher"},
             armed : BOOLEAN, err : {"none", "closed", "canceled", "failed"}]
ClientRec == [at : {"starting", "registered", "started"}, conn : {"up", "down"},
              ready : BOOLEAN, entry : BOOLEAN, request : BOOLEAN, cancel : BOOLEAN,
              serverDone : BOOLEAN, stopped : BOOLEAN, stopDue : BOOLEAN, endDue : BOOLEAN,
              buf : Seq(1 .. Items), got : Seq(1 .. Items), err : {"none", "error"},
              consumer : {"reading", "left", "finished"}]

TypeOK ==
    /\ cfg \in Configs
    /\ breaks \in 0 .. MaxBreaks
    /\ link \in {"up", "closeSent", "down"}
    /\ queue \in Seq(AllFrames) /\ Len(queue) <= QueueCap
    /\ wire \in Seq(AllFrames)
    /\ done \in BOOLEAN /\ lost \in BOOLEAN /\ closed \in BOOLEAN
    /\ authed \in BOOLEAN /\ ctx \in BOOLEAN
    /\ pump \in {"select", "draining", "exited"}
    /\ owed \in 0 .. QueueCap
    /\ closer \in {"nobody", "reader", "timer", "run", "stop", "finished"}
    /\ timer \in {"off", "armed", "fired", "stopped", "spent"}
    /\ reader \in {"read", "answer", "refuse", "reject", "failed", "gone"}
    /\ frames \in 0 .. MaxFrames
    /\ snd \in [Senders -> SendRec]
    /\ hdl \in HandlerRec /\ chk \in ChunkRec /\ cl \in ClientRec

(***************************************************************************)
(* A connection accepted by the server: its pumps run, its timer is armed  *)
(* if authentication is required, and the client has not yet asked for the *)
(* stream.                                                                 *)
(***************************************************************************)
Init ==
    /\ cfg \in Configs
    /\ breaks = MaxBreaks
    /\ link = "up" /\ queue = << >> /\ wire = << >>
    /\ done = FALSE /\ lost = FALSE /\ owed = 0
    /\ pump = "select"
    /\ closed = FALSE /\ closer = "nobody"
    /\ authed = FALSE
    /\ timer = IF cfg.auth = "required" THEN "armed" ELSE "off"
    /\ reader = "read" /\ frames = MaxFrames
    /\ snd = [p \in Senders |-> Idle]
    /\ ctx = FALSE
    /\ hdl = [at |-> "off", next |-> 1, count |-> 0, err |-> "none", told |-> "nothing"]
    /\ chk = [items |-> NoItems, lock |-> "free", armed |-> FALSE, err |-> "none"]
    /\ cl = [at |-> "starting", conn |-> "up", ready |-> cfg.auth # "required",
             entry |-> FALSE, request |-> FALSE, cancel |-> FALSE,
             serverDone |-> FALSE, stopped |-> FALSE, stopDue |-> FALSE, endDue |-> FALSE,
             buf |-> NoItems, got |-> NoItems, err |-> "none", consumer |-> "reading"]

-----------------------------------------------------------------------------
(* Sending: Conn.sendRaw and sendJSONCtx, then the transport's select.     *)

\* sendRaw / sendJSONCtx read c.closed and let go of the lock.
sendCheck(p) ==
    /\ snd[p].at = "check"
    /\ snd' = [snd EXCEPT ![p].at = IF closed THEN "closed" ELSE "select"]
    /\ UNCHANGED <<server, authed, timer, reader, frames, ctx, hdl, chk, cl>>

\* The frame goes on the queue: Go picks any ready case, so a frame may be
\* queued although done is closed already.
enqueue(p) ==
    /\ snd[p].at = "select"
    /\ Len(queue) < QueueCap
    /\ queue' = Append(queue, snd[p].f)
    /\ snd' = [snd EXCEPT ![p].at = "ok"]
    /\ UNCHANGED <<cfg, breaks, link, wire, done, pump, lost, owed, closed, closer,
                   authed, timer, reader, frames, ctx, hdl, chk, cl>>

\* done is closed, or the request's context ended for a SendCtx.
sendReleased(p) ==
    /\ snd[p].at = "select"
    /\ \E r \in {"closed", "canceled"} :
          /\ r = "closed" => done
          /\ r = "canceled" => ctx /\ snd[p].how = "ctx"
          /\ snd' = [snd EXCEPT ![p].at = r]
    /\ UNCHANGED <<server, authed, timer, reader, frames, ctx, hdl, chk, cl>>

-----------------------------------------------------------------------------
(* Closing: Conn.closeWithCause, and the two transports' Close.            *)

\* The first part: c.closed is set and every request is cancelled, together.
\* A second closer returns at once.
marksClosed(who) ==
    IF closed THEN UNCHANGED <<closed, closer, ctx>>
    ELSE closed' = TRUE /\ closer' = who /\ ctx' = TRUE

\* transport.Close() of the WebSocket: only done is closed, the pump drains.
closeWS ==
    /\ cfg.kind = "ws"
    /\ closer \in {"reader", "timer", "run"}
    /\ closer' = "finished"
    /\ done' = TRUE
    /\ owed' = Len(queue)
    /\ UNCHANGED <<cfg, breaks, link, queue, wire, pump, lost, closed, authed, timer, reader,
                   frames, snd, ctx, hdl, chk, cl>>

\* CloseGracefully writes a close frame first; nothing written after it counts.
closeGracefullyWS ==
    /\ cfg.kind = "ws"
    /\ closer = "stop"
    /\ closer' = "finished"
    /\ done' = TRUE
    /\ link' = IF link = "up" THEN "closeSent" ELSE link
    /\ UNCHANGED <<cfg, breaks, queue, wire, pump, lost, owed, closed, authed, timer, reader,
                   frames, snd, ctx, hdl, chk, cl>>

\* The byte stream closes rw along with done, graceful or not.
closeStream ==
    /\ cfg.kind = "stream"
    /\ closer \in {"reader", "timer", "run", "stop"}
    /\ closer' = "finished"
    /\ done' = TRUE
    /\ link' = "down"
    /\ UNCHANGED <<cfg, breaks, queue, wire, pump, lost, owed, closed, authed, timer, reader,
                   frames, snd, ctx, hdl, chk, cl>>

\* The pump is gone and the read loop waits for room: nobody is left to close.
Stalled == /\ pump = "exited" /\ ~done
           /\ snd["reader"].at = "select" /\ Len(queue) = QueueCap

\* Server.Stop closes every connection gracefully (a stalled one too, whatever
\* the bound says: nothing else would).
stopServer ==
    /\ ~closed
    /\ \/ breaks > 0 /\ breaks' = breaks - 1
       \/ Stalled /\ breaks' = breaks
    /\ marksClosed("stop")
    /\ UNCHANGED <<cfg, link, queue, wire, done, pump, lost, owed, authed, timer, reader,
                   frames, snd, hdl, chk, cl>>

-----------------------------------------------------------------------------
(* The write pump.                                                         *)

\* The pump takes a frame, in its loop or in drainSend, and writes it.
pumpWrites ==
    /\ pump \in {"select", "draining"}
    /\ queue # << >> /\ link = "up"
    /\ queue' = Tail(queue)
    /\ wire' = Append(wire, Head(queue))
    /\ owed' = IF owed > 0 THEN owed - 1 ELSE 0
    /\ UNCHANGED <<cfg, breaks, link, done, pump, lost, closed, closer,
                   authed, timer, reader, frames, snd, ctx, hdl, chk, cl>>

\* The pump returns; its deferred call closes the socket, and on a byte stream
\* done as well.
pumpReturns ==
    /\ pump' = "exited"
    /\ link' = "down"
    /\ done' = (done \/ cfg.kind = "stream")

\* A write, or a ping, fails: the link is gone, or the peer stopped reading and
\* WriteTimeout passed.  A byte stream has no timeout and no ping: its write
\* fails only on a stream that is down.
pumpFails ==
    /\ pump \in {"select", "draining"}
    /\ queue = << >> => pump = "select" /\ cfg.kind = "ws"
    /\ IF link = "up" THEN cfg.kind = "ws" /\ breaks > 0 /\ breaks' = breaks - 1
       ELSE breaks' = breaks
    /\ queue' = IF queue = << >> THEN queue ELSE Tail(queue)
    /\ lost' = TRUE
    /\ pumpReturns
    /\ UNCHANGED <<cfg, wire, owed, closed, closer,
                   authed, timer, reader, frames, snd, ctx, hdl, chk, cl>>

\* Faulty: the WebSocket's pump returns on done without draining.
pumpSeesDone_NoDrain ==
    /\ pump = "select" /\ done
    /\ pumpReturns
    /\ UNCHANGED <<cfg, breaks, queue, wire, lost, owed, closed, closer,
                   authed, timer, reader, frames, snd, ctx, hdl, chk, cl>>

\* The pump sees done: the WebSocket's drains what is queued first.
pumpSeesDone ==
    /\ pump = "select" /\ done
    /\ IF cfg.kind = "ws"
       THEN pump' = "draining" /\ UNCHANGED <<link, done>>
       ELSE pumpReturns
    /\ UNCHANGED <<cfg, breaks, queue, wire, lost, owed, closed, closer,
                   authed, timer, reader, frames, snd, ctx, hdl, chk, cl>>

\* drainSend finds the queue empty.
drainEnds ==
    /\ pump = "draining" /\ queue = << >>
    /\ pumpReturns
    /\ UNCHANGED <<cfg, breaks, queue, wire, lost, owed, closed, closer,
                   authed, timer, reader, frames, snd, ctx, hdl, chk, cl>>

-----------------------------------------------------------------------------
(* The read loop: handleIncomingMessage, handleAuth and the frames it      *)
(* refuses are answered on the read loop itself, so it may block in a send.*)

MayRead == /\ reader = "read"
           /\ link # "down"
           /\ closer # "reader"

\* The frame is answered with f before the read loop goes on.
Answers(f, next) ==
    /\ reader' = next
    /\ snd' = [snd EXCEPT !["reader"] = Sending(Frame(f), "raw")]

\* stopAuthTimer: a callback that has fired already is not stopped.
stopAuthTimer == timer' = IF timer = "armed" THEN "stopped" ELSE timer

\* handleAuth with a token the hook accepts, or with no hook at all.
authAccepted ==
    /\ MayRead /\ frames > 0
    /\ frames' = frames - 1
    /\ IF cfg.auth = "off" THEN UNCHANGED <<authed, timer>>
       ELSE /\ authed' = TRUE
            /\ IF authed THEN UNCHANGED timer ELSE stopAuthTimer
    /\ Answers("auth_ok", "answer")
    /\ UNCHANGED <<server, ctx, hdl, chk, cl>>

\* Faulty: the timer is stopped as soon as an auth frame arrives.
authRefused_StopsTimer ==
    /\ MayRead /\ frames > 0
    /\ cfg.auth # "off"
    /\ frames' = frames - 1
    /\ stopAuthTimer
    /\ Answers("auth_error", "reject")
    /\ UNCHANGED <<server, authed, ctx, hdl, chk, cl>>

\* handleAuth with a token the hook refuses, or a hook that panics.
authRefused ==
    /\ MayRead /\ frames > 0
    /\ cfg.auth # "off"
    /\ frames' = frames - 1
    /\ Answers("auth_error", "reject")
    /\ UNCHANGED <<server, authed, timer, ctx, hdl, chk, cl>>

\* A frame that does not run: invalid JSON, an unknown type or method, too many
\* requests; while authentication is pending, any frame but auth.
refuseFrame ==
    /\ MayRead /\ frames > 0
    /\ frames' = frames - 1
    /\ Answers(IF cfg.auth = "required" /\ ~authed THEN "auth_error" ELSE "error", "refuse")
    /\ UNCHANGED <<server, authed, timer, ctx, hdl, chk, cl>>

\* The answer was sent, or could not be.
answerSent ==
    /\ reader \in {"answer", "refuse"}
    /\ snd["reader"].at \in Returned
    /\ reader' = "read"
    /\ snd' = [snd EXCEPT !["reader"] = Idle]
    /\ UNCHANGED <<server, authed, timer, frames, ctx, hdl, chk, cl>>

\* After auth_error: a connection still pending is closed, a session is kept.
authRejects ==
    /\ reader = "reject"
    /\ snd["reader"].at \in Returned
    /\ reader' = "read"
    /\ snd' = [snd EXCEPT !["reader"] = Idle]
    /\ IF authed THEN UNCHANGED <<closed, closer, ctx>> ELSE marksClosed("reader")
    /\ UNCHANGED <<cfg, breaks, link, queue, wire, done, pump, lost, owed, authed, timer,
                   frames, hdl, chk, cl>>

\* The stream's request: it runs on a goroutine of its own.  On a closed
\* connection registerRequest cancels it at once (ctx stays TRUE).
readRequest ==
    /\ MayRead /\ cl.request /\ hdl.at = "off"
    /\ cl' = [cl EXCEPT !.request = FALSE]
    /\ hdl' = [hdl EXCEPT !.at = "iterating"]
    /\ UNCHANGED <<server, authed, timer, reader, frames, snd, ctx, chk>>

\* The consumer's cancel frame reaches cancelRequest.
readCancel ==
    /\ MayRead /\ cl.cancel /\ ~cl.request
    /\ cl' = [cl EXCEPT !.cancel = FALSE]
    /\ ctx' = (ctx \/ hdl.at \notin {"off", "over"})
    /\ UNCHANGED <<server, authed, timer, reader, frames, snd, hdl, chk>>

\* ReadMessage or Scan fails and the read loop ends.
readFails ==
    /\ reader = "read" /\ link = "down" /\ closer # "reader"
    /\ reader' = "failed"
    /\ UNCHANGED <<server, authed, timer, frames, snd, ctx, hdl, chk, cl>>

\* The server's run loop takes the connection out and closes it; the read loop
\* then closes the socket (the byte stream's Close closes done too).
runUnregisters ==
    /\ reader = "failed"
    /\ reader' = "gone"
    /\ marksClosed("run")
    /\ link' = "down"
    /\ done' = (done \/ cfg.kind = "stream")
    /\ UNCHANGED <<cfg, breaks, queue, wire, pump, lost, owed, authed, timer, frames, snd,
                   hdl, chk, cl>>

-----------------------------------------------------------------------------
(* The authentication timer (armAuthTimeout).                              *)

\* The callback finds the connection unauthenticated and starts its auth_error.
authTimerFires ==
    /\ timer = "armed" /\ ~authed
    /\ timer' = "fired"
    /\ snd' = [snd EXCEPT !["timer"] = Sending(Frame("auth_error"), "raw")]
    /\ UNCHANGED <<server, authed, reader, frames, ctx, hdl, chk, cl>>

\* Then it closes the connection, whatever has happened meanwhile.
authTimerCloses ==
    /\ timer = "fired"
    /\ snd["timer"].at \in Returned
    /\ timer' = "spent"
    /\ snd' = [snd EXCEPT !["timer"] = Idle]
    /\ marksClosed("timer")
    /\ UNCHANGED <<cfg, breaks, link, queue, wire, done, pump, lost, owed, authed, reader,
                   frames, hdl, chk, cl>>

-----------------------------------------------------------------------------
(* The streaming handler: streamIterator, and streamChunker under its lock.*)

Outcome(at) == IF at = "ok" THEN "none" ELSE at
FirstErr(old, new) == IF old = "none" THEN new ELSE old
AfterIteration == IF cfg.chunk = 0 THEN "hooks" ELSE "flushing"

\* Iteration ends with err: the context was cancelled, the iterator returned,
\* it panicked, or an item cannot be encoded.
iterationEnds ==
    /\ hdl.at = "iterating"
    /\ \E why \in {"canceled", "finished", "panic", "unencodable"} :
          /\ why = "canceled" => ctx
          /\ why = "finished" <=> hdl.next > Items
          /\ why = "unencodable" => chk.lock = "free" /\ ~ctx
          /\ hdl' = [hdl EXCEPT !.at = AfterIteration,
                                !.err = IF why \in {"panic", "unencodable"} THEN "failed" ELSE @]
          /\ chk' = IF why = "unencodable" /\ cfg.chunk > 0
                    THEN [chk EXCEPT !.err = FirstErr(@, "failed")] ELSE chk
    /\ UNCHANGED <<server, authed, timer, reader, frames, snd, ctx, cl>>

\* yield without chunking: each item is a frame.
yieldItem ==
    /\ hdl.at = "iterating" /\ hdl.next <= Items /\ ~ctx /\ cfg.chunk = 0
    /\ hdl' = [hdl EXCEPT !.at = "sending"]
    /\ snd' = [snd EXCEPT !["handler"] = Sending(ItemFrame(<<hdl.next>>), "ctx")]
    /\ UNCHANGED <<server, authed, timer, reader, frames, ctx, chk, cl>>

\* flushLocked: the buffer becomes one frame, sent with the lock held.
flushLocked(p, items) ==
    /\ snd' = [snd EXCEPT ![p] = Sending(ItemFrame(items), "ctx")]
    /\ chk' = [chk EXCEPT !.items = NoItems, !.lock = p, !.armed = FALSE]

\* yield with chunking (streamChunker.add): refuse after an error, flush a
\* full buffer, or buffer the item and arm the timer for the first one.
chunkAdd ==
    LET items == Append(chk.items, hdl.next) IN
    /\ hdl.at = "iterating" /\ hdl.next <= Items /\ ~ctx /\ cfg.chunk > 0
    /\ chk.lock = "free"
    /\ IF chk.err # "none"
       THEN hdl' = [hdl EXCEPT !.at = "flushing", !.err = chk.err] /\ UNCHANGED <<snd, chk>>
       ELSE IF Len(items) >= cfg.chunk
       THEN hdl' = [hdl EXCEPT !.at = "sending"] /\ flushLocked("handler", items)
       ELSE /\ hdl' = [hdl EXCEPT !.next = @ + 1, !.count = @ + 1]
            /\ chk' = [chk EXCEPT !.items = items, !.armed = (@ \/ Len(items) = 1)]
            /\ UNCHANGED snd
    /\ UNCHANGED <<server, authed, timer, reader, frames, ctx, cl>>

\* What a flush leaves behind when its send has returned.
flushed(p) ==
    chk' = [chk EXCEPT !.lock = IF @ = p THEN "free" ELSE @,
                       !.err = FirstErr(@, Outcome(snd[p].at))]

\* The send of an item or of a full chunk returned to yield.
yieldReturns ==
    /\ hdl.at = "sending"
    /\ snd["handler"].at \in Returned
    /\ hdl' = IF snd["handler"].at = "ok"
              THEN [hdl EXCEPT !.at = "iterating", !.next = @ + 1, !.count = @ + 1]
              ELSE [hdl EXCEPT !.at = AfterIteration, !.err = snd["handler"].at]
    /\ IF cfg.chunk > 0 THEN flushed("handler") ELSE UNCHANGED chk
    /\ snd' = [snd EXCEPT !["handler"] = Idle]
    /\ UNCHANGED <<server, authed, timer, reader, frames, ctx, cl>>

\* MaxDelay passed and delayFlush has the lock.  A callback that had to wait for
\* the lock finds an empty buffer, or flushes early what its own timer would.
delayFlush ==
    /\ chk.armed /\ chk.lock = "free" /\ snd["flusher"].at = "idle"
    /\ IF chk.err = "none" THEN flushLocked("flusher", chk.items)
       ELSE chk' = [chk EXCEPT !.armed = FALSE] /\ UNCHANGED snd
    /\ UNCHANGED <<server, authed, timer, reader, frames, ctx, hdl, cl>>

\* Its send returned; a failure stays in sc.err for the next add or close.
delayFlushReturns ==
    /\ snd["flusher"].at \in Returned
    /\ flushed("flusher")
    /\ snd' = [snd EXCEPT !["flusher"] = Idle]
    /\ UNCHANGED <<server, authed, timer, reader, frames, ctx, hdl, cl>>

\* Faulty: the partial chunk is left in the buffer.
chunkClose_NoFlush ==
    /\ hdl.at = "flushing" /\ snd["handler"].at = "idle"
    /\ chk.lock = "free"
    /\ hdl' = [hdl EXCEPT !.at = "hooks", !.err = FirstErr(@, chk.err)]
    /\ chk' = [chk EXCEPT !.armed = FALSE]
    /\ UNCHANGED <<server, authed, timer, reader, frames, snd, ctx, cl>>

\* streamChunker.close: flush the partial chunk, or report an earlier failure.
chunkClose ==
    /\ hdl.at = "flushing" /\ snd["handler"].at = "idle"
    /\ chk.lock = "free"
    /\ IF chk.items # NoItems THEN flushLocked("handler", chk.items) /\ UNCHANGED hdl
       ELSE /\ hdl' = [hdl EXCEPT !.at = "hooks", !.err = FirstErr(@, chk.err)]
            /\ chk' = [chk EXCEPT !.armed = FALSE]
            /\ UNCHANGED snd
    /\ UNCHANGED <<server, authed, timer, reader, frames, ctx, cl>>

\* That last flush returned.
chunkCloseReturns ==
    /\ hdl.at = "flushing" /\ snd["handler"].at \in Returned
    /\ flushed("handler")
    /\ hdl' = [hdl EXCEPT !.at = "hooks", !.err = FirstErr(@, Outcome(snd["handler"].at))]
    /\ snd' = [snd EXCEPT !["handler"] = Idle]
    /\ UNCHANGED <<server, authed, timer, reader, frames, ctx, cl>>

\* streamHooks.run: the OnStreamComplete callbacks learn the outcome, the
\* cancellation before any error of the stream.
runHooks ==
    /\ hdl.at = "hooks"
    /\ hdl' = [hdl EXCEPT !.at = "ending",
                          !.told = IF ctx THEN "canceled"
                                   ELSE IF hdl.err # "none" THEN "failed" ELSE "ok"]
    /\ UNCHANGED <<server, authed, timer, reader, frames, snd, ctx, chk, cl>>

\* sendStreamEnd: with a code unless the context has ended or the connection closed.
sendStreamEnd ==
    /\ hdl.at = "ending"
    /\ hdl' = [hdl EXCEPT !.at = "ended"]
    /\ LET bad == hdl.err \notin {"none", "closed"} /\ ~ctx
       IN  snd' = [snd EXCEPT !["handler"] = Sending(EndFrame(bad), "raw")]
    /\ UNCHANGED <<server, authed, timer, reader, frames, ctx, chk, cl>>

\* The request is over and unregistered.
streamOver ==
    /\ hdl.at = "ended" /\ snd["handler"].at \in Returned
    /\ hdl' = [hdl EXCEPT !.at = "over"]
    /\ snd' = [snd EXCEPT !["handler"] = Idle]
    /\ UNCHANGED <<server, authed, timer, reader, frames, ctx, chk, cl>>

-----------------------------------------------------------------------------
(* The Go client: startStream, the read loop's stream frames, rawStream.   *)

srv == <<authed, timer, reader, frames, snd, ctx, hdl, chk>>

\* rawStream.end: only the first end counts, and only the first error.
end(c, err) ==
    IF c.serverDone THEN c
    ELSE [c EXCEPT !.serverDone = TRUE, !.err = FirstErr(@, err)]

\* startStream registers the stream while its connection is still the current one.
startRegisters ==
    /\ cl.at = "starting" /\ cl.ready /\ cl.conn = "up"
    /\ cl' = [cl EXCEPT !.at = "registered", !.entry = TRUE]
    /\ UNCHANGED <<server, srv>>

\* The request goes out, or fails with the connection.
startSends ==
    /\ cl.at = "registered"
    /\ cl' = IF cl.conn = "up" THEN [cl EXCEPT !.at = "started", !.request = TRUE]
             ELSE [end(cl, "error") EXCEPT !.at = "started", !.entry = FALSE]
    /\ UNCHANGED <<server, srv>>

\* rawStream.push of the items of one frame.
push(c, is) == IF c.entry /\ ~c.serverDone /\ ~c.stopped
               THEN [c EXCEPT !.buf = @ \o is] ELSE c

\* The client's read loop handles one frame.
clientReads ==
    /\ cl.conn = "up" /\ wire # << >>
    /\ wire' = Tail(wire)
    /\ LET f == Head(wire)
           ended == [cl EXCEPT !.entry = FALSE] IN
       cl' = CASE f.t = "items" -> push(cl, f.is)
               [] f.t = "end" -> IF cl.entry THEN end(ended, "none") ELSE cl
               [] f.t = "end_error" -> IF cl.entry THEN end(ended, "error") ELSE cl
               [] f.t = "auth_ok" -> [cl EXCEPT !.ready = TRUE]
               [] OTHER -> cl
    /\ UNCHANGED <<cfg, breaks, link, queue, done, pump, lost, owed, closed, closer, srv>>

\* Faulty: the streams of the lost connection are dropped without an end.
clientDrops_NoEnd ==
    /\ cl.conn = "up"
    /\ IF link # "up" /\ wire = << >> THEN breaks' = breaks
       ELSE breaks > 0 /\ breaks' = breaks - 1
    /\ cl' = [cl EXCEPT !.conn = "down", !.entry = FALSE,
                        !.request = FALSE, !.cancel = FALSE]
    /\ link' = "down" /\ wire' = << >>
    /\ UNCHANGED <<cfg, queue, done, pump, lost, owed, closed, closer, srv>>

\* The client loses the connection: its read fails once the wire is empty, or
\* the network drops what is on it.  markDisconnected takes the streams away.
clientDrops ==
    /\ cl.conn = "up"
    /\ IF link # "up" /\ wire = << >> THEN breaks' = breaks
       ELSE breaks > 0 /\ breaks' = breaks - 1
    /\ cl' = [cl EXCEPT !.conn = "down", !.entry = FALSE, !.endDue = cl.entry,
                        !.request = FALSE, !.cancel = FALSE]
    /\ link' = "down" /\ wire' = << >>
    /\ UNCHANGED <<cfg, queue, done, pump, lost, owed, closed, closer, srv>>

\* ... and ends each of them with ErrConnectionLost, outside the lock.
clientEndsStreams ==
    /\ cl.endDue
    /\ cl' = [end(cl, "error") EXCEPT !.endDue = FALSE]
    /\ UNCHANGED <<server, srv>>

\* rawStream.next returns an item.
nextItem ==
    /\ cl.at = "started" /\ cl.consumer = "reading"
    /\ ~cl.stopped /\ cl.buf # NoItems
    /\ cl' = [cl EXCEPT !.buf = Tail(@), !.got = Append(@, Head(cl.buf))]
    /\ UNCHANGED <<server, srv>>

\* The first half of rawStream.stop: the buffer is dropped, and a stream that
\* still runs will be cancelled at the server.
stop(c, err) ==
    [c EXCEPT !.stopped = TRUE, !.err = FirstErr(@, err), !.stopDue = ~c.serverDone,
              !.serverDone = TRUE, !.buf = NoItems]

\* next finds the stream over and drained: All returns, stopping it.
nextEnds ==
    /\ cl.at = "started" /\ cl.consumer = "reading"
    /\ cl.stopped \/ (cl.buf = NoItems /\ cl.serverDone)
    /\ cl' = [(IF cl.stopped THEN cl ELSE stop(cl, "none")) EXCEPT !.consumer = "finished"]
    /\ UNCHANGED <<server, srv>>

\* The consumer breaks out of its loop or calls Close; what it had read until
\* then no longer matters.
consumerLeaves ==
    /\ cl.at = "started" /\ cl.consumer = "reading" /\ ~cl.stopped
    /\ cl' = [stop(cl, "none") EXCEPT !.consumer = "left", !.got = NoItems]
    /\ UNCHANGED <<server, srv>>

\* The caller's context ends: the AfterFunc stops the stream with its error.
callerCancels ==
    /\ cl.at = "started" /\ cl.consumer = "reading" /\ ~cl.stopped
    /\ cl' = [stop(cl, "error") EXCEPT !.got = NoItems]
    /\ UNCHANGED <<server, srv>>

\* The second half of stop: the stream is forgotten and cancelled at the server.
stopCancels ==
    /\ cl.stopDue
    /\ cl' = [cl EXCEPT !.stopDue = FALSE, !.entry = FALSE, !.cancel = (cl.conn = "up")]
    /\ UNCHANGED <<server, srv>>

-----------------------------------------------------------------------------

\* Everything has come to rest: the connection is gone on both sides and the
\* consumer has its answer (or is waiting for a reconnect to start).
Rest == /\ reader = "gone" /\ pump = "exited" /\ closer = "finished"
        /\ \A p \in Senders : snd[p].at = "idle"
        /\ timer \in {"off", "armed", "stopped", "spent"}
        /\ hdl.at \in {"off", "over"}
        /\ cl.conn = "down" /\ cl.consumer = "reading" => cl.at = "starting"

AtRest == Rest /\ UNCHANGED vars

Next ==
    \/ \E p \in Senders : sendCheck(p) \/ enqueue(p) \/ sendReleased(p)
    \/ closeWS \/ closeGracefullyWS \/ closeStream \/ stopServer
    \/ pumpWrites \/ pumpFails \/ pumpSeesDone \/ drainEnds
    \/ authAccepted \/ authRefused \/ refuseFrame \/ answerSent \/ authRejects
    \/ readRequest \/ readCancel \/ readFails \/ runUnregisters
    \/ authTimerFires \/ authTimerCloses
    \/ iterationEnds \/ yieldItem \/ chunkAdd \/ yieldReturns
    \/ delayFlush \/ delayFlushReturns \/ chunkClose \/ chunkCloseReturns
    \/ runHooks \/ sendStreamEnd \/ streamOver
    \/ startRegisters \/ startSends \/ clientReads \/ clientDrops \/ clientEndsStreams
    \/ nextItem \/ nextEnds \/ consumerLeaves \/ callerCancels \/ stopCancels
    \/ AtRest

Spec == Init /\ [][Next]_vars

-----------------------------------------------------------------------------
(* Properties.                                                             *)

(* Whatever was on the queue when a WebSocket connection was closed        *)
(* reaches the wire before the socket goes down, unless a write failed:    *)
(* handleAuth and the authentication timer queue auth_error and close      *)
(* right away, and rely on the pump to drain (transport_ws.go:182).        *)
QueuedBeforeCloseIsWritten ==
    cfg.kind = "ws" /\ pump = "exited" /\ link = "down" /\ ~lost => owed = 0

(* A consumer whose stream ended without an error, and who did not stop    *)
(* it, has seen every item of the iterator; the completion hooks were told *)
(* of a success, with that number of items.  Chunks, their delayed flush,  *)
(* a close, a cancel and a lost connection all race with the last items.   *)
CleanEndIsComplete ==
    cl.consumer = "finished" /\ cl.err = "none" =>
        /\ Len(cl.got) = Items
        /\ hdl.told = "ok" /\ hdl.count = Items

(* The items arrive in the order they were yielded, without a gap, however *)
(* the handler's flushes and the delay timer's are interleaved.            *)
ItemsInOrder ==
    LET seen == cl.got \o cl.buf
    IN  \A i \in DOMAIN seen : seen[i] = i

(* No consumer waits for a connection that is gone: once the client has    *)
(* dealt with the loss, a started stream is over.                          *)
LossReachesConsumer ==
    cl.conn = "down" /\ cl.at = "started" /\ ~cl.endDue => cl.serverDone

(* A connection that must authenticate and has not is closed, or its timer *)
(* is still there to close it, also while the read loop waits to send the  *)
(* refusal of a token.                                                     *)
PendingIsWatched ==
    cfg.auth = "required" /\ ~authed => closed \/ timer \in {"armed", "fired"}

Blocked(p) == snd[p].at = "select" /\ Len(queue) = QueueCap /\ ~done

(* A sender that waits for room has someone to release it: the pump still  *)
(* writes, or a close is under way, or the read loop will see that the     *)
(* link is down.  On a WebSocket the read loop may be among the senders    *)
(* that wait; the exception is what SendsAreBounded is about.              *)
BlockedHaveARescuer ==
    \A p \in Senders : Blocked(p) =>
        \/ pump # "exited"
        \/ closer \in {"reader", "timer", "run", "stop"}
        \/ reader # "gone" /\ ~Blocked("reader")
        \/ cfg.kind = "ws" /\ Blocked("reader")

(* What transport_ws.go:87-89 promises of sendFrame: the wait for room is  *)
(* bounded, because the pump's WriteTimeout closes a peer that stops       *)
(* reading.                                                                *)
SendsAreBounded ==
    \A p \in Senders : Blocked(p) =>
        \/ pump # "exited"
        \/ closer \in {"reader", "timer", "run", "stop"}
        \/ reader # "gone" /\ ~Blocked("reader")

(* A stream is delivered whole or ends in an error: the items come in      *)
(* order without a gap, and a clean end means that all of them came.       *)
StreamIntact ==
    /\ TypeOK
    /\ ItemsInOrder
    /\ CleanEndIsComplete

(* Nobody waits for what cannot come: neither a consumer for a connection  *)
(* that is gone nor a sender for room that nobody makes.                   *)
WaitsAreAnswered ==
    /\ LossReachesConsumer
    /\ BlockedHaveARescuer
=============================================================================
