----------------------------- MODULE MCConnOutput -----------------------------
(* ConnOutput on a queue of one frame and a stream of two items: both       *)
(* transports, each with and without chunking and with an auth mode that    *)
(* makes the read loop send something else.                                 *)
EXTENDS ConnOutput

ThreeConfigs == {[kind |-> "ws", auth |-> "required", chunk |-> 0],
                 [kind |-> "ws", auth |-> "optional", chunk |-> 2],
                 [kind |-> "stream", auth |-> "off", chunk |-> 2]}
WebSocketOnly == {[kind |-> "ws", auth |-> "off", chunk |-> 0]}
=============================================================================
