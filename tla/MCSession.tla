----------------------------- MODULE MCSession -------------------------------
(* SessionProperties with small constants: how many streams the ends open,   *)
(* what the two applications do, and what a foreign peer sends, by run.      *)
EXTENDS SessionProperties

ByEnd(client, server) == [e \in Sides |-> IF e = "client" THEN client ELSE server]

\* A session with a channel of one frame, frames of up to payload bytes, and a
\* receive buffer of the given size (build() would not return all of these).
Small(payload, buffer, keep_alive) ==
  [BuilderNew EXCEPT !.max_frame_size = HEADER_SIZE + payload,
                     !.max_receive_buffer = buffer,
                     !.max_receive_channel_buffer_size = 1,
                     !.enable_keep_alive = keep_alive]

TwoByteFrames == ByEnd(Small(2, 1, FALSE), Small(2, 1, FALSE))
OneByteFrames == ByEnd(Small(1, 1, FALSE), Small(1, 1, FALSE))
\* The server has no receive buffer, and refuses the client's longer frames.
Mismatched == ByEnd(Small(2, 1, TRUE), Small(1, 0, FALSE))

NoStream           == ByEnd(0, 0)
OneClientStream    == ByEnd(1, 0)
TwoClientStreams   == ByEnd(2, 0)
OneAndWrap         == ByEnd(1, 2)

TransferOps ==
  LET ops == {"read", "write", "shutdown", "drop"}
  IN  ByEnd(ops \cup {"open"}, ops \cup {"accept"})
ClosingOps ==
  ByEnd({"open", "write", "closestream", "shutdown", "cancel", "close"},
        {"accept", "read", "drop", "close", "dropsession"})
StreamsOps == ByEnd({"open", "write"}, {"open", "accept", "read"})
WaitingOps ==
  ByEnd({"open", "write", "cancel", "dropsession"}, {"accept", "read", "close"})
LiveOps == ByEnd({"open", "write", "shutdown"}, {"accept", "read", "shutdown", "drop"})
AcceptOps == ByEnd({}, {"accept", "close"})
FloodOps == ByEnd({"open", "write"}, {"accept"})

NobodyForeign == ByEnd({}, {})
\* The server's peer repeats SYNs and sends SYNs with ids the server cannot
\* accept or the codec refuses, and frames that are ignored.
ForeignClient == ByEnd({Syn(0), Syn(1), Syn(2), Syn(3), Upd(1), Psh(1, Empty)}, {})
==============================================================================
