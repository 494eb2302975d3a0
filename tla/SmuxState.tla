------------------------------ MODULE SmuxState ------------------------------
(***************************************************************************)
(* The state of the two ends of a smux connection, "client" and "server",  *)
(* both running this crate, and of the transport between them: frames, the *)
(* SessionState shared by a session's tasks and streams, and the bounded   *)
(* channels.  Stream.tla and Session.tla define the actions.               *)
(*                                                                         *)
(* Payload bytes are identified by their position in what the writer has   *)
(* written to the stream: a chunk [lo, hi] holds the bytes lo+1 .. hi.     *)
(***************************************************************************)
EXTENDS StreamIds, Config, Sequences, FiniteSets

CONSTANTS
  Conf,             \* the Config each end's session was created with
  AcceptCap,        \* the accept channel's bound, 16 in Session::new
  WireCap,          \* frames the transport takes before sink.send() waits
  MaxOpens,         \* bound: open_stream calls, by end
  MaxBytes,         \* bound: bytes written to one stream by one end
  WriteSizes,       \* buffer lengths of the application's writes
  ReadSizes,        \* buffer lengths of the application's reads
  AppOps,           \* the operations the application of each end performs
  LinkMayFail,      \* whether the connection may break
  ForeignFrames     \* frames another smux implementation may send, by end

HEADER_SIZE == 8
U16Max == 65535

\* A Session can be given any Config.  The channel has a capacity, the version
\* can be encoded, interval() does not panic in a keep_alive_loop that runs, and
\* the length of a payload fits its field; Codec looks at what happens otherwise.
ASSUME ConfigAssumption ==
  /\ Conf \in [Sides -> ConfigRecord]
  /\ \A e \in Sides : Conf[e].version # 0
                      /\ Conf[e].max_receive_channel_buffer_size # 0
                      /\ Conf[e].max_frame_size <= HEADER_SIZE + U16Max
                      /\ Conf[e].enable_keep_alive =>
                           0 \notin {Conf[e].keep_alive_interval,
                                    Conf[e].keep_alive_timeout}
  /\ AcceptCap \in Nat \ {0} /\ WireCap \in Nat /\ MaxBytes \in Nat
  /\ MaxOpens \in [Sides -> Nat]
  /\ AppOps \in [Sides -> SUBSET {"open", "accept", "read", "write", "shutdown",
                   "closestream", "drop", "cancel", "close", "dropsession"}]
  /\ LinkMayFail \in BOOLEAN
  /\ WriteSizes \subseteq Nat \ {0} /\ ReadSizes \subseteq Nat
  /\ ForeignFrames \in [Sides -> SUBSET [cmd : {"SYN", "FIN", "PSH", "NOP", "UPD"},
                              id : StreamId, data : {[lo |-> 0, hi |-> 0]}]]

MaxReceiveBuffer(e) == Conf[e].max_receive_buffer
FrameCap(e) == Conf[e].max_receive_channel_buffer_size

VARIABLES
  next_stream_id,   \* SessionInner::next_stream_id
  opens,            \* calls of open_stream so far (for MaxOpens)
  streams,          \* keys of SessionInner::streams; a key owns a data_tx
  closed,           \* SessionState::closed
  tokens,           \* SessionState::tokens
  data_received,    \* SessionState::data_received
  die,              \* each task's registration with SessionState::die
  frame_ch,         \* frame_tx/frame_rx, with the frames of waiting senders
  accept_ch,        \* the accept channel, with the one recv_loop waits to add
  wire,             \* frames written by an end and not yet read by its peer
  link,             \* "up", or "down" once the connection has broken
  recv_pc, recv_len, send_pc, keep_pc, accept_pc,  \* where the tasks are
  session_held,     \* the application still has a Session handle
  handle,           \* what the application (or a channel) does with a Stream
  data_ch,          \* data_tx/data_rx of a Stream
  current_chunk,    \* Stream::current_chunk
  polling,          \* the poll_read or poll_write that found the session open
  is_read_closed,   \* the Streams whose own is_read_closed flag is set
  is_write_closed,  \* the Streams whose is_write_closed flag is set
  sent,             \* history: bytes accepted by poll_write
  got,              \* history: positions of the bytes poll_read returned
  eof,              \* history: the Streams on which poll_read returned EOF
  fin_sent          \* history: the Streams whose FIN went into frame_ch

stateVars  == <<closed, tokens, data_received, die>>
chanVars   == <<frame_ch, accept_ch, wire, link>>
loopVars   == <<recv_pc, recv_len, send_pc, keep_pc, accept_pc>>
openVars   == <<next_stream_id, opens, streams, session_held>>
streamVars == <<handle, data_ch, current_chunk, polling, is_read_closed,
                is_write_closed>>
histVars   == <<sent, got, eof, fin_sent>>
vars == <<stateVars, chanVars, loopVars, openVars, streamVars, histVars>>

-----------------------------------------------------------------------------
(* Frames (frame.rs).  A NOP carries stream id 0; UPD is ignored on receipt.  *)
(* The version, and the bytes of a frame, are left to Codec.tla.              *)

\* max_frame_size.saturating_sub(HEADER_SIZE): what a PSH of e may carry.
MaxPayload(e) ==
  IF Conf[e].max_frame_size >= HEADER_SIZE
    THEN Conf[e].max_frame_size - HEADER_SIZE ELSE 0

Empty == [lo |-> 0, hi |-> 0]
Size(chunk) == chunk.hi - chunk.lo
Chunk == {c \in [lo : Nat, hi : Nat] : c.lo <= c.hi}

Frame(cmd, id, data) == [cmd |-> cmd, id |-> id, data |-> data]
Syn(id)       == Frame("SYN", id, Empty)
Fin(id)       == Frame("FIN", id, Empty)
Psh(id, data) == Frame("PSH", id, data)
Nop           == Frame("NOP", 0, Empty)
Upd(id)       == Frame("UPD", id, Empty)

\* Frame::validate, which the codec of e applies to every frame it encodes and to
\* every frame it decodes.
Validate(e, f) ==
  /\ HEADER_SIZE + Size(f.data) <= Conf[e].max_frame_size
  /\ f.cmd # "PSH" => Size(f.data) = 0
  /\ (f.cmd = "NOP") <=> (f.id = 0)

FrameSet == [cmd : {"SYN", "FIN", "PSH", "NOP", "UPD"}, id : StreamId,
             data : Chunk]

-----------------------------------------------------------------------------
(* flume's bounded channel of frames.  The messages of senders that wait in *)
(* send_async() stand, in arrival order, behind the FrameCap messages the    *)
(* channel holds; receiving one lets the next of them in.                    *)

HasRoom(e) == Len(frame_ch[e]) < FrameCap(e)
Waits(e, f) == \E i \in 1..Len(frame_ch[e]) : i > FrameCap(e) /\ frame_ch[e][i] = f
Withdraw(e, f) == \* a waiting sender's future is dropped
  LET s == frame_ch[e]
      i == CHOOSE k \in 1..Len(s) : k > FrameCap(e) /\ s[k] = f
  IN  SubSeq(s, 1, i - 1) \o SubSeq(s, i + 1, Len(s))

\* frame_rx lives in send_loop: when that task is gone, senders see Err.
Connected(e) == send_pc[e] # "done"

-----------------------------------------------------------------------------
(* SessionState.  Notify::notify_waiters() wakes the tasks that are waiting   *)
(* at that moment and leaves nothing behind for those that are not.           *)

Tasks == {"recv", "send", "keep", "accept"}
NotifyWaiters(d) == [t \in Tasks |-> IF d[t] = "armed" THEN "fired" ELSE d[t]]

\* A task's next notified() future, polled: armed; or dropped: none.
Arm(e, t)    == die' = [die EXCEPT ![e][t] = "armed"]
Disarm(e, t) == die' = [die EXCEPT ![e][t] = "none"]

\* SessionState::close(), d being the registrations of e's tasks by then.
CloseState(e, d) ==
  /\ closed' = [closed EXCEPT ![e] = TRUE]
  /\ die' = [die EXCEPT ![e] = IF closed[e] THEN d ELSE NotifyWaiters(d)]

\* A task that leaves its loop has dropped its own registration.
WithoutTask(d, t) == [d EXCEPT ![t] = "none"]

ReturnTokens(e, n) == tokens' = [tokens EXCEPT ![e] = @ + n]
TakeTokens(e, n)   == tokens' = [tokens EXCEPT ![e] = @ - n]

-----------------------------------------------------------------------------
(* What goes with its last owner. *)

\* The two halves of the transport are dropped with recv_loop and send_loop.
TransportDropped(e) == recv_pc[e] = "done" /\ send_pc[e] = "done"

\* The three tasks and the application's handles own the SessionInner, which
\* owns the map and with it every data_tx.
InnerDropped(e) ==
  /\ TransportDropped(e) /\ keep_pc[e] \in {"off", "done"}
  /\ ~session_held[e]

\* Mutant: close() drops the data channels as well.
DisconnectedByClose(e, id) == id \notin streams[e] \/ closed[e]

\* data_rx of a Stream has no sender left.
Disconnected(e, id) == id \notin streams[e] \/ InnerDropped(e)
==============================================================================
