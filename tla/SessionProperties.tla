------------------------- MODULE SessionProperties ---------------------------
(* What the model of Session.tla is checked for. *)
EXTENDS Session

StateOK ==
  /\ closed \in [Sides -> BOOLEAN]
  /\ tokens \in [Sides -> Int]
  /\ data_received \in [Sides -> BOOLEAN]
  /\ die \in [Sides -> [Tasks -> {"none", "armed", "fired"}]]

ChanOK ==
  /\ frame_ch \in [Sides -> Seq(FrameSet)]
  /\ accept_ch \in [Sides -> Seq(StreamId)]
  /\ wire \in [Sides -> Seq(FrameSet)]
  /\ link \in {"up", "down"}

LoopOK ==
  /\ recv_pc \in [Sides -> {"start", "select", "syn", "psh", "done"}]
  /\ recv_len \in [Sides -> Nat]
  /\ send_pc \in [Sides -> {"start", "select", "sending", "done"}]
  /\ keep_pc \in [Sides -> {"off", "start", "select", "ping", "done"}]
  /\ accept_pc \in [Sides -> {"idle", "checked", "select"}]

OpenOK ==
  /\ next_stream_id \in [Sides -> StreamId]
  /\ opens \in [Sides -> Nat]
  /\ streams \in [Sides -> SUBSET StreamId]
  /\ session_held \in [Sides -> BOOLEAN]

Handles == {"none", "opening", "syn_wait", "queued", "open", "closing", "dropped"}

StreamOK ==
  /\ handle \in [Sides -> [StreamId -> Handles]]
  /\ data_ch \in [Sides -> [StreamId -> Seq(Chunk)]]
  /\ current_chunk \in [Sides -> [StreamId -> Chunk]]
  /\ polling \in [Sides -> [StreamId -> {"none", "read", "write"}]]
  /\ is_read_closed \in [Sides -> SUBSET StreamId]
  /\ is_write_closed \in [Sides -> SUBSET StreamId]

HistOK ==
  /\ sent \in [Sides -> [StreamId -> Nat]]
  /\ got \in [Sides -> [StreamId -> Seq(Nat)]]
  /\ eof \in [Sides -> SUBSET StreamId]
  /\ fin_sent \in [Sides -> SUBSET StreamId]

\* Every field of the two sessions, their streams, channels and tasks keeps its
\* type; in particular stream ids stay in u32 and no chunk has negative length.
TypeOK == StateOK /\ ChanOK /\ LoopOK /\ OpenOK /\ StreamOK /\ HistOK

-----------------------------------------------------------------------------
(* The byte stream *)

\* What a reader has got is, at any time and whatever happened to channels,
\* tasks and the connection meanwhile, a prefix of what the peer's poll_write
\* accepted on that stream: nothing lost in the middle, twice or out of order.
DeliveredInOrder ==
  \A e \in Sides, id \in StreamId :
    /\ Len(got[e][id]) <= sent[Peer(e)][id]
    /\ \A k \in 1..Len(got[e][id]) : got[e][id][k] = k

\* poll_read reports EOF only when the peer has closed its write side and every
\* byte it wrote has been read, also when the session is closed, its tasks end or
\* the connection breaks after the call has found the session open.  Two races
\* are left: the last owner of the SessionInner goes in that moment, and every
\* data_tx with it; or a recv_loop without a receive buffer throws the data away
\* when close() wakes it, and handles the FIN behind.
EofIsTruthful ==
  \A e \in Sides : \A id \in eof[e] :
    \/ InnerDropped(e)
    \/ MaxReceiveBuffer(e) = 0 /\ closed[e]
    \/ /\ id \in is_write_closed[Peer(e)]
       /\ Len(got[e][id]) = sent[Peer(e)][id]

\* The frames of e that its peer has not read yet, in the order it will.
Pipe(e) == wire[e] \o frame_ch[e]

\* Of the frames of one stream in one direction, the SYN is the first and the
\* FIN the last, although open_stream(), close(), poll_write(), poll_shutdown()
\* and Drop put them into the channel in different ways.
SynFirstFinLast ==
  \A e \in Sides : LET p == Pipe(e) IN
    \A i \in 1..Len(p) : \A j \in (i+1)..Len(p) :
      (p[i].id = p[j].id /\ p[i].id # 0) =>
        p[i].cmd # "FIN" /\ p[j].cmd # "SYN"

\* A PSH never reaches a session that does not know its stream, unless the
\* receiving application has dropped the Stream: the map entry is made before
\* the peer can learn of the stream and goes away only behind its last data.
DataHasReceiver ==
  \A e \in Sides : LET p == Pipe(e) IN
    \A i \in 1..Len(p) : (p[i].cmd = "PSH" /\ Size(p[i].data) > 0) =>
      \/ p[i].id \in streams[Peer(e)]
      \/ handle[Peer(e)][p[i].id] = "dropped"
      \/ \E j \in 1..(i-1) : p[j] = Syn(p[i].id)

\* Each Stream waiting to be accepted is in the accept channel once, and nothing
\* else is; at most one of them holds recv_loop up.
AcceptQueueExact ==
  \A e \in Sides :
    /\ \A id \in StreamId :
         Cardinality({i \in 1..Len(accept_ch[e]) : accept_ch[e][i] = id})
           = IF handle[e][id] = "queued" THEN 1 ELSE 0
    /\ Len(accept_ch[e]) <= AcceptCap + 1
    /\ recv_pc[e] # "syn" => Len(accept_ch[e]) <= AcceptCap

\* Every frame that waits for room in the frame channel belongs to a call that
\* is suspended in send_async(), one frame to a call: a SYN to open_stream(), a
\* FIN to close(), a NOP to keep_alive_loop.  try_send() queues nothing beyond
\* the channel's bound.
WaitersAreSuspended ==
  \A e \in Sides :
    /\ \A i \in 1..Len(frame_ch[e]) : i > FrameCap(e) =>
         LET f == frame_ch[e][i]
         IN  \/ f.cmd = "SYN" /\ handle[e][f.id] = "syn_wait"
             \/ f.cmd = "FIN" /\ handle[e][f.id] = "closing"
             \/ f.cmd = "NOP" /\ keep_pc[e] = "ping"
    /\ \A i, j \in 1..Len(frame_ch[e]) :
         (i > FrameCap(e) /\ j > FrameCap(e) /\ frame_ch[e][i] = frame_ch[e][j]) => i = j

\* Until the counter has wrapped, the id open_stream() takes next is not in the
\* map: whatever ids arrive in SYN frames, a new local stream cannot replace the
\* entry of another.
OpenNeverCollides ==
  \A e \in Sides :
    InitialId(e) + 2 * opens[e] <= U32Max => next_stream_id[e] \notin streams[e]

\* The FIN of a stream is not lost on the way: as long as the connection and
\* the writer's send_loop live, a FIN that went into the channel is still
\* on its way or has removed the peer's map entry.
FinStaysUntilHandled ==
  \A e \in Sides : \A id \in fin_sent[e] :
    (send_pc[e] # "done" /\ id \in streams[Peer(e)]) =>
      \E i \in 1..Len(Pipe(e)) : Pipe(e)[i] = Fin(id)

\* Session implements BytePipe: the bytes of the pipe that end w writes are the
\* ones its peer reads.
BP == INSTANCE BytePipe WITH
  Writers <- Sides, Ids <- StreamId,
  written <- sent, finished <- is_write_closed,
  delivered <- [w \in Sides |-> got[Peer(w)]],
  ended <- [w \in Sides |-> eof[Peer(w)]]

\* Every step of the sessions, their tasks and the connection is, seen through
\* the Streams, a step of an ordered reliable byte pipe or no step of it.
ImplementsBytePipe == BP!Spec

-----------------------------------------------------------------------------
(* Tokens *)

\* Without a receive buffer no data reaches any Stream, so nothing is ever read
\* and no tokens come back while handle_psh_frame() waits for them: only the
\* close notification can end that wait.
NobodyReturnsTokens ==
  \A e \in Sides : MaxReceiveBuffer(e) = 0 =>
      /\ \A id \in StreamId : /\ data_ch[e][id] = << >>
                              /\ Size(current_chunk[e][id]) = 0
      /\ tokens[e] = (IF recv_pc[e] = "psh" THEN -recv_len[e] ELSE 0)

-----------------------------------------------------------------------------
(* Closing a session *)

\* A session one of whose tasks is gone says so: is_closed() is true.
GoneTaskMeansClosed ==
  \A e \in Sides :
    "done" \in {recv_pc[e], send_pc[e], keep_pc[e]} => closed[e]

-----------------------------------------------------------------------------
(* Liveness, under FairSpec *)

Dead(e) == closed[e] \/ closed[Peer(e)]

\* Every byte that poll_write accepted is read by the peer, if its application
\* goes on accepting and reading and the sessions stay up; a full frame
\* channel or transport delays it but cannot stop it, nor can the reader closing
\* its own write side.  (Writers stop after MaxBytes.)
EventuallyDelivered ==
  <>[](\A e \in Sides, id \in StreamId :
         \/ Len(got[Peer(e)][id]) = sent[e][id]
         \/ handle[Peer(e)][id] = "dropped"
         \/ Dead(e))

\* In the end every FIN that went into a frame channel has made the peer forget
\* the stream.
FinEventuallyHandled ==
  <>[](\A e \in Sides : \A id \in fin_sent[e] :
         id \notin streams[Peer(e)] \/ Dead(e))

\* When the connection breaks, both sessions notice and close.
BrokenLinkCloses == \A e \in Sides : link = "down" ~> closed[e]

-----------------------------------------------------------------------------
(* Statements of the documents that the code does not satisfy *)

\* session.rs on accept_stream: "Returns SmuxError::SessionClosed if the session
\* has been closed."  So a call under way when close() comes must return.
AcceptReturns == \A e \in Sides : closed[e] ~> accept_pc[e] = "idle"

\* The bytes recv_loop has delivered to a Stream and poll_read has not returned.
Unread(e, id) ==
  LET q == data_ch[e][id]
  IN  IF q = << >> THEN Size(current_chunk[e][id])
                   ELSE q[Len(q)].hi - Len(got[e][id])

\* specs/005-session.md: "When the recv_loop reads a PSH frame, it consumes
\* tokens equal to the frame's data length.  If the bucket is empty, the
\* recv_loop will pause".  So one frame at most goes beyond max_receive_buffer.
ReceiveBufferBounded ==
  \A e \in Sides, id \in StreamId :
    Unread(e, id) < MaxReceiveBuffer(e) + MaxPayload(Peer(e))
==============================================================================
