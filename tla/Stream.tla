------------------------------- MODULE Stream --------------------------------
(***************************************************************************)
(* Stream (stream.rs): one action per outcome of poll_read, poll_write,    *)
(* poll_shutdown, close and Drop that changes state.  Calls that fail or   *)
(* return Pending change nothing and are not steps.  A Stream is used      *)
(* through &mut self, so the operations on one Stream do not overlap.      *)
(* close() can be caught half-way at its await; poll_read and poll_write   *)
(* between their test of is_closed() and the rest, by other threads.       *)
(***************************************************************************)
EXTENDS SmuxState

Smaller(a, b) == IF a <= b THEN a ELSE b

Usable(e, id) == handle[e][id] = "open" /\ polling[e][id] = "none"

Poll(e, id, p) == polling' = [polling EXCEPT ![e][id] = p]

\* What a step leaves alone that only begins or ends a poll.
PollUnchanged ==
  UNCHANGED <<stateVars, chanVars, loopVars, openVars, handle, data_ch,
              current_chunk, is_read_closed, is_write_closed, histVars>>

\* Mutant: what a short read leaves of a chunk is thrown away.
RemainderLost(c, k) == Empty

\* What poll_read has left of chunk c once k bytes are copied out of it.
Remainder(c, k) == IF k = Size(c) THEN Empty ELSE [c EXCEPT !.lo = @ + k]

\* poll_read: up to n bytes of c, which came from current_chunk or data_rx.
CopyOut(e, id, n, c) ==
  LET k == Smaller(Size(c), n)
  IN  /\ current_chunk' = [current_chunk EXCEPT ![e][id] = Remainder(c, k)]
      /\ got' = [got EXCEPT ![e][id] = @ \o [i \in 1..k |-> c.lo + i]]
      /\ ReturnTokens(e, k)

\* The first tests of poll_read: what follows does not look at closed again.
PollReadBegin(e, id) ==
  /\ "read" \in AppOps[e] /\ Usable(e, id)
  /\ id \notin is_read_closed[e] /\ ~closed[e]
  /\ Poll(e, id, "read")
  /\ PollUnchanged

Reading(e, id) == handle[e][id] = "open" /\ polling[e][id] = "read"

ReadUnchanged ==
  UNCHANGED <<chanVars, loopVars, openVars, closed, data_received, die, handle,
              is_read_closed, is_write_closed, sent, eof, fin_sent>>

ReadQueue(e, id, n) ==
  /\ data_ch[e][id] # << >>
  /\ CopyOut(e, id, n, Head(data_ch[e][id]))
  /\ data_ch' = [data_ch EXCEPT ![e][id] = Tail(@)]

\* Mutant: the queue is served before what is left of the current chunk.
PollReadQueueFirst(e, id, n) ==
  Reading(e, id) /\ ReadQueue(e, id, n) /\ Poll(e, id, "none") /\ ReadUnchanged

\* poll_read returns data, or takes a chunk that a zero-length buffer cannot
\* take anything of.
PollRead(e, id, n) ==
  /\ Reading(e, id)
  /\ \/ /\ n > 0 /\ Size(current_chunk[e][id]) > 0
        /\ CopyOut(e, id, n, current_chunk[e][id])
        /\ UNCHANGED data_ch
     \/ /\ n = 0 \/ Size(current_chunk[e][id]) = 0
        /\ ReadQueue(e, id, n)
  /\ Poll(e, id, "none")
  /\ ReadUnchanged

ReportEof(e, id) ==
  /\ eof' = [eof EXCEPT ![e] = @ \cup {id}]
  /\ Poll(e, id, "none")
  /\ UNCHANGED <<stateVars, chanVars, loopVars, openVars, handle, data_ch,
                 current_chunk, is_read_closed, is_write_closed, sent, got,
                 fin_sent>>

\* Mutant: EOF is reported while chunks are still queued.
PollReadEofEarly(e, id, n) ==
  /\ n > 0 /\ Reading(e, id)
  /\ Size(current_chunk[e][id]) = 0
  /\ Disconnected(e, id)
  /\ ReportEof(e, id)

\* poll_read finds data_rx empty and disconnected: Ok with nothing copied.
PollReadEof(e, id, n) ==
  /\ n > 0 /\ Reading(e, id)
  /\ Size(current_chunk[e][id]) = 0
  /\ data_ch[e][id] = << >>
  /\ Disconnected(e, id)
  /\ ReportEof(e, id)

\* poll_read finds data_rx empty: Pending.  (With an empty buffer no outcome
\* of an empty data_rx tells the caller anything.)
PollReadPending(e, id, n) ==
  /\ Reading(e, id)
  /\ data_ch[e][id] = << >>
  /\ n = 0 \/ (Size(current_chunk[e][id]) = 0 /\ ~Disconnected(e, id))
  /\ Poll(e, id, "none")
  /\ PollUnchanged

\* What poll_write takes of a buffer of n bytes.  (Bound: up to MaxBytes.)
WriteSize(e, n) == Smaller(n, MaxPayload(e))
WithinBound(e, id, n) == sent[e][id] + WriteSize(e, n) <= MaxBytes

\* The first test of poll_write.
PollWriteBegin(e, id) ==
  /\ "write" \in AppOps[e] /\ Usable(e, id)
  /\ \E n \in WriteSizes : WithinBound(e, id, n)
  /\ ~closed[e]
  /\ Poll(e, id, "write")
  /\ PollUnchanged

Writing(e, id) == handle[e][id] = "open" /\ polling[e][id] = "write"

\* The rest of poll_write: a PSH frame with at most MaxPayload bytes of the
\* buffer, if the channel takes it.
WritePsh(e, id, n) ==
  LET k == WriteSize(e, n)
  IN  /\ Writing(e, id) /\ WithinBound(e, id, n)
      /\ Connected(e) /\ HasRoom(e)
      /\ frame_ch' = [frame_ch EXCEPT ![e] = Append(@,
           Psh(id, [lo |-> sent[e][id], hi |-> sent[e][id] + k]))]
      /\ sent' = [sent EXCEPT ![e][id] = @ + k]
      /\ Poll(e, id, "none")
      /\ UNCHANGED <<stateVars, accept_ch, wire, link, loopVars, openVars, handle,
                     data_ch, current_chunk, is_read_closed, is_write_closed,
                     got, eof, fin_sent>>

\* Mutant: the stream's own flag is not tested.
PollWriteAfterFin(e, id, n) == WritePsh(e, id, n)

PollWrite(e, id, n) == id \notin is_write_closed[e] /\ WritePsh(e, id, n)

\* poll_write without effect: the stream is closed for writing, the channel is
\* full (Pending) or gone.
PollWriteFails(e, id) ==
  /\ Writing(e, id)
  /\ id \in is_write_closed[e] \/ ~HasRoom(e) \/ ~Connected(e)
  /\ Poll(e, id, "none")
  /\ PollUnchanged

MarkWriteClosed(e, id) ==
  is_write_closed' = [is_write_closed EXCEPT ![e] = @ \cup {id}]

\* The FIN becomes a message of the channel, or of a sender waiting for it.
QueueFin(e, id) ==
  /\ frame_ch' = [frame_ch EXCEPT ![e] = Append(@, Fin(id))]
  /\ fin_sent' = [fin_sent EXCEPT ![e] = @ \cup {id}]

\* What closing the write side leaves alone.
CloseUnchanged ==
  UNCHANGED <<stateVars, accept_ch, wire, link, loopVars, next_stream_id, opens,
              session_held, data_ch, current_chunk, polling, is_read_closed, sent,
              got, eof>>

\* Mutant: the session's map entry goes with the local close.
PollShutdownForgets(e, id) ==
  /\ "shutdown" \in AppOps[e] /\ Usable(e, id)
  /\ id \notin is_write_closed[e]
  /\ MarkWriteClosed(e, id)
  /\ Connected(e) /\ HasRoom(e) /\ QueueFin(e, id)
  /\ streams' = [streams EXCEPT ![e] = @ \ {id}]
  /\ CloseUnchanged /\ UNCHANGED handle

\* poll_shutdown: Pending while the channel is full; done if it is gone.
PollShutdown(e, id) ==
  /\ "shutdown" \in AppOps[e] /\ Usable(e, id)
  /\ id \notin is_write_closed[e]
  /\ MarkWriteClosed(e, id)
  /\ \/ Connected(e) /\ HasRoom(e) /\ QueueFin(e, id)
     \/ ~Connected(e) /\ UNCHANGED <<frame_ch, fin_sent>>
  /\ CloseUnchanged /\ UNCHANGED <<streams, handle>>

\* Mutant: close() does not wait until the channel has taken the FIN.
CloseStreamNoWait(e, id) ==
  /\ "closestream" \in AppOps[e] /\ Usable(e, id)
  /\ id \notin is_write_closed[e]
  /\ MarkWriteClosed(e, id)
  /\ Connected(e) /\ QueueFin(e, id)
  /\ CloseUnchanged /\ UNCHANGED <<streams, handle>>

\* close(): the flag is set before the FIN has found its place.
CloseStream(e, id) ==
  /\ "closestream" \in AppOps[e] /\ Usable(e, id)
  /\ id \notin is_write_closed[e]
  /\ MarkWriteClosed(e, id)
  /\ IF Connected(e)
       THEN /\ QueueFin(e, id)
            /\ handle' = [handle EXCEPT ![e][id] =
                            IF HasRoom(e) THEN "open" ELSE "closing"]
       ELSE UNCHANGED <<frame_ch, fin_sent, handle>>
  /\ CloseUnchanged /\ UNCHANGED streams

\* close() resumes: its FIN was admitted, or the channel is gone.
CloseStreamResume(e, id) ==
  /\ handle[e][id] = "closing"
  /\ ~Waits(e, Fin(id))
  /\ handle' = [handle EXCEPT ![e][id] = "open"]
  /\ UNCHANGED <<stateVars, chanVars, loopVars, openVars, data_ch, current_chunk,
                 polling, is_read_closed, is_write_closed, histVars>>

\* The application drops the future of close() while its FIN still waits.
CloseStreamCancel(e, id) ==
  /\ "cancel" \in AppOps[e]
  /\ handle[e][id] = "closing"
  /\ Waits(e, Fin(id))
  /\ frame_ch' = [frame_ch EXCEPT ![e] = Withdraw(e, Fin(id))]
  /\ fin_sent' = [fin_sent EXCEPT ![e] = @ \ {id}]
  /\ handle' = [handle EXCEPT ![e][id] = "open"]
  /\ UNCHANGED <<stateVars, accept_ch, wire, link, loopVars, openVars, data_ch,
                 current_chunk, polling, is_read_closed, is_write_closed, sent,
                 got, eof>>

\* Stream::drop with ch as the frame channel: a FIN if there is room, then
\* data_rx and the unread data go.  No tokens are returned for them.
DropStream(e, id, ch) ==
  LET fin == id \notin is_write_closed[e] /\ Connected(e) /\ Len(ch) < FrameCap(e)
  IN  /\ frame_ch' = [frame_ch EXCEPT ![e] =
                        IF fin THEN Append(ch, Fin(id)) ELSE ch]
      /\ fin_sent' = [fin_sent EXCEPT ![e] = IF fin THEN @ \cup {id} ELSE @]
      /\ MarkWriteClosed(e, id)
      /\ handle' = [handle EXCEPT ![e][id] = "dropped"]
      /\ data_ch' = [data_ch EXCEPT ![e][id] = << >>]
      /\ current_chunk' = [current_chunk EXCEPT ![e][id] = Empty]
      /\ UNCHANGED polling

Drop(e, id) ==
  /\ "drop" \in AppOps[e]
  /\ Usable(e, id)
  /\ DropStream(e, id, frame_ch[e])
  /\ UNCHANGED <<stateVars, accept_ch, wire, link, loopVars, openVars,
                 is_read_closed, sent, got, eof>>

\* A poll_read that has begun: one of these is always possible.
PollReadReturn(e, id, n) ==
  PollRead(e, id, n) \/ PollReadEof(e, id, n) \/ PollReadPending(e, id, n)

StreamStep(e, id) ==
  \/ PollReadBegin(e, id)
  \/ \E n \in ReadSizes : PollReadReturn(e, id, n)
  \/ PollWriteBegin(e, id)
  \/ \E n \in WriteSizes : PollWrite(e, id, n)
  \/ PollWriteFails(e, id)
  \/ PollShutdown(e, id)
  \/ CloseStream(e, id)
  \/ CloseStreamResume(e, id)
  \/ CloseStreamCancel(e, id)
  \/ Drop(e, id)
==============================================================================
