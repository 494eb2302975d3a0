------------------------------ MODULE Session --------------------------------
(***************************************************************************)
(* Session (session.rs): open_stream, accept_stream and close, the handle  *)
(* of the application, and the three tasks every session spawns: recv_loop *)
(* with the frame handlers, send_loop and keep_alive_loop.  The tasks are  *)
(* cut at their await points.  A task that goes round its loop drops its   *)
(* registration with the close notifier and makes a new one.               *)
(***************************************************************************)
EXTENDS Stream

-----------------------------------------------------------------------------
(* open_stream *)

\* A new Stream for id, with empty buffers and its flags clear.
NewStream(e, id, owner) ==
  /\ streams' = [streams EXCEPT ![e] = @ \cup {id}]
  /\ handle' = [handle EXCEPT ![e][id] = owner]
  /\ data_ch' = [data_ch EXCEPT ![e][id] = << >>]
  /\ current_chunk' = [current_chunk EXCEPT ![e][id] = Empty]
  /\ is_read_closed' = [is_read_closed EXCEPT ![e] = @ \ {id}]
  /\ is_write_closed' = [is_write_closed EXCEPT ![e] = @ \ {id}]
  /\ Poll(e, id, "none")

\* The map entry is made before the SYN is sent.  Bound: no id comes round a
\* second time here; IdAllocation looks at what happens when one does.
OpenStream(e) ==
  LET id == next_stream_id[e]
  IN  /\ "open" \in AppOps[e]
      /\ session_held[e]
      /\ ~closed[e]
      /\ opens[e] < MaxOpens[e]
      /\ opens' = [opens EXCEPT ![e] = @ + 1]
      /\ next_stream_id' = [next_stream_id EXCEPT ![e] = FetchAdd2(id)]
      /\ \/ Overflows(id) /\ UNCHANGED <<streams, streamVars>>
         \/ /\ ~Overflows(id)
            /\ handle[e][id] = "none"
            /\ NewStream(e, id, "opening")
      /\ UNCHANGED <<stateVars, chanVars, loopVars, session_held, histVars>>

\* send_async(SYN): done at once, waiting for room, or Err and the new Stream
\* is dropped (its map entry is not).
OpenStreamSyn(e, id) ==
  /\ handle[e][id] = "opening"
  /\ \/ /\ Connected(e)
        /\ frame_ch' = [frame_ch EXCEPT ![e] = Append(@, Syn(id))]
        /\ handle' = [handle EXCEPT ![e][id] =
                        IF HasRoom(e) THEN "open" ELSE "syn_wait"]
        /\ UNCHANGED <<data_ch, current_chunk, polling, is_write_closed, fin_sent>>
     \/ ~Connected(e) /\ DropStream(e, id, frame_ch[e])
  /\ UNCHANGED <<stateVars, accept_ch, wire, link, loopVars, openVars,
                 is_read_closed, sent, got, eof>>

\* The waiting SYN was admitted; or the channel is gone, with it or without.
OpenStreamResume(e, id) ==
  /\ handle[e][id] = "syn_wait"
  /\ ~Waits(e, Syn(id))
  /\ \/ /\ handle' = [handle EXCEPT ![e][id] = "open"]
        /\ UNCHANGED <<frame_ch, data_ch, current_chunk, polling,
                       is_write_closed, fin_sent>>
     \/ ~Connected(e) /\ DropStream(e, id, frame_ch[e])
  /\ UNCHANGED <<stateVars, accept_ch, wire, link, loopVars, openVars,
                 is_read_closed, sent, got, eof>>

\* The application drops the future of open_stream() at its await: the SYN, if
\* it still waits, is withdrawn, then the Stream is dropped.
OpenStreamCancel(e, id) ==
  /\ "cancel" \in AppOps[e]
  /\ handle[e][id] = "syn_wait"
  /\ DropStream(e, id, IF Waits(e, Syn(id)) THEN Withdraw(e, Syn(id))
                                            ELSE frame_ch[e])
  /\ UNCHANGED <<stateVars, accept_ch, wire, link, loopVars, openVars,
                 is_read_closed, sent, got, eof>>

-----------------------------------------------------------------------------
(* accept_stream, called by one task of the application at a time *)

AcceptStream(e) == \* is_closed() is looked at before notified() exists
  /\ "accept" \in AppOps[e]
  /\ session_held[e]
  /\ accept_pc[e] = "idle"
  /\ ~closed[e]
  /\ accept_pc' = [accept_pc EXCEPT ![e] = "checked"]
  /\ UNCHANGED <<stateVars, chanVars, recv_pc, recv_len, send_pc, keep_pc,
                 openVars, streamVars, histVars>>

AcceptStreamWait(e) ==
  /\ accept_pc[e] = "checked"
  /\ accept_pc' = [accept_pc EXCEPT ![e] = "select"]
  /\ Arm(e, "accept")
  /\ UNCHANGED <<closed, tokens, data_received, chanVars, recv_pc, recv_len,
                 send_pc, keep_pc, openVars, streamVars, histVars>>

AcceptStreamTake(e) ==
  /\ accept_pc[e] \in {"checked", "select"}
  /\ accept_ch[e] # << >>
  /\ accept_ch' = [accept_ch EXCEPT ![e] = Tail(@)]
  /\ handle' = [handle EXCEPT ![e][Head(accept_ch[e])] = "open"]
  /\ accept_pc' = [accept_pc EXCEPT ![e] = "idle"]
  /\ Disarm(e, "accept")
  /\ UNCHANGED <<closed, tokens, data_received, frame_ch, wire, link, recv_pc,
                 recv_len, send_pc, keep_pc, openVars, data_ch, current_chunk,
                 polling, is_read_closed, is_write_closed, histVars>>

AcceptStreamClosed(e) ==
  /\ accept_pc[e] = "select"
  /\ die[e]["accept"] = "fired"
  /\ accept_pc' = [accept_pc EXCEPT ![e] = "idle"]
  /\ Disarm(e, "accept")
  /\ UNCHANGED <<closed, tokens, data_received, chanVars, recv_pc, recv_len,
                 send_pc, keep_pc, openVars, streamVars, histVars>>

-----------------------------------------------------------------------------
(* close, and dropping the last Session handle.  There is no Drop for        *)
(* Session, and each task owns an Arc of SessionInner: nothing else happens. *)

Close(e) ==
  /\ "close" \in AppOps[e]
  /\ session_held[e]
  /\ ~closed[e]
  /\ CloseState(e, die[e])
  /\ UNCHANGED <<tokens, data_received, chanVars, loopVars, openVars,
                 streamVars, histVars>>

DropSession(e) ==
  /\ "dropsession" \in AppOps[e]
  /\ session_held[e]
  /\ accept_pc[e] = "idle"
  /\ \A id \in StreamId : handle[e][id] \notin {"opening", "syn_wait"}
  /\ session_held' = [session_held EXCEPT ![e] = FALSE]
  /\ UNCHANGED <<stateVars, chanVars, loopVars, next_stream_id, opens, streams,
                 streamVars, histVars>>

-----------------------------------------------------------------------------
(* recv_loop and the frame handlers *)

\* Round the loop: a new notified() future, polled by the next select!.
RecvSelect(e) ==
  /\ recv_pc' = [recv_pc EXCEPT ![e] = "select"]
  /\ Arm(e, "recv")
  /\ UNCHANGED recv_len

\* Into an await of the handler, with or without a notified() of its own.
RecvAwait(e, pc, notified) ==
  /\ recv_pc' = [recv_pc EXCEPT ![e] = pc]
  /\ die' = [die EXCEPT ![e]["recv"] = notified]

RecvStart(e) == \* the spawned task is polled for the first time
  /\ recv_pc[e] = "start"
  /\ RecvSelect(e)
  /\ UNCHANGED <<closed, tokens, data_received, chanVars, send_pc, keep_pc,
                 accept_pc, openVars, streamVars, histVars>>

HandleSynIgnored(e) ==
  /\ RecvSelect(e)
  /\ UNCHANGED <<streams, accept_ch, tokens, streamVars>>

\* The new Stream goes to the accept channel, which holds up to cap of them.
HandleSynNew(e, f, cap) ==
  /\ NewStream(e, f.id, "queued")
  /\ accept_ch' = [accept_ch EXCEPT ![e] = Append(@, f.id)]
  /\ IF Len(accept_ch[e]) < cap
       THEN RecvSelect(e)
       ELSE RecvAwait(e, "syn", "none") /\ UNCHANGED recv_len
  /\ UNCHANGED tokens

\* Mutant: no test whether the stream exists.
HandleSynReplaces(e, f) ==
  \/ ~ValidPeerId(e, f.id) /\ HandleSynIgnored(e)
  \/ ValidPeerId(e, f.id) /\ HandleSynNew(e, f, AcceptCap)

\* Mutant: the map entry is forgotten.
HandleSynUnregistered(e, f) ==
  \/ ~ValidPeerId(e, f.id) /\ HandleSynIgnored(e)
  \/ /\ ValidPeerId(e, f.id)
     /\ handle' = [handle EXCEPT ![e][f.id] = "queued"]
     /\ accept_ch' = [accept_ch EXCEPT ![e] = Append(@, f.id)]
     /\ RecvSelect(e)
     /\ UNCHANGED <<tokens, streams, data_ch, current_chunk, polling,
                    is_read_closed, is_write_closed>>

\* Mutant: recv_loop goes on although the accept channel is over its bound.
HandleSynNoWait(e, f) ==
  \/ /\ ~ValidPeerId(e, f.id) \/ f.id \in streams[e]
     /\ HandleSynIgnored(e)
  \/ /\ ValidPeerId(e, f.id) /\ f.id \notin streams[e]
     /\ HandleSynNew(e, f, AcceptCap + 1)

\* A SYN with a bad id, or for a stream that exists, is an error that is only
\* logged.  A full accept channel holds recv_loop up.
HandleSyn(e, f) ==
  \/ /\ ~ValidPeerId(e, f.id) \/ f.id \in streams[e]
     /\ HandleSynIgnored(e)
  \/ /\ ValidPeerId(e, f.id) /\ f.id \notin streams[e]
     /\ HandleSynNew(e, f, AcceptCap)

\* Mutant: the FIN is noted, but the entry and its data_tx stay.
HandleFinKeepsEntry(e, f) ==
  /\ RecvSelect(e)
  /\ UNCHANGED <<streams, accept_ch, tokens, streamVars>>

\* The entry goes, and with it data_tx.  (The is_read_closed flag set here is
\* the one of the StreamState, which no Stream shares.)
HandleFin(e, f) ==
  /\ streams' = [streams EXCEPT ![e] = @ \ {f.id}]
  /\ RecvSelect(e)
  /\ UNCHANGED <<accept_ch, tokens, streamVars>>

\* handle_psh_frame without tokens takes what it does not have, and waits.
PshWait(e, n) ==
  /\ n > 0 /\ tokens[e] <= 0
  /\ TakeTokens(e, n)
  /\ RecvAwait(e, "psh", "armed")
  /\ recv_len' = [recv_len EXCEPT ![e] = n]
  /\ UNCHANGED <<streams, accept_ch, streamVars>>

\* The data goes to the Stream.
PshDeliver(e, f) ==
  /\ f.id \in streams[e] /\ handle[e][f.id] # "dropped"
  /\ data_ch' = [data_ch EXCEPT ![e][f.id] = Append(@, f.data)]
  /\ RecvSelect(e)
  /\ UNCHANGED <<streams, accept_ch, handle, current_chunk, polling,
                 is_read_closed, is_write_closed>>

\* Tokens are only taken when there are none.  Otherwise the data goes to its
\* Stream; if that is dropped, or unknown, the tokens are "returned".
HandlePsh(e, f) ==
  LET n == Size(f.data)
  IN  \/ n = 0 /\ RecvSelect(e) /\ UNCHANGED <<streams, tokens, accept_ch, streamVars>>
      \/ PshWait(e, n)
      \/ n > 0 /\ tokens[e] > 0 /\ PshDeliver(e, f) /\ UNCHANGED tokens
      \/ /\ n > 0 /\ tokens[e] > 0
         /\ f.id \notin streams[e] \/ handle[e][f.id] = "dropped"
         /\ ReturnTokens(e, n)
         /\ streams' = [streams EXCEPT ![e] = @ \ {f.id}]
         /\ RecvSelect(e)
         /\ UNCHANGED <<accept_ch, streamVars>>

HandleOther(e, f) == \* NOP, and UPD, which is ignored
  /\ RecvSelect(e)
  /\ UNCHANGED <<streams, accept_ch, tokens, streamVars>>

HandleFrame(e, f) ==
  \/ f.cmd = "SYN" /\ HandleSyn(e, f)
  \/ f.cmd = "FIN" /\ HandleFin(e, f)
  \/ f.cmd = "PSH" /\ HandlePsh(e, f)
  \/ f.cmd \in {"NOP", "UPD"} /\ HandleOther(e, f)

\* select! takes a ready branch at random: a frame may be read although the
\* close notification has fired, which is lost by that.
RecvFrame(e) ==
  /\ recv_pc[e] = "select"
  /\ wire[Peer(e)] # << >> /\ Validate(e, Head(wire[Peer(e)]))
  /\ wire' = [wire EXCEPT ![Peer(e)] = Tail(@)]
  /\ data_received' = [data_received EXCEPT ![e] = TRUE]
  /\ HandleFrame(e, Head(wire[Peer(e)]))
  /\ UNCHANGED <<closed, frame_ch, link, send_pc, keep_pc, accept_pc,
                 next_stream_id, opens, session_held, histVars>>

RecvSynResume(e) == \* the accept channel has taken the new Stream
  /\ recv_pc[e] = "syn"
  /\ Len(accept_ch[e]) <= AcceptCap
  /\ RecvSelect(e)
  /\ UNCHANGED <<closed, tokens, data_received, chanVars, send_pc, keep_pc,
                 accept_pc, openVars, streamVars, histVars>>

\* Mutant: the tokens taken for the frame are not given back.
RecvPshClosedKeepsTokens(e) ==
  /\ recv_pc[e] = "psh"
  /\ die[e]["recv"] = "fired"
  /\ RecvSelect(e)
  /\ UNCHANGED <<closed, tokens, data_received, chanVars, send_pc, keep_pc,
                 accept_pc, openVars, streamVars, histVars>>

\* The close notification ends the wait for tokens, and is used up by it.
RecvPshClosed(e) ==
  /\ recv_pc[e] = "psh"
  /\ die[e]["recv"] = "fired"
  /\ ReturnTokens(e, recv_len[e])
  /\ RecvSelect(e)
  /\ UNCHANGED <<closed, data_received, chanVars, send_pc, keep_pc, accept_pc,
                 openVars, streamVars, histVars>>

\* recv_loop leaves its loop: the notification, a read error, the end, or a
\* frame that does not decode.
RecvBreak(e) ==
  /\ recv_pc[e] = "select"
  /\ \/ die[e]["recv"] = "fired"
     \/ link = "down"
     \/ TransportDropped(Peer(e)) /\ wire[Peer(e)] = << >>
     \/ wire[Peer(e)] # << >> /\ ~Validate(e, Head(wire[Peer(e)]))
  /\ recv_pc' = [recv_pc EXCEPT ![e] = "done"]
  /\ UNCHANGED <<tokens, data_received, chanVars, recv_len, send_pc, keep_pc,
                 accept_pc, openVars, streamVars, histVars>>

\* Mutant: recv_loop ends without closing the session.
RecvExitSilent(e) == RecvBreak(e) /\ Disarm(e, "recv") /\ UNCHANGED closed

\* Whatever the reason, the session is closed.
RecvExit(e) == RecvBreak(e) /\ CloseState(e, WithoutTask(die[e], "recv"))

RecvLoop(e) ==
  RecvStart(e) \/ RecvFrame(e) \/ RecvSynResume(e) \/ RecvPshClosed(e)
    \/ RecvExit(e)

-----------------------------------------------------------------------------
(* send_loop *)

SendStart(e) ==
  /\ send_pc[e] = "start"
  /\ send_pc' = [send_pc EXCEPT ![e] = "select"]
  /\ Arm(e, "send")
  /\ UNCHANGED <<closed, tokens, data_received, chanVars, recv_pc, recv_len,
                 keep_pc, accept_pc, openVars, streamVars, histVars>>

\* sink.send(frame): returns at once, or waits for the transport to take it.
SendFrame(e) ==
  /\ send_pc[e] = "select"
  /\ frame_ch[e] # << >> /\ Validate(e, Head(frame_ch[e]))
  /\ link = "up"
  /\ frame_ch' = [frame_ch EXCEPT ![e] = Tail(@)]
  /\ wire' = [wire EXCEPT ![e] = Append(@, Head(frame_ch[e]))]
  /\ \/ Len(wire[e]) < WireCap /\ Arm(e, "send") /\ UNCHANGED send_pc
     \/ /\ Len(wire[e]) >= WireCap
        /\ Disarm(e, "send") /\ send_pc' = [send_pc EXCEPT ![e] = "sending"]
  /\ UNCHANGED <<closed, tokens, data_received, accept_ch, link, recv_pc,
                 recv_len, keep_pc, accept_pc, openVars, streamVars, histVars>>

SendResume(e) ==
  /\ send_pc[e] = "sending"
  /\ Len(wire[e]) <= WireCap
  /\ send_pc' = [send_pc EXCEPT ![e] = "select"]
  /\ Arm(e, "send")
  /\ UNCHANGED <<closed, tokens, data_received, chanVars, recv_pc, recv_len,
                 keep_pc, accept_pc, openVars, streamVars, histVars>>

\* send_loop leaves its loop: the notification, a write that fails, or a frame
\* that the codec refuses.  frame_rx and what it holds are gone.
SendBreak(e) ==
  /\ \/ send_pc[e] = "select" /\ die[e]["send"] = "fired"
     \/ /\ send_pc[e] = "select" /\ frame_ch[e] # << >>
        /\ ~Validate(e, Head(frame_ch[e]))
     \/ /\ link = "down" \/ TransportDropped(Peer(e))
        /\ \/ send_pc[e] = "select" /\ frame_ch[e] # << >>
           \/ send_pc[e] = "sending"
  /\ send_pc' = [send_pc EXCEPT ![e] = "done"]
  /\ frame_ch' = [frame_ch EXCEPT ![e] = << >>]
  /\ UNCHANGED <<tokens, data_received, accept_ch, wire, link, recv_pc, recv_len,
                 keep_pc, accept_pc, openVars, streamVars, histVars>>

\* Mutant: send_loop ends without closing the session.
SendExitSilent(e) == SendBreak(e) /\ Disarm(e, "send") /\ UNCHANGED closed

SendExit(e) == SendBreak(e) /\ CloseState(e, WithoutTask(die[e], "send"))

SendLoop(e) == SendStart(e) \/ SendFrame(e) \/ SendResume(e) \/ SendExit(e)

-----------------------------------------------------------------------------
(* keep_alive_loop.  The two intervals tick at any time. *)

KeepSelect(e) ==
  /\ keep_pc' = [keep_pc EXCEPT ![e] = "select"]
  /\ Arm(e, "keep")

KeepStart(e) ==
  /\ keep_pc[e] = "start"
  /\ KeepSelect(e)
  /\ UNCHANGED <<closed, tokens, data_received, chanVars, recv_pc, recv_len,
                 send_pc, accept_pc, openVars, streamVars, histVars>>

\* ping_interval ticks: a NOP is sent.
PingSent(e) ==
  /\ keep_pc[e] = "select"
  /\ Connected(e)
  /\ frame_ch' = [frame_ch EXCEPT ![e] = Append(@, Nop)]
  /\ UNCHANGED <<closed, tokens, data_received, accept_ch, wire, link, recv_pc,
                 recv_len, send_pc, accept_pc, openVars, streamVars, histVars>>

\* Mutant: the ping does not wait for room.
KeepPingNoWait(e) == PingSent(e) /\ KeepSelect(e)

\* The ping may have to wait for room; nothing else of the loop is looked at
\* until it has it.
KeepPing(e) ==
  /\ PingSent(e)
  /\ \/ HasRoom(e) /\ KeepSelect(e)
     \/ /\ ~HasRoom(e)
        /\ keep_pc' = [keep_pc EXCEPT ![e] = "ping"]
        /\ Disarm(e, "keep")

KeepPingResume(e) == \* the channel took the NOP, and may have gone since
  /\ keep_pc[e] = "ping"
  /\ ~Waits(e, Nop)
  /\ KeepSelect(e)
  /\ UNCHANGED <<closed, tokens, data_received, chanVars, recv_pc, recv_len,
                 send_pc, accept_pc, openVars, streamVars, histVars>>

\* timeout_interval ticks: the flag is read and reset.
TimeoutTick(e) ==
  /\ keep_pc[e] = "select"
  /\ data_received' = [data_received EXCEPT ![e] = FALSE]
  /\ UNCHANGED <<tokens, chanVars, recv_pc, recv_len, send_pc, accept_pc,
                 openVars, streamVars, histVars>>

\* No data since the last tick, and tokens to receive some.
TimedOut(e) == ~data_received[e] /\ tokens[e] > 0

\* Mutant: the timeout ends the task, but not the session.
KeepTimeoutSilent(e) ==
  /\ TimeoutTick(e) /\ UNCHANGED closed
  /\ \/ ~TimedOut(e) /\ KeepSelect(e)
     \/ /\ TimedOut(e)
        /\ Disarm(e, "keep") /\ keep_pc' = [keep_pc EXCEPT ![e] = "done"]

KeepTimeout(e) ==
  /\ TimeoutTick(e)
  /\ \/ ~TimedOut(e) /\ KeepSelect(e) /\ UNCHANGED closed
     \/ /\ TimedOut(e)
        /\ CloseState(e, WithoutTask(die[e], "keep"))
        /\ keep_pc' = [keep_pc EXCEPT ![e] = "done"]

\* The frame channel is gone, or the close notification arrives.
KeepExit(e) ==
  /\ \/ keep_pc[e] = "select" /\ die[e]["keep"] = "fired"
     \/ keep_pc[e] \in {"select", "ping"} /\ ~Connected(e)
  /\ keep_pc' = [keep_pc EXCEPT ![e] = "done"]
  /\ Disarm(e, "keep")
  /\ UNCHANGED <<closed, tokens, data_received, chanVars, recv_pc, recv_len,
                 send_pc, accept_pc, openVars, streamVars, histVars>>

KeepAliveLoop(e) ==
  KeepStart(e) \/ KeepPing(e) \/ KeepPingResume(e) \/ KeepTimeout(e)
    \/ KeepExit(e)

-----------------------------------------------------------------------------
(* The transport, and peers that are not this crate *)

LinkFail ==
  /\ LinkMayFail
  /\ link = "up"
  /\ link' = "down"
  /\ UNCHANGED <<stateVars, frame_ch, accept_ch, wire, loopVars, openVars,
                 streamVars, histVars>>

ForeignSend(e, f) ==
  /\ Len(wire[e]) < WireCap
  /\ wire' = [wire EXCEPT ![e] = Append(@, f)]
  /\ UNCHANGED <<stateVars, frame_ch, accept_ch, link, loopVars, openVars,
                 streamVars, histVars>>

-----------------------------------------------------------------------------
Init ==
  /\ next_stream_id = [e \in Sides |-> InitialId(e)]
  /\ opens = [e \in Sides |-> 0]
  /\ streams = [e \in Sides |-> {}]
  /\ closed = [e \in Sides |-> FALSE]
  /\ tokens = [e \in Sides |-> MaxReceiveBuffer(e)]
  /\ data_received = [e \in Sides |-> TRUE]
  /\ die = [e \in Sides |-> [t \in Tasks |-> "none"]]
  /\ frame_ch = [e \in Sides |-> << >>]
  /\ accept_ch = [e \in Sides |-> << >>]
  /\ wire = [e \in Sides |-> << >>]
  /\ link = "up"
  /\ recv_pc = [e \in Sides |-> "start"]
  /\ recv_len = [e \in Sides |-> 0]
  /\ send_pc = [e \in Sides |-> "start"]
  /\ keep_pc = [e \in Sides |-> IF Conf[e].enable_keep_alive
                                 THEN "start" ELSE "off"]
  /\ accept_pc = [e \in Sides |-> "idle"]
  /\ session_held = [e \in Sides |-> TRUE]
  /\ handle = [e \in Sides |-> [id \in StreamId |-> "none"]]
  /\ data_ch = [e \in Sides |-> [id \in StreamId |-> << >>]]
  /\ current_chunk = [e \in Sides |-> [id \in StreamId |-> Empty]]
  /\ polling = [e \in Sides |-> [id \in StreamId |-> "none"]]
  /\ is_read_closed = [e \in Sides |-> {}]
  /\ is_write_closed = [e \in Sides |-> {}]
  /\ sent = [e \in Sides |-> [id \in StreamId |-> 0]]
  /\ got = [e \in Sides |-> [id \in StreamId |-> << >>]]
  /\ eof = [e \in Sides |-> {}]
  /\ fin_sent = [e \in Sides |-> {}]

\* The tasks of the application that call open_stream and accept_stream.
OpenCall(e) ==
  \/ OpenStream(e)
  \/ \E id \in StreamId : \/ OpenStreamSyn(e, id)
                          \/ OpenStreamResume(e, id)
                          \/ OpenStreamCancel(e, id)

AcceptCall(e) ==
  AcceptStream(e) \/ AcceptStreamWait(e) \/ AcceptStreamTake(e)
    \/ AcceptStreamClosed(e)

Next ==
  \/ \E e \in Sides :
       \/ RecvLoop(e) \/ SendLoop(e) \/ KeepAliveLoop(e)
       \/ OpenCall(e) \/ AcceptCall(e)
       \/ \E id \in StreamId : StreamStep(e, id)
       \/ Close(e) \/ DropSession(e)
       \/ \E f \in ForeignFrames[e] : ForeignSend(e, f)
  \/ LinkFail

Spec == Init /\ [][Next]_vars

\* tokio polls a task again once something it waits for is ready.
FairTasks == \A e \in Sides : WF_vars(RecvLoop(e)) /\ WF_vars(SendLoop(e))

\* The task that has a Stream goes on with its call, and reads when it is in none.
StreamGoesOn(e, id) ==
  \/ OpenStreamSyn(e, id) \/ OpenStreamResume(e, id) \/ CloseStreamResume(e, id)
  \/ PollWriteFails(e, id) \/ \E n \in WriteSizes : PollWrite(e, id, n)
  \/ PollReadBegin(e, id) \/ \E n \in ReadSizes \ {0} : PollReadReturn(e, id, n)

\* The application goes on with the calls it has made, accepts in a loop and
\* keeps reading; it need not open, write, close or drop.
FairApp ==
  \A e \in Sides : /\ WF_vars(AcceptCall(e))
                   /\ \A id \in StreamId : WF_vars(StreamGoesOn(e, id))

FairSpec == Spec /\ FairTasks /\ FairApp

==============================================================================
