------------------------- MODULE SessionSafetyProofs -------------------------
(***************************************************************************)
(* More about one session, whatever its peer sends: a session without a    *)
(* receive buffer delivers nothing, and open_stream() does not take the id *)
(* of a stream that exists.                                                *)
(***************************************************************************)
EXTENDS SessionProofs

USE DEF stateVars, chanVars, loopVars, openVars, streamVars, histVars, vars

-----------------------------------------------------------------------------
(* A session without a receive buffer.  It has no tokens to start with, so   *)
(* the first data makes recv_loop wait for some, and only a read of data     *)
(* that was delivered could return them.                                     *)

\* What NobodyReturnsTokens says of session d.
Unfed(d) == MaxReceiveBuffer(d) = 0 =>
  /\ \A id \in StreamId : data_ch[d][id] = << >> /\ Size(current_chunk[d][id]) = 0
  /\ tokens[d] = (IF recv_pc[d] = "psh" THEN -recv_len[d] ELSE 0)

\* A step that leaves the buffers, the tokens and recv_loop alone.
LEMMA UnfedUnchanged ==
  ASSUME UNCHANGED <<tokens, recv_pc, recv_len, data_ch, current_chunk>>,
         NEW d \in Sides, Unfed(d)
  PROVE  Unfed(d)'
BY DEF Unfed, MaxReceiveBuffer

\* A step that empties the buffers of one Stream.
LEMMA UnfedDropped ==
  ASSUME TypeOK, NEW e \in Sides, NEW id \in StreamId,
         data_ch' = [data_ch EXCEPT ![e][id] = << >>],
         current_chunk' = [current_chunk EXCEPT ![e][id] = Empty],
         NEW d \in Sides, Unfed(d), UNCHANGED <<tokens, recv_pc, recv_len>>
  PROVE  Unfed(d)'
BY EmptyType DEF Unfed, MaxReceiveBuffer, TypeOK, StreamOK

\* A received frame: data finds no tokens, so it is not delivered.
LEMMA RecvFrameUnfed ==
  ASSUME TypeOK, NEW e \in Sides, RecvFrame(e), NEW d \in Sides, Unfed(d)
  PROVE  Unfed(d)'
<1> DEFINE f == Head(wire[Peer(e)])
           n == Size(f.data)
<1>1. n \in Nat /\ f.id \in StreamId /\ recv_pc[e] = "select"
  BY ReadFrameType, ChunkSize DEF FrameSet, RecvFrame
<1>2. /\ tokens \in [Sides -> Int] /\ recv_len \in [Sides -> Nat]
      /\ recv_pc \in [Sides -> {"start", "select", "syn", "psh", "done"}]
  BY DEF TypeOK, StateOK, LoopOK
<1>3. MaxReceiveBuffer(d) = 0 /\ d = e => tokens[e] = 0
  BY <1>1 DEF Unfed
<1>4. ASSUME RecvSelect(e), UNCHANGED <<tokens, data_ch, current_chunk>>
      PROVE  Unfed(d)'
  BY <1>1, <1>2, <1>4 DEF RecvSelect, Unfed, MaxReceiveBuffer
<1>5. CASE HandleSyn(e, f)
  <2>1. CASE HandleSynIgnored(e)
    BY <1>4, <2>1 DEF HandleSynIgnored
  <2>2. CASE HandleSynNew(e, f, AcceptCap)
    <3>1. /\ data_ch' = [data_ch EXCEPT ![e][f.id] = << >>]
          /\ current_chunk' = [current_chunk EXCEPT ![e][f.id] = Empty]
          /\ UNCHANGED <<tokens, recv_len>>
      BY <2>2 DEF HandleSynNew, NewStream, RecvSelect
    <3>2. \/ recv_pc' = [recv_pc EXCEPT ![e] = "select"]
          \/ recv_pc' = [recv_pc EXCEPT ![e] = "syn"]
      BY <2>2 DEF HandleSynNew, RecvSelect, RecvAwait
    <3> QED
      BY <1>1, <1>2, <3>1, <3>2, EmptyType
         DEF Unfed, MaxReceiveBuffer, TypeOK, StreamOK
  <2> QED
    BY <1>5, <2>1, <2>2 DEF HandleSyn
<1>6. CASE HandleFin(e, f) \/ HandleOther(e, f)
  BY <1>4, <1>6 DEF HandleFin, HandleOther
<1>7. CASE HandlePsh(e, f)
  <2>1. CASE n = 0 /\ RecvSelect(e)
             /\ UNCHANGED <<streams, tokens, accept_ch, streamVars>>
    BY <1>4, <2>1
  <2>2. CASE PshWait(e, n)
    BY <1>1, <1>2, <1>3, <2>2
       DEF PshWait, TakeTokens, RecvAwait, Unfed, MaxReceiveBuffer
  <2>3. CASE /\ n > 0 /\ tokens[e] > 0
             /\ UNCHANGED current_chunk
             /\ \E c : data_ch' = [data_ch EXCEPT ![e][f.id] = c]
             /\ RecvSelect(e)
             /\ UNCHANGED tokens \/ ReturnTokens(e, n)
    <3>1. ~(MaxReceiveBuffer(d) = 0 /\ d = e)
      BY <1>2, <1>3, <2>3
    <3>2. d # e => /\ data_ch'[d] = data_ch[d] /\ tokens'[d] = tokens[d]
                   /\ recv_pc'[d] = recv_pc[d] /\ recv_len'[d] = recv_len[d]
      BY <1>2, <2>3 DEF RecvSelect, ReturnTokens, TypeOK, StreamOK
    <3> QED
      BY <2>3, <3>1, <3>2 DEF Unfed, MaxReceiveBuffer
  <2>4. CASE n > 0 /\ tokens[e] > 0 /\ PshDeliver(e, f) /\ UNCHANGED tokens
    BY <2>3, <2>4 DEF PshDeliver
  <2>5. CASE /\ n > 0 /\ tokens[e] > 0
             /\ ReturnTokens(e, n)
             /\ RecvSelect(e)
             /\ UNCHANGED streamVars
    <3>1. data_ch' = [data_ch EXCEPT ![e][f.id] = data_ch[e][f.id]]
      BY <1>1, <2>5 DEF TypeOK, StreamOK
    <3> QED
      BY <2>3, <2>5, <3>1
  <2> QED
    BY <1>7, <2>1, <2>2, <2>4, <2>5 DEF HandlePsh
<1> QED
  BY <1>5, <1>6, <1>7 DEF RecvFrame, HandleFrame

\* The operations of a Stream: without data there is nothing to read, so no
\* tokens are returned.
LEMMA StreamStepUnfed ==
  ASSUME TypeOK, NEW e \in Sides, NEW id \in StreamId, StreamStep(e, id),
         NEW d \in Sides, Unfed(d)
  PROVE  Unfed(d)'
<1>1. ASSUME NEW n \in ReadSizes, PollRead(e, id, n) PROVE Unfed(d)'
  <2>1. ~(MaxReceiveBuffer(d) = 0 /\ d = e)
    BY <1>1 DEF Unfed, PollRead, ReadQueue
  <2>2. d # e => /\ data_ch'[d] = data_ch[d] /\ tokens'[d] = tokens[d]
                 /\ current_chunk'[d] = current_chunk[d]
    BY <1>1 DEF PollRead, ReadQueue, CopyOut, ReturnTokens, TypeOK, StateOK,
                StreamOK
  <2>3. UNCHANGED <<recv_pc, recv_len>>
    BY <1>1 DEF PollRead, ReadUnchanged
  <2> QED
    BY <2>1, <2>2, <2>3 DEF Unfed, MaxReceiveBuffer
<1>2. CASE \/ \E n \in ReadSizes : PollReadEof(e, id, n)
           \/ \E n \in WriteSizes : PollWrite(e, id, n)
           \/ PollShutdown(e, id) \/ CloseStream(e, id)
           \/ CloseStreamResume(e, id) \/ CloseStreamCancel(e, id)
  BY <1>2, UnfedUnchanged DEF PollReadEof, ReportEof, PollWrite, WritePsh,
     PollShutdown, CloseStream, CloseUnchanged, CloseStreamResume,
     CloseStreamCancel
<1>3. CASE Drop(e, id)
  BY <1>3, UnfedDropped DEF Drop, DropStream
<1>4. CASE PollIdle(e, id)
  BY <1>4, UnfedUnchanged, PollIdleStep DEF PollUnchanged
<1> QED
  BY <1>1, <1>2, <1>3, <1>4, StreamStepCases

\* Every step keeps session d unfed.
LEMMA NextUnfed ==
  ASSUME TypeOK, [Next]_vars, NEW d \in Sides, Unfed(d)
  PROVE  Unfed(d)'
<1>1. CASE UNCHANGED vars
  BY <1>1, UnfedUnchanged
<1>2. ASSUME NEW e \in Sides, RecvStart(e) \/ RecvSynResume(e) \/ RecvExit(e)
      PROVE  Unfed(d)'
  BY <1>2 DEF RecvStart, RecvSynResume, RecvExit, RecvBreak, RecvSelect, Unfed,
              MaxReceiveBuffer, TypeOK, LoopOK
<1>3. ASSUME NEW e \in Sides, RecvPshClosed(e) PROVE Unfed(d)'
  BY <1>3 DEF RecvPshClosed, RecvSelect, ReturnTokens, Unfed, MaxReceiveBuffer,
              TypeOK, StateOK, LoopOK
<1>4. ASSUME NEW e \in Sides, RecvFrame(e) PROVE Unfed(d)'
  BY <1>4, RecvFrameUnfed
<1>5. ASSUME NEW e \in Sides, SendLoop(e) PROVE Unfed(d)'
  BY <1>5, UnfedUnchanged DEF SendLoop, SendStart, SendFrame, SendResume, SendExit,
     SendBreak
<1>6. ASSUME NEW e \in Sides, KeepAliveLoop(e) PROVE Unfed(d)'
  BY <1>6, UnfedUnchanged DEF KeepAliveLoop, KeepStart, KeepPing, PingSent,
     KeepPingResume, KeepTimeout, TimeoutTick, KeepExit
<1>7. ASSUME NEW e \in Sides, OpenStream(e) PROVE Unfed(d)'
  <2>1. next_stream_id[e] \in StreamId
    BY DEF TypeOK, OpenOK
  <2> QED
    BY <1>7, <2>1, UnfedUnchanged, UnfedDropped DEF OpenStream, NewStream
<1>8. ASSUME NEW e \in Sides, NEW id \in StreamId,
             \/ OpenStreamSyn(e, id) \/ OpenStreamResume(e, id)
             \/ OpenStreamCancel(e, id)
      PROVE  Unfed(d)'
  BY <1>8, UnfedUnchanged, UnfedDropped
     DEF OpenStreamSyn, OpenStreamResume, OpenStreamCancel, DropStream
<1>9. ASSUME NEW e \in Sides, AcceptCall(e) PROVE Unfed(d)'
  BY <1>9, UnfedUnchanged DEF AcceptCall, AcceptStream, AcceptStreamWait,
     AcceptStreamTake, AcceptStreamClosed
<1>10. ASSUME NEW e \in Sides, NEW id \in StreamId, StreamStep(e, id)
       PROVE  Unfed(d)'
  BY <1>10, StreamStepUnfed
<1>11. ASSUME NEW e \in Sides, \/ Close(e) \/ DropSession(e)
                               \/ \E f \in ForeignFrames[e] : ForeignSend(e, f)
       PROVE  Unfed(d)'
  BY <1>11, UnfedUnchanged DEF Close, DropSession, ForeignSend
<1>12. CASE LinkFail
  BY <1>12, UnfedUnchanged DEF LinkFail
<1> QED
  BY <1>1, <1>2, <1>3, <1>4, <1>5, <1>6, <1>7, <1>8, <1>9, <1>10, <1>11, <1>12
     DEF Next, RecvLoop, OpenCall

\* In a session whose configuration has no receive buffer no byte reaches any
\* Stream, and nothing gives recv_loop the tokens it waits for: only closing the
\* session ends the wait.
THEOREM NothingReturnsTokens == Spec => []NobodyReturnsTokens
<1>1. NobodyReturnsTokens <=> \A d \in Sides : Unfed(d)
  BY DEF NobodyReturnsTokens, Unfed
<1>2. NobodyReturnsTokens' <=> \A d \in Sides : Unfed(d)'
  BY DEF NobodyReturnsTokens, Unfed
<1>3. Init => NobodyReturnsTokens
  BY EmptyType DEF Init, NobodyReturnsTokens
<1>4. TypeOK /\ NobodyReturnsTokens /\ [Next]_vars => NobodyReturnsTokens'
  BY <1>1, <1>2, NextUnfed
<1> QED
  BY TypeCorrect, <1>3, <1>4, PTL DEF Spec

-----------------------------------------------------------------------------
(* The ids of open_stream().  A session's own streams have the parity of its *)
(* counter and lie below it; a SYN only adds an id of the other parity.      *)

\* fetch_add(2) on a counter that does not wrap now, and its parity even if so.
LEMMA CounterStep ==
  ASSUME NEW id \in StreamId
  PROVE  /\ id + 2 <= U32Max => FetchAdd2(id) = id + 2
         /\ FetchAdd2(id) % 2 = id % 2
<1>1. U32Max \in Nat /\ U32Max >= 3 /\ U32Max % 2 = 1 /\ id \in 0..U32Max
  BY U32MaxAssumption DEF StreamId
<1>2. CASE id + 2 <= U32Max
  <2>1. FetchAdd2(id) = id + 2
    BY <1>1, <1>2 DEF FetchAdd2
  <2> QED
    BY <1>1, <2>1
<1>3. CASE id + 2 > U32Max
  <2>1. FetchAdd2(id) = id + 1 - U32Max
    BY <1>1, <1>3 DEF FetchAdd2
  <2> QED
    BY <1>1, <1>3, <2>1
<1> QED
  BY <1>1, <1>2, <1>3

\* The id has the parity of the streams that e opens.
LocalId(e, id) == id % 2 = InitialId(e) % 2

\* Where the counter of e would be if it did not wrap.
Unwrapped(e) == InitialId(e) + 2 * opens[e]

\* Until the counter of d wraps it has that value, and the streams d has opened
\* lie below it.
CounterAhead(d) == Unwrapped(d) <= U32Max =>
  /\ next_stream_id[d] = Unwrapped(d)
  /\ \A id \in streams[d] : LocalId(d, id) => id < Unwrapped(d)

\* A step that opens nothing and adds no id of the session's own parity.
LEMMA AheadKept ==
  ASSUME TypeOK, UNCHANGED <<next_stream_id, opens>>, NEW d \in Sides,
         \A id \in streams'[d] : id \in streams[d] \/ ~LocalId(d, id),
         CounterAhead(d)
  PROVE  CounterAhead(d)'
BY DEF CounterAhead, Unwrapped, LocalId, InitialId

\* A received frame adds at most an id of the peer.
LEMMA RecvFrameAhead ==
  ASSUME TypeOK, NEW e \in Sides, RecvFrame(e), NEW d \in Sides, CounterAhead(d)
  PROVE  CounterAhead(d)'
<1> DEFINE f == Head(wire[Peer(e)])
<1>1. f.id \in StreamId /\ streams \in [Sides -> SUBSET StreamId]
  BY ReadFrameType DEF FrameSet, TypeOK, OpenOK
<1>2. UNCHANGED <<next_stream_id, opens>>
  BY DEF RecvFrame
<1>3. CASE UNCHANGED streams \/ streams' = [streams EXCEPT ![e] = @ \ {f.id}]
  BY <1>1, <1>2, <1>3, AheadKept
<1>4. CASE ValidPeerId(e, f.id) /\ streams' = [streams EXCEPT ![e] = @ \cup {f.id}]
  <2>1. ~LocalId(e, f.id)
    BY <1>1, <1>4 DEF ValidPeerId, LocalId, InitialId, Sides
  <2> QED
    BY <1>1, <1>2, <1>4, <2>1, AheadKept
<1> QED
  BY <1>3, <1>4 DEF RecvFrame, HandleFrame, HandleSyn, HandleSynIgnored,
     HandleSynNew, NewStream, HandleFin, HandlePsh, PshWait, PshDeliver, HandleOther

\* open_stream() moves the counter past the id it takes.
LEMMA OpenStreamAhead ==
  ASSUME TypeOK, NEW e \in Sides, OpenStream(e), NEW d \in Sides, CounterAhead(d)
  PROVE  CounterAhead(d)'
<1> DEFINE id == next_stream_id[e]
<1>1. /\ id \in StreamId /\ opens[e] \in Nat /\ InitialId(e) \in Nat
      /\ U32Max \in Nat /\ streams \in [Sides -> SUBSET StreamId]
  BY U32MaxAssumption DEF TypeOK, OpenOK, InitialId
<1>2. /\ opens' = [opens EXCEPT ![e] = @ + 1]
      /\ next_stream_id' = [next_stream_id EXCEPT ![e] = FetchAdd2(id)]
      /\ UNCHANGED streams \/ streams' = [streams EXCEPT ![e] = @ \cup {id}]
  BY DEF OpenStream, NewStream
<1>3. CASE d # e
  BY <1>1, <1>2, <1>3 DEF CounterAhead, Unwrapped, TypeOK, OpenOK
<1>4. CASE d = e
  <2> SUFFICES ASSUME Unwrapped(e)' <= U32Max
               PROVE  /\ next_stream_id'[e] = Unwrapped(e)'
                      /\ \A i \in streams'[e] : LocalId(e, i) => i < Unwrapped(e)'
    BY <1>4 DEF CounterAhead, LocalId, InitialId
  <2>1. Unwrapped(e)' = Unwrapped(e) + 2 /\ Unwrapped(e) \in Nat
    BY <1>1, <1>2 DEF Unwrapped, InitialId, TypeOK, OpenOK
  <2>2. Unwrapped(e) <= U32Max /\ id = Unwrapped(e) /\ id + 2 <= U32Max
    BY <1>1, <1>4, <2>1 DEF CounterAhead
  <2>3. FetchAdd2(id) = id + 2
    BY <1>1, <2>2, CounterStep
  <2>4. next_stream_id'[e] = id + 2
    BY <1>2, <2>3 DEF TypeOK, OpenOK
  <2>5. ASSUME NEW i \in streams'[e], LocalId(e, i) PROVE i < Unwrapped(e)'
    <3>1. i = id \/ i \in streams[e]
      BY <1>1, <1>2, <2>5
    <3>2. i \in StreamId
      BY <1>1, <3>1
    <3>3. i = id \/ i < Unwrapped(e)
      BY <1>4, <2>2, <2>5, <3>1 DEF CounterAhead
    <3> QED
      BY <2>1, <2>2, <3>2, <3>3 DEF StreamId
  <2> QED
    BY <2>1, <2>2, <2>4, <2>5
<1> QED
  BY <1>3, <1>4

\* Every step keeps the counter ahead of the session's own streams.
LEMMA NextAhead ==
  ASSUME TypeOK, [Next]_vars, NEW d \in Sides, CounterAhead(d)
  PROVE  CounterAhead(d)'
<1>0. ASSUME UNCHANGED <<next_stream_id, opens, streams>> PROVE CounterAhead(d)'
  BY <1>0, AheadKept
<1>1. CASE UNCHANGED vars
  BY <1>0, <1>1
<1>2. ASSUME NEW e \in Sides, RecvLoop(e) PROVE CounterAhead(d)'
  BY <1>0, <1>2, RecvFrameAhead DEF RecvLoop, RecvStart, RecvSynResume,
     RecvPshClosed, RecvExit, RecvBreak
<1>3. ASSUME NEW e \in Sides, SendLoop(e) \/ KeepAliveLoop(e)
      PROVE  CounterAhead(d)'
  BY <1>0, <1>3 DEF SendLoop, SendStart, SendFrame, SendResume, SendExit, SendBreak,
     KeepAliveLoop, KeepStart, KeepPing, PingSent, KeepPingResume, KeepTimeout,
     TimeoutTick, KeepExit
<1>4. ASSUME NEW e \in Sides, OpenCall(e) PROVE CounterAhead(d)'
  BY <1>0, <1>4, OpenStreamAhead
     DEF OpenCall, OpenStreamSyn, OpenStreamResume, OpenStreamCancel
<1>5. ASSUME NEW e \in Sides, AcceptCall(e) PROVE CounterAhead(d)'
  BY <1>0, <1>5 DEF AcceptCall, AcceptStream, AcceptStreamWait, AcceptStreamTake,
     AcceptStreamClosed
<1>6. ASSUME NEW e \in Sides, NEW id \in StreamId, StreamStep(e, id)
      PROVE  CounterAhead(d)'
  <2>1. CASE PollIdle(e, id)
    BY <1>0, <2>1, PollIdleStep DEF PollUnchanged
  <2> QED
    BY <1>0, <1>6, <2>1, StreamStepCases
       DEF PollRead, ReadUnchanged, PollReadEof, ReportEof, PollWrite, WritePsh,
           PollShutdown, CloseStream, CloseUnchanged, CloseStreamResume,
           CloseStreamCancel, Drop
<1>7. ASSUME NEW e \in Sides, \/ Close(e) \/ DropSession(e)
                              \/ \E f \in ForeignFrames[e] : ForeignSend(e, f)
      PROVE  CounterAhead(d)'
  BY <1>0, <1>7 DEF Close, DropSession, ForeignSend
<1>8. CASE LinkFail
  BY <1>0, <1>8 DEF LinkFail
<1> QED
  BY <1>1, <1>2, <1>3, <1>4, <1>5, <1>6, <1>7, <1>8 DEF Next

\* Until the u32 counter wraps, open_stream() never takes an id that is in the
\* session's map, whatever SYN frames the peer sends: insert() cannot replace the
\* entry of a live stream.
THEOREM FreshIds == Spec => []OpenNeverCollides
<1> DEFINE Inv == \A d \in Sides : CounterAhead(d)
<1>1. Init => Inv
  <2> SUFFICES ASSUME Init, NEW d \in Sides PROVE CounterAhead(d)
    OBVIOUS
  <2>1. /\ next_stream_id[d] = InitialId(d) /\ opens[d] = 0 /\ streams[d] = {}
        /\ InitialId(d) \in Nat
    BY DEF Init, InitialId
  <2> QED
    BY <2>1 DEF CounterAhead, Unwrapped
<1>2. TypeOK /\ Inv /\ [Next]_vars => Inv'
  BY NextAhead
<1>3. TypeOK /\ Inv => OpenNeverCollides
  <2> SUFFICES ASSUME TypeOK, Inv, NEW e \in Sides, Unwrapped(e) <= U32Max
               PROVE  next_stream_id[e] \notin streams[e]
    BY DEF OpenNeverCollides, Unwrapped
  <2>1. next_stream_id[e] = InitialId(e) + 2 * opens[e] /\ opens[e] \in Nat
    BY DEF CounterAhead, Unwrapped, TypeOK, OpenOK
  <2>2. LocalId(e, next_stream_id[e])
    BY <2>1 DEF LocalId, InitialId
  <2>3. ~(next_stream_id[e] < Unwrapped(e))
    BY <2>1 DEF Unwrapped, InitialId
  <2> QED
    BY <2>2, <2>3 DEF CounterAhead
<1> QED
  BY TypeCorrect, <1>1, <1>2, <1>3, PTL DEF Spec
==============================================================================
