---------------------------- MODULE SessionProofs ----------------------------
(***************************************************************************)
(* Proofs about Session, for every configuration, every number of streams  *)
(* and bytes and every application: the types, that flow control is never  *)
(* reached, and that no task of a session ends without closing it.         *)
(***************************************************************************)
EXTENDS SessionProperties, TLAPS

USE DEF stateVars, chanVars, loopVars, openVars, streamVars, histVars, vars

-----------------------------------------------------------------------------
(* Data *)

\* The peer of an end is an end.
LEMMA PeerType == ASSUME NEW e \in Sides PROVE Peer(e) \in Sides
BY DEF Peer, Sides

\* The empty chunk is a chunk, of length 0.
LEMMA EmptyType == Empty \in Chunk /\ Size(Empty) = 0
BY DEF Empty, Chunk, Size

\* The frames that streams and open_stream() build are frames.
LEMMA FrameType ==
  ASSUME NEW id \in StreamId, NEW c \in Chunk
  PROVE  /\ Syn(id) \in FrameSet /\ Fin(id) \in FrameSet
         /\ Psh(id, c) \in FrameSet
BY EmptyType, U32MaxAssumption DEF Syn, Fin, Psh, Frame, FrameSet, StreamId

\* A chunk's length and bounds are natural numbers.
LEMMA ChunkSize ==
  ASSUME NEW c \in Chunk
  PROVE  Size(c) \in Nat /\ c.lo \in Nat /\ c.hi \in Nat /\ c.lo <= c.hi
BY DEF Chunk, Size

\* What poll_read leaves of a chunk is a chunk.
LEMMA RemainderType ==
  ASSUME NEW c \in Chunk, NEW k \in Nat, k <= Size(c)
  PROVE  Remainder(c, k) \in Chunk
BY EmptyType DEF Remainder, Chunk, Size

\* The sizes of a session's configuration are natural numbers.
LEMMA ConfType ==
  ASSUME NEW e \in Sides
  PROVE  MaxReceiveBuffer(e) \in Nat /\ MaxPayload(e) \in Nat
<1>1. Conf[e].max_receive_buffer \in Nat /\ Conf[e].max_frame_size \in Nat
  BY ConfigAssumption DEF ConfigRecord
<1> QED
  BY <1>1 DEF MaxReceiveBuffer, MaxPayload, HEADER_SIZE

\* Taking a waiting frame out of a frame channel leaves frames.
LEMMA WithdrawnType ==
  ASSUME TypeOK, NEW e \in Sides, NEW f, Waits(e, f)
  PROVE  Withdraw(e, f) \in Seq(FrameSet)
<1> DEFINE s == frame_ch[e]
           i == CHOOSE k \in 1..Len(s) : k > FrameCap(e) /\ s[k] = f
<1>0. s \in Seq(FrameSet)
  BY DEF TypeOK, ChanOK
<1>1. i \in 1..Len(s)
  BY DEF Waits
<1> HIDE DEF s, i
<1>2. /\ SubSeq(s, 1, i - 1) \in Seq(FrameSet)
      /\ SubSeq(s, i + 1, Len(s)) \in Seq(FrameSet)
  BY <1>0, <1>1
<1> QED
  BY <1>2 DEF Withdraw, s, i

\* The NOP of keep_alive_loop is a frame.
LEMMA NopType == Nop \in FrameSet
BY EmptyType, U32MaxAssumption DEF Nop, Frame, FrameSet, StreamId

\* Registering with the close notifier, or dropping the registration.
LEMMA ArmType ==
  ASSUME StateOK, NEW e \in Sides, NEW t \in Tasks, Arm(e, t) \/ Disarm(e, t)
  PROVE  die' \in [Sides -> [Tasks -> {"none", "armed", "fired"}]]
BY SMTT(30) DEF StateOK, Arm, Disarm

\* SessionState::close() by a task that ends.
LEMMA CloseStateType ==
  ASSUME StateOK, NEW e \in Sides, NEW t \in Tasks,
         CloseState(e, WithoutTask(die[e], t))
  PROVE  /\ closed' \in [Sides -> BOOLEAN]
         /\ die' \in [Sides -> [Tasks -> {"none", "armed", "fired"}]]
BY DEF StateOK, CloseState, WithoutTask, NotifyWaiters

\* Stream::drop, for any content of the frame channel.
LEMMA DropStreamType ==
  ASSUME TypeOK, NEW e \in Sides, NEW id \in StreamId,
         NEW ch \in Seq(FrameSet), DropStream(e, id, ch)
  PROVE  /\ frame_ch' \in [Sides -> Seq(FrameSet)]
         /\ handle' \in [Sides -> [StreamId -> Handles]]
         /\ data_ch' \in [Sides -> [StreamId -> Seq(Chunk)]]
         /\ current_chunk' \in [Sides -> [StreamId -> Chunk]]
         /\ polling' = polling
         /\ is_write_closed' \in [Sides -> SUBSET StreamId]
         /\ fin_sent' \in [Sides -> SUBSET StreamId]
<1>1. Fin(id) \in FrameSet
  BY FrameType, EmptyType
<1>2. frame_ch' \in [Sides -> Seq(FrameSet)]
  BY <1>1 DEF TypeOK, ChanOK, DropStream
<1>3. /\ handle' \in [Sides -> [StreamId -> Handles]]
      /\ data_ch' \in [Sides -> [StreamId -> Seq(Chunk)]]
  BY DEF TypeOK, StreamOK, DropStream, Handles
<1>4. current_chunk' \in [Sides -> [StreamId -> Chunk]]
  BY EmptyType DEF TypeOK, StreamOK, DropStream
<1>5. /\ is_write_closed' \in [Sides -> SUBSET StreamId]
      /\ fin_sent' \in [Sides -> SUBSET StreamId]
  BY DEF TypeOK, StreamOK, HistOK, DropStream, MarkWriteClosed
<1>6. polling' = polling
  BY DEF DropStream
<1> QED
  BY <1>2, <1>3, <1>4, <1>5, <1>6

\* A new Stream and its map entry.
LEMMA NewStreamType ==
  ASSUME TypeOK, NEW e \in Sides, NEW id \in StreamId, NEW owner \in Handles,
         NewStream(e, id, owner)
  PROVE  streams' \in [Sides -> SUBSET StreamId] /\ StreamOK'
<1>1. streams' \in [Sides -> SUBSET StreamId]
  BY DEF TypeOK, OpenOK, NewStream
<1>2. StreamOK'
  BY EmptyType DEF TypeOK, StreamOK, NewStream, Poll
<1> QED
  BY <1>1, <1>2

\* poll_read copying bytes out of a chunk; it returns tokens, never takes any.
LEMMA CopyOutType ==
  ASSUME TypeOK, NEW e \in Sides, NEW id \in StreamId, NEW n \in Nat,
         NEW c \in Chunk, CopyOut(e, id, n, c)
  PROVE  /\ current_chunk' \in [Sides -> [StreamId -> Chunk]]
         /\ got' \in [Sides -> [StreamId -> Seq(Nat)]]
         /\ tokens' \in [Sides -> Int]
         /\ \A d \in Sides : tokens'[d] >= tokens[d]
<1> DEFINE k == Smaller(Size(c), n)
           bytes == [i \in 1..k |-> c.lo + i]
<1>1. k \in Nat /\ k <= Size(c) /\ c.lo \in Nat
  BY ChunkSize DEF Smaller
<1>2. Remainder(c, k) \in Chunk
  BY <1>1, RemainderType
<1>3. bytes \in Seq(Nat)
  BY <1>1
<1>4. current_chunk' \in [Sides -> [StreamId -> Chunk]]
  BY <1>2 DEF TypeOK, StreamOK, CopyOut
<1>5. got' \in [Sides -> [StreamId -> Seq(Nat)]]
  <2>1. got[e][id] \o bytes \in Seq(Nat)
    BY <1>3 DEF TypeOK, HistOK
  <2> QED
    BY <2>1 DEF TypeOK, HistOK, CopyOut
<1>6. tokens' = [tokens EXCEPT ![e] = tokens[e] + k]
  BY DEF CopyOut, ReturnTokens
<1> QED
  BY <1>1, <1>4, <1>5, <1>6 DEF TypeOK, StateOK

\* RecvStart keeps the types.
LEMMA RecvStartType ==
  ASSUME TypeOK, NEW e \in Sides, RecvStart(e)
  PROVE  TypeOK'
<1>1. StateOK'
  BY DEF TypeOK, StateOK, RecvStart, RecvSelect, Arm, Tasks
<1>2. LoopOK'
  BY DEF TypeOK, LoopOK, RecvStart, RecvSelect, Arm
<1>3. ChanOK' /\ OpenOK' /\ StreamOK' /\ HistOK'
  BY DEF TypeOK, ChanOK, OpenOK, StreamOK, HistOK, RecvStart, RecvSelect, Arm
<1> QED
  BY <1>1, <1>2, <1>3 DEF TypeOK

\* RecvSynResume keeps the types.
LEMMA RecvSynResumeType ==
  ASSUME TypeOK, NEW e \in Sides, RecvSynResume(e)
  PROVE  TypeOK'
<1>1. StateOK'
  BY DEF TypeOK, StateOK, RecvSynResume, RecvSelect, Arm, Tasks
<1>2. LoopOK'
  BY DEF TypeOK, LoopOK, RecvSynResume, RecvSelect, Arm
<1>3. ChanOK' /\ OpenOK' /\ StreamOK' /\ HistOK'
  BY DEF TypeOK, ChanOK, OpenOK, StreamOK, HistOK, RecvSynResume, RecvSelect, Arm
<1> QED
  BY <1>1, <1>2, <1>3 DEF TypeOK

\* RecvPshClosed keeps the types.
LEMMA RecvPshClosedType ==
  ASSUME TypeOK, NEW e \in Sides, RecvPshClosed(e)
  PROVE  TypeOK'
<1>1. StateOK'
  BY DEF TypeOK, StateOK, RecvPshClosed, RecvSelect, Arm, LoopOK, Tasks, ReturnTokens
<1>2. LoopOK'
  BY DEF TypeOK, LoopOK, RecvPshClosed, RecvSelect, Arm
<1>3. ChanOK' /\ OpenOK' /\ StreamOK' /\ HistOK'
  BY DEF TypeOK, ChanOK, OpenOK, StreamOK, HistOK, RecvPshClosed, RecvSelect, Arm
<1> QED
  BY <1>1, <1>2, <1>3 DEF TypeOK

\* RecvExit keeps the types.
LEMMA RecvExitType ==
  ASSUME TypeOK, NEW e \in Sides, RecvExit(e)
  PROVE  TypeOK'
<1>1. StateOK'
  BY DEF TypeOK, StateOK, RecvExit, RecvBreak, CloseState, WithoutTask, NotifyWaiters, Tasks
<1>2. LoopOK'
  BY DEF TypeOK, LoopOK, RecvExit, RecvBreak
<1>3. ChanOK' /\ OpenOK' /\ StreamOK' /\ HistOK'
  BY DEF TypeOK, ChanOK, OpenOK, StreamOK, HistOK, RecvExit, RecvBreak
<1> QED
  BY <1>1, <1>2, <1>3 DEF TypeOK

\* SendStart keeps the types.
LEMMA SendStartType ==
  ASSUME TypeOK, NEW e \in Sides, SendStart(e)
  PROVE  TypeOK'
<1>1. StateOK'
  BY DEF TypeOK, StateOK, SendStart, Arm, Tasks
<1>2. LoopOK'
  BY DEF TypeOK, LoopOK, SendStart, Arm
<1>3. ChanOK' /\ OpenOK' /\ StreamOK' /\ HistOK'
  BY DEF TypeOK, ChanOK, OpenOK, StreamOK, HistOK, SendStart, Arm
<1> QED
  BY <1>1, <1>2, <1>3 DEF TypeOK

\* SendFrame keeps the types.
LEMMA SendFrameType ==
  ASSUME TypeOK, NEW e \in Sides, SendFrame(e)
  PROVE  TypeOK'
<1>1. StateOK'
  BY ArmType DEF TypeOK, StateOK, SendFrame, Tasks
<1>2. ChanOK'
  BY DEF TypeOK, ChanOK, SendFrame
<1>3. LoopOK'
  BY DEF TypeOK, LoopOK, SendFrame
<1>4. OpenOK' /\ StreamOK' /\ HistOK'
  BY DEF TypeOK, OpenOK, StreamOK, HistOK, SendFrame
<1> QED
  BY <1>1, <1>2, <1>3, <1>4 DEF TypeOK

\* SendResume keeps the types.
LEMMA SendResumeType ==
  ASSUME TypeOK, NEW e \in Sides, SendResume(e)
  PROVE  TypeOK'
<1>1. StateOK'
  BY DEF TypeOK, StateOK, SendResume, Arm, Tasks
<1>2. LoopOK'
  BY DEF TypeOK, LoopOK, SendResume, Arm
<1>3. ChanOK' /\ OpenOK' /\ StreamOK' /\ HistOK'
  BY DEF TypeOK, ChanOK, OpenOK, StreamOK, HistOK, SendResume, Arm
<1> QED
  BY <1>1, <1>2, <1>3 DEF TypeOK

\* SendExit keeps the types.
LEMMA SendExitType ==
  ASSUME TypeOK, NEW e \in Sides, SendExit(e)
  PROVE  TypeOK'
<1>1. StateOK'
  BY DEF TypeOK, StateOK, SendExit, SendBreak, CloseState, WithoutTask, NotifyWaiters, Tasks
<1>2. ChanOK'
  BY DEF TypeOK, ChanOK, SendExit, SendBreak
<1>3. LoopOK'
  BY DEF TypeOK, LoopOK, SendExit, SendBreak
<1>4. OpenOK' /\ StreamOK' /\ HistOK'
  BY DEF TypeOK, OpenOK, StreamOK, HistOK, SendExit, SendBreak
<1> QED
  BY <1>1, <1>2, <1>3, <1>4 DEF TypeOK

\* KeepStart keeps the types.
LEMMA KeepStartType ==
  ASSUME TypeOK, NEW e \in Sides, KeepStart(e)
  PROVE  TypeOK'
<1>1. StateOK'
  BY DEF TypeOK, StateOK, KeepStart, KeepSelect, Arm, Tasks
<1>2. LoopOK'
  BY DEF TypeOK, LoopOK, KeepStart, KeepSelect, Arm
<1>3. ChanOK' /\ OpenOK' /\ StreamOK' /\ HistOK'
  BY DEF TypeOK, ChanOK, OpenOK, StreamOK, HistOK, KeepStart, KeepSelect, Arm
<1> QED
  BY <1>1, <1>2, <1>3 DEF TypeOK

\* KeepPing keeps the types.
LEMMA KeepPingType ==
  ASSUME TypeOK, NEW e \in Sides, KeepPing(e)
  PROVE  TypeOK'
<1>1. StateOK'
  BY ArmType DEF TypeOK, StateOK, KeepPing, PingSent, KeepSelect, Tasks
<1>2. ChanOK'
  BY NopType DEF TypeOK, ChanOK, KeepPing, PingSent, KeepSelect
<1>3. LoopOK'
  BY DEF TypeOK, LoopOK, KeepPing, PingSent, KeepSelect
<1>4. OpenOK' /\ StreamOK' /\ HistOK'
  BY DEF TypeOK, OpenOK, StreamOK, HistOK, KeepPing, PingSent, KeepSelect
<1> QED
  BY <1>1, <1>2, <1>3, <1>4 DEF TypeOK

\* KeepPingResume keeps the types.
LEMMA KeepPingResumeType ==
  ASSUME TypeOK, NEW e \in Sides, KeepPingResume(e)
  PROVE  TypeOK'
<1>1. StateOK'
  BY DEF TypeOK, StateOK, KeepPingResume, KeepSelect, Arm, Tasks
<1>2. LoopOK'
  BY DEF TypeOK, LoopOK, KeepPingResume, KeepSelect, Arm
<1>3. ChanOK' /\ OpenOK' /\ StreamOK' /\ HistOK'
  BY DEF TypeOK, ChanOK, OpenOK, StreamOK, HistOK, KeepPingResume, KeepSelect, Arm
<1> QED
  BY <1>1, <1>2, <1>3 DEF TypeOK

\* KeepTimeout keeps the types.
LEMMA KeepTimeoutType ==
  ASSUME TypeOK, NEW e \in Sides, KeepTimeout(e)
  PROVE  TypeOK'
<1>1. StateOK'
  BY ArmType, CloseStateType DEF TypeOK, StateOK, KeepTimeout, TimeoutTick, KeepSelect, Tasks
<1>2. LoopOK'
  BY DEF TypeOK, LoopOK, KeepTimeout, TimeoutTick, KeepSelect
<1>3. ChanOK' /\ OpenOK' /\ StreamOK' /\ HistOK'
  BY DEF TypeOK, ChanOK, OpenOK, StreamOK, HistOK, KeepTimeout, TimeoutTick, KeepSelect
<1> QED
  BY <1>1, <1>2, <1>3 DEF TypeOK

\* KeepExit keeps the types.
LEMMA KeepExitType ==
  ASSUME TypeOK, NEW e \in Sides, KeepExit(e)
  PROVE  TypeOK'
<1>1. StateOK'
  BY DEF TypeOK, StateOK, KeepExit, Disarm, Tasks
<1>2. LoopOK'
  BY DEF TypeOK, LoopOK, KeepExit, Disarm
<1>3. ChanOK' /\ OpenOK' /\ StreamOK' /\ HistOK'
  BY DEF TypeOK, ChanOK, OpenOK, StreamOK, HistOK, KeepExit, Disarm
<1> QED
  BY <1>1, <1>2, <1>3 DEF TypeOK

\* AcceptStream keeps the types.
LEMMA AcceptStreamType ==
  ASSUME TypeOK, NEW e \in Sides, AcceptStream(e)
  PROVE  TypeOK'
<1>1. LoopOK'
  BY DEF TypeOK, LoopOK, AcceptStream
<1>2. StateOK' /\ ChanOK' /\ OpenOK' /\ StreamOK' /\ HistOK'
  BY DEF TypeOK, StateOK, ChanOK, OpenOK, StreamOK, HistOK, AcceptStream
<1> QED
  BY <1>1, <1>2 DEF TypeOK

\* AcceptStreamWait keeps the types.
LEMMA AcceptStreamWaitType ==
  ASSUME TypeOK, NEW e \in Sides, AcceptStreamWait(e)
  PROVE  TypeOK'
<1>1. StateOK'
  BY DEF TypeOK, StateOK, AcceptStreamWait, Arm, Tasks
<1>2. LoopOK'
  BY DEF TypeOK, LoopOK, AcceptStreamWait, Arm
<1>3. ChanOK' /\ OpenOK' /\ StreamOK' /\ HistOK'
  BY DEF TypeOK, ChanOK, OpenOK, StreamOK, HistOK, AcceptStreamWait, Arm
<1> QED
  BY <1>1, <1>2, <1>3 DEF TypeOK

\* AcceptStreamTake keeps the types.
LEMMA AcceptStreamTakeType ==
  ASSUME TypeOK, NEW e \in Sides, AcceptStreamTake(e)
  PROVE  TypeOK'
<1>1. StateOK'
  BY DEF TypeOK, StateOK, AcceptStreamTake, Disarm, Tasks
<1>2. ChanOK'
  BY DEF TypeOK, ChanOK, AcceptStreamTake, Disarm
<1>3. LoopOK'
  BY DEF TypeOK, LoopOK, AcceptStreamTake, Disarm
<1>4. StreamOK'
  BY DEF TypeOK, StreamOK, AcceptStreamTake, Disarm, ChanOK, Handles
<1>5. OpenOK' /\ HistOK'
  BY DEF TypeOK, OpenOK, HistOK, AcceptStreamTake, Disarm
<1> QED
  BY <1>1, <1>2, <1>3, <1>4, <1>5 DEF TypeOK

\* AcceptStreamClosed keeps the types.
LEMMA AcceptStreamClosedType ==
  ASSUME TypeOK, NEW e \in Sides, AcceptStreamClosed(e)
  PROVE  TypeOK'
<1>1. StateOK'
  BY DEF TypeOK, StateOK, AcceptStreamClosed, Disarm, Tasks
<1>2. LoopOK'
  BY DEF TypeOK, LoopOK, AcceptStreamClosed, Disarm
<1>3. ChanOK' /\ OpenOK' /\ StreamOK' /\ HistOK'
  BY DEF TypeOK, ChanOK, OpenOK, StreamOK, HistOK, AcceptStreamClosed, Disarm
<1> QED
  BY <1>1, <1>2, <1>3 DEF TypeOK

\* Close keeps the types.
LEMMA CloseType ==
  ASSUME TypeOK, NEW e \in Sides, Close(e)
  PROVE  TypeOK'
<1>1. StateOK'
  BY DEF TypeOK, StateOK, Close, CloseState, WithoutTask, NotifyWaiters, Tasks
<1>2. ChanOK' /\ LoopOK' /\ OpenOK' /\ StreamOK' /\ HistOK'
  BY DEF TypeOK, ChanOK, LoopOK, OpenOK, StreamOK, HistOK, Close
<1> QED
  BY <1>1, <1>2 DEF TypeOK

\* DropSession keeps the types.
LEMMA DropSessionType ==
  ASSUME TypeOK, NEW e \in Sides, DropSession(e)
  PROVE  TypeOK'
<1>1. OpenOK'
  BY DEF TypeOK, OpenOK, DropSession
<1>2. StateOK' /\ ChanOK' /\ LoopOK' /\ StreamOK' /\ HistOK'
  BY DEF TypeOK, StateOK, ChanOK, LoopOK, StreamOK, HistOK, DropSession
<1> QED
  BY <1>1, <1>2 DEF TypeOK

\* recv_loop going round its loop.
LEMMA RecvSelectType ==
  ASSUME TypeOK, NEW e \in Sides, RecvSelect(e)
  PROVE  /\ die' \in [Sides -> [Tasks -> {"none", "armed", "fired"}]]
         /\ recv_pc' \in [Sides -> {"start", "select", "syn", "psh", "done"}]
         /\ recv_len' \in [Sides -> Nat]
BY ArmType DEF TypeOK, LoopOK, RecvSelect, Tasks

\* What the frame handlers may change, and its types.
HandlerOK ==
  /\ die' \in [Sides -> [Tasks -> {"none", "armed", "fired"}]]
  /\ recv_pc' \in [Sides -> {"start", "select", "syn", "psh", "done"}]
  /\ recv_len' \in [Sides -> Nat]
  /\ streams' \in [Sides -> SUBSET StreamId]
  /\ accept_ch' \in [Sides -> Seq(StreamId)]
  /\ tokens' \in [Sides -> Int]
  /\ StreamOK'

\* handle_syn_frame keeps the types.
LEMMA HandleSynType ==
  ASSUME TypeOK, NEW e \in Sides, NEW f \in FrameSet, HandleSyn(e, f)
  PROVE  HandlerOK
<1>1. CASE HandleSynIgnored(e)
  BY <1>1, RecvSelectType
     DEF HandlerOK, HandleSynIgnored, TypeOK, StateOK, ChanOK, OpenOK, StreamOK
<1>2. CASE HandleSynNew(e, f, AcceptCap)
  <2>1. f.id \in StreamId /\ "queued" \in Handles
    BY DEF FrameSet, Handles
  <2>2. streams' \in [Sides -> SUBSET StreamId] /\ StreamOK'
    BY <1>2, <2>1, NewStreamType DEF HandleSynNew
  <2>3. accept_ch' \in [Sides -> Seq(StreamId)] /\ tokens' \in [Sides -> Int]
    BY <1>2, <2>1 DEF HandleSynNew, TypeOK, ChanOK, StateOK
  <2>4. CASE RecvSelect(e)
    BY <2>2, <2>3, <2>4, RecvSelectType DEF HandlerOK
  <2>5. CASE RecvAwait(e, "syn", "none") /\ UNCHANGED recv_len
    BY <2>2, <2>3, <2>5 DEF HandlerOK, RecvAwait, TypeOK, StateOK, LoopOK, Tasks
  <2> QED
    BY <1>2, <2>4, <2>5 DEF HandleSynNew
<1> QED
  BY <1>1, <1>2 DEF HandleSyn

\* handle_fin_frame keeps the types.
LEMMA HandleFinType ==
  ASSUME TypeOK, NEW e \in Sides, NEW f \in FrameSet, HandleFin(e, f)
  PROVE  HandlerOK
BY RecvSelectType
   DEF HandlerOK, HandleFin, TypeOK, StateOK, ChanOK, OpenOK, StreamOK

\* handle_psh_frame keeps the types.
LEMMA HandlePshType ==
  ASSUME TypeOK, NEW e \in Sides, NEW f \in FrameSet, HandlePsh(e, f)
  PROVE  HandlerOK
<1> DEFINE n == Size(f.data)
<1>1. n \in Nat /\ f.data \in Chunk /\ f.id \in StreamId
  BY ChunkSize DEF FrameSet
<1>2. CASE n = 0 /\ RecvSelect(e)
           /\ UNCHANGED <<streams, tokens, accept_ch, streamVars>>
  BY <1>2, RecvSelectType DEF HandlerOK, TypeOK, StateOK, ChanOK, OpenOK, StreamOK
<1>3. CASE PshWait(e, n)
  <2>1. tokens' \in [Sides -> Int] /\ recv_len' \in [Sides -> Nat]
    BY <1>1, <1>3 DEF PshWait, TakeTokens, TypeOK, StateOK, LoopOK
  <2> QED
    BY <1>3, <2>1 DEF HandlerOK, PshWait, RecvAwait, TypeOK, StateOK, ChanOK,
                      LoopOK, OpenOK, StreamOK, Tasks
<1>4. CASE PshDeliver(e, f) /\ UNCHANGED tokens
  <2>1. data_ch' \in [Sides -> [StreamId -> Seq(Chunk)]]
    BY <1>1, <1>4 DEF PshDeliver, TypeOK, StreamOK
  <2> QED
    BY <1>4, <2>1, RecvSelectType
       DEF HandlerOK, PshDeliver, TypeOK, StateOK, ChanOK, OpenOK, StreamOK
<1>5. CASE /\ ReturnTokens(e, n)
           /\ streams' = [streams EXCEPT ![e] = @ \ {f.id}]
           /\ RecvSelect(e)
           /\ UNCHANGED <<accept_ch, streamVars>>
  <2>1. tokens' \in [Sides -> Int]
    BY <1>1, <1>5 DEF ReturnTokens, TypeOK, StateOK
  <2>2. streams' \in [Sides -> SUBSET StreamId]
    BY <1>5 DEF TypeOK, OpenOK
  <2>3. StreamOK' /\ accept_ch' \in [Sides -> Seq(StreamId)]
    BY <1>5 DEF TypeOK, StreamOK, ChanOK
  <2> QED
    BY <1>5, <2>1, <2>2, <2>3, RecvSelectType DEF HandlerOK
<1> QED
  BY <1>2, <1>3, <1>4, <1>5 DEF HandlePsh

\* NOP and UPD frames keep the types.
LEMMA HandleOtherType ==
  ASSUME TypeOK, NEW e \in Sides, NEW f \in FrameSet, HandleOther(e, f)
  PROVE  HandlerOK
BY RecvSelectType
   DEF HandlerOK, HandleOther, TypeOK, StateOK, ChanOK, OpenOK, StreamOK

\* The frame that recv_loop reads next.
LEMMA ReadFrameType ==
  ASSUME TypeOK, NEW e \in Sides, RecvFrame(e)
  PROVE  /\ Head(wire[Peer(e)]) \in FrameSet
         /\ wire' \in [Sides -> Seq(FrameSet)]
BY PeerType DEF TypeOK, ChanOK, RecvFrame

\* RecvFrame keeps the types.
LEMMA RecvFrameType ==
  ASSUME TypeOK, NEW e \in Sides, RecvFrame(e)
  PROVE  TypeOK'
<1>1. HandlerOK
  BY ReadFrameType, HandleSynType, HandleFinType, HandlePshType, HandleOtherType
     DEF RecvFrame, HandleFrame
<1>2. StateOK'
  BY <1>1 DEF HandlerOK, TypeOK, StateOK, RecvFrame
<1>3. ChanOK'
  BY <1>1, ReadFrameType DEF HandlerOK, TypeOK, ChanOK, RecvFrame
<1>4. LoopOK'
  BY <1>1 DEF HandlerOK, TypeOK, LoopOK, RecvFrame
<1>5. OpenOK'
  BY <1>1 DEF HandlerOK, TypeOK, OpenOK, RecvFrame
<1>6. HistOK'
  BY DEF TypeOK, HistOK, RecvFrame
<1> QED
  BY <1>1, <1>2, <1>3, <1>4, <1>5, <1>6 DEF HandlerOK, TypeOK

\* OpenStream keeps the types.
LEMMA OpenStreamType ==
  ASSUME TypeOK, NEW e \in Sides, OpenStream(e)
  PROVE  TypeOK'
<1> DEFINE id == next_stream_id[e]
<1>1. id \in StreamId /\ FetchAdd2(id) \in StreamId /\ "opening" \in Handles
  BY U32MaxAssumption DEF TypeOK, OpenOK, StreamId, FetchAdd2, Handles
<1>2. streams' \in [Sides -> SUBSET StreamId] /\ StreamOK'
  BY <1>1, NewStreamType DEF OpenStream, TypeOK, OpenOK, StreamOK
<1>3. OpenOK'
  <2>1. next_stream_id' \in [Sides -> StreamId]
    BY <1>1 DEF OpenStream, TypeOK, OpenOK
  <2>2. opens' \in [Sides -> Nat]
    BY DEF OpenStream, TypeOK, OpenOK
  <2>3. session_held' \in [Sides -> BOOLEAN]
    BY DEF OpenStream, TypeOK, OpenOK
  <2> QED
    BY <1>2, <2>1, <2>2, <2>3 DEF OpenOK
<1>4. StateOK' /\ ChanOK' /\ LoopOK' /\ HistOK'
  BY DEF OpenStream, TypeOK, StateOK, ChanOK, LoopOK, HistOK
<1> QED
  BY <1>2, <1>3, <1>4 DEF TypeOK

\* A step that drops a Stream, and changes nothing else.
LEMMA DroppingType ==
  ASSUME TypeOK, NEW e \in Sides, NEW id \in StreamId, NEW ch \in Seq(FrameSet),
         DropStream(e, id, ch),
         UNCHANGED <<stateVars, accept_ch, wire, link, loopVars, openVars,
                     is_read_closed, sent, got, eof>>
  PROVE  TypeOK'
<1>1. StateOK' /\ LoopOK' /\ OpenOK'
  BY DEF TypeOK, StateOK, LoopOK, OpenOK
<1>2. ChanOK' /\ StreamOK' /\ HistOK'
  BY DropStreamType DEF TypeOK, ChanOK, StreamOK, HistOK
<1> QED
  BY <1>1, <1>2 DEF TypeOK

\* OpenStreamSyn keeps the types.
LEMMA OpenStreamSynType ==
  ASSUME TypeOK, NEW e \in Sides, NEW id \in StreamId, OpenStreamSyn(e, id)
  PROVE  TypeOK'
<1>1. frame_ch[e] \in Seq(FrameSet) /\ Syn(id) \in FrameSet
  BY FrameType, EmptyType DEF TypeOK, ChanOK
<1>2. CASE DropStream(e, id, frame_ch[e])
  BY <1>1, <1>2, DroppingType DEF OpenStreamSyn
<1>3. CASE /\ frame_ch' = [frame_ch EXCEPT ![e] = Append(@, Syn(id))]
           /\ handle' = [handle EXCEPT ![e][id] =
                           IF HasRoom(e) THEN "open" ELSE "syn_wait"]
           /\ UNCHANGED <<data_ch, current_chunk, polling, is_write_closed,
                          fin_sent>>
  <2>1. ChanOK'
    BY <1>1, <1>3 DEF OpenStreamSyn, TypeOK, ChanOK
  <2>2. StreamOK'
    BY <1>3 DEF OpenStreamSyn, TypeOK, StreamOK, Handles
  <2>3. StateOK' /\ LoopOK' /\ OpenOK' /\ HistOK'
    BY <1>3 DEF OpenStreamSyn, TypeOK, StateOK, LoopOK, OpenOK, HistOK
  <2> QED
    BY <2>1, <2>2, <2>3 DEF TypeOK
<1> QED
  BY <1>2, <1>3 DEF OpenStreamSyn

\* OpenStreamResume keeps the types.
LEMMA OpenStreamResumeType ==
  ASSUME TypeOK, NEW e \in Sides, NEW id \in StreamId, OpenStreamResume(e, id)
  PROVE  TypeOK'
<1>1. CASE DropStream(e, id, frame_ch[e])
  BY <1>1, DroppingType DEF OpenStreamResume, TypeOK, ChanOK
<1>2. CASE /\ handle' = [handle EXCEPT ![e][id] = "open"]
           /\ UNCHANGED <<frame_ch, data_ch, current_chunk, polling,
                          is_write_closed, fin_sent>>
  <2>1. StreamOK'
    BY <1>2 DEF OpenStreamResume, TypeOK, StreamOK, Handles
  <2>2. StateOK' /\ ChanOK' /\ LoopOK' /\ OpenOK' /\ HistOK'
    BY <1>2 DEF OpenStreamResume, TypeOK, StateOK, ChanOK, LoopOK, OpenOK, HistOK
  <2> QED
    BY <2>1, <2>2 DEF TypeOK
<1> QED
  BY <1>1, <1>2 DEF OpenStreamResume

\* OpenStreamCancel keeps the types.
LEMMA OpenStreamCancelType ==
  ASSUME TypeOK, NEW e \in Sides, NEW id \in StreamId, OpenStreamCancel(e, id)
  PROVE  TypeOK'
<1> DEFINE ch == IF Waits(e, Syn(id)) THEN Withdraw(e, Syn(id))
                                      ELSE frame_ch[e]
<1>1. ch \in Seq(FrameSet)
  BY WithdrawnType DEF TypeOK, ChanOK
<1>2. DropStream(e, id, ch)
  BY DEF OpenStreamCancel
<1> HIDE DEF ch
<1> QED
  BY <1>1, <1>2, DroppingType DEF OpenStreamCancel

\* The steps that only begin a poll_read or poll_write, or end it without effect.
PollIdle(e, id) ==
  \/ PollReadBegin(e, id) \/ PollWriteBegin(e, id) \/ PollWriteFails(e, id)
  \/ \E n \in ReadSizes : PollReadPending(e, id, n)

\* The steps of a Stream, these ones together.
LEMMA StreamStepCases ==
  ASSUME NEW e \in Sides, NEW id \in StreamId, StreamStep(e, id)
  PROVE  \/ PollIdle(e, id)
         \/ \E n \in ReadSizes : PollRead(e, id, n)
         \/ \E n \in ReadSizes : PollReadEof(e, id, n)
         \/ \E n \in WriteSizes : PollWrite(e, id, n)
         \/ PollShutdown(e, id) \/ CloseStream(e, id)
         \/ CloseStreamResume(e, id) \/ CloseStreamCancel(e, id) \/ Drop(e, id)
BY Zenon DEF StreamStep, PollReadReturn, PollIdle

\* They change nothing but where the poll is.
LEMMA PollIdleStep ==
  ASSUME NEW e \in Sides, NEW id \in StreamId, PollIdle(e, id)
  PROVE  PollUnchanged /\ \E p \in {"none", "read", "write"} : Poll(e, id, p)
<1>1. CASE PollReadBegin(e, id)
  BY <1>1 DEF PollReadBegin
<1>2. CASE PollWriteBegin(e, id)
  BY <1>2 DEF PollWriteBegin
<1>3. CASE PollWriteFails(e, id) \/ \E n \in ReadSizes : PollReadPending(e, id, n)
  BY <1>3 DEF PollWriteFails, PollReadPending
<1> QED
  BY <1>1, <1>2, <1>3 DEF PollIdle

\* They keep the types.
LEMMA PollIdleType ==
  ASSUME TypeOK, NEW e \in Sides, NEW id \in StreamId, PollIdle(e, id)
  PROVE  TypeOK'
<1>1. PICK p \in {"none", "read", "write"} : Poll(e, id, p)
  BY PollIdleStep
<1>2. PollUnchanged
  BY PollIdleStep
<1>3. StreamOK'
  BY <1>1, <1>2 DEF PollUnchanged, Poll, TypeOK, StreamOK
<1>4. StateOK' /\ ChanOK' /\ LoopOK' /\ OpenOK' /\ HistOK'
  BY <1>2 DEF PollUnchanged, TypeOK, StateOK, ChanOK, LoopOK, OpenOK, HistOK
<1> QED
  BY <1>3, <1>4 DEF TypeOK

\* PollRead keeps the types.
LEMMA PollReadType ==
  ASSUME TypeOK, NEW e \in Sides, NEW id \in StreamId, NEW n \in ReadSizes,
         PollRead(e, id, n)
  PROVE  TypeOK' /\ \A d \in Sides : tokens'[d] >= tokens[d]
<1>1. n \in Nat /\ current_chunk[e][id] \in Chunk /\ data_ch[e][id] \in Seq(Chunk)
  BY ConfigAssumption DEF TypeOK, StreamOK
<1>2. /\ current_chunk' \in [Sides -> [StreamId -> Chunk]]
      /\ got' \in [Sides -> [StreamId -> Seq(Nat)]]
      /\ tokens' \in [Sides -> Int]
      /\ \A d \in Sides : tokens'[d] >= tokens[d]
  <2>1. CASE CopyOut(e, id, n, current_chunk[e][id])
    BY <1>1, <2>1, CopyOutType
  <2>2. CASE ReadQueue(e, id, n)
    <3>1. Head(data_ch[e][id]) \in Chunk
      BY <1>1, <2>2 DEF ReadQueue
    <3> QED
      BY <1>1, <2>2, <3>1, CopyOutType DEF ReadQueue
  <2> QED
    BY <2>1, <2>2 DEF PollRead
<1>3. data_ch' \in [Sides -> [StreamId -> Seq(Chunk)]]
  <2>1. CASE UNCHANGED data_ch
    BY <2>1 DEF TypeOK, StreamOK
  <2>2. CASE ReadQueue(e, id, n)
    <3>1. Tail(data_ch[e][id]) \in Seq(Chunk)
      BY <1>1, <2>2 DEF ReadQueue
    <3> QED
      BY <2>2, <3>1 DEF ReadQueue, TypeOK, StreamOK
  <2> QED
    BY <2>1, <2>2 DEF PollRead
<1>4. StateOK'
  BY <1>2 DEF PollRead, ReadUnchanged, TypeOK, StateOK
<1>5. StreamOK' /\ HistOK'
  BY <1>2, <1>3 DEF PollRead, ReadUnchanged, Poll, TypeOK, StreamOK, HistOK
<1>6. ChanOK' /\ LoopOK' /\ OpenOK'
  BY DEF PollRead, ReadUnchanged, TypeOK, ChanOK, LoopOK, OpenOK
<1> QED
  BY <1>2, <1>4, <1>5, <1>6 DEF TypeOK

\* PollReadEof keeps the types.
LEMMA PollReadEofType ==
  ASSUME TypeOK, NEW e \in Sides, NEW id \in StreamId, NEW n \in ReadSizes,
         PollReadEof(e, id, n)
  PROVE  TypeOK'
<1>1. HistOK'
  BY DEF PollReadEof, ReportEof, TypeOK, HistOK
<1>2. StreamOK'
  BY DEF PollReadEof, ReportEof, Poll, TypeOK, StreamOK
<1>3. StateOK' /\ ChanOK' /\ LoopOK' /\ OpenOK'
  BY DEF PollReadEof, ReportEof, TypeOK, StateOK, ChanOK, LoopOK, OpenOK
<1> QED
  BY <1>1, <1>2, <1>3 DEF TypeOK

\* PollWrite keeps the types.
LEMMA PollWriteType ==
  ASSUME TypeOK, NEW e \in Sides, NEW id \in StreamId, NEW n \in WriteSizes,
         PollWrite(e, id, n)
  PROVE  TypeOK'
<1> DEFINE k == WriteSize(e, n)
           c == [lo |-> sent[e][id], hi |-> sent[e][id] + k]
<1>1. k \in Nat /\ sent[e][id] \in Nat
  BY ConfigAssumption, ConfType DEF WriteSize, Smaller, TypeOK, HistOK
<1>2. c \in Chunk
  BY <1>1 DEF Chunk
<1>3. Psh(id, c) \in FrameSet
  BY <1>2, FrameType
<1>4. /\ frame_ch' = [frame_ch EXCEPT ![e] = Append(@, Psh(id, c))]
      /\ sent' = [sent EXCEPT ![e][id] = @ + k]
  BY DEF PollWrite, WritePsh
<1> HIDE DEF c, k
<1>5. ChanOK'
  BY <1>3, <1>4 DEF PollWrite, WritePsh, TypeOK, ChanOK
<1>6. HistOK'
  BY <1>1, <1>4 DEF PollWrite, WritePsh, TypeOK, HistOK
<1>7. StreamOK'
  BY DEF PollWrite, WritePsh, Poll, TypeOK, StreamOK
<1>8. StateOK' /\ LoopOK' /\ OpenOK'
  BY DEF PollWrite, WritePsh, TypeOK, StateOK, LoopOK, OpenOK
<1> QED
  BY <1>5, <1>6, <1>7, <1>8 DEF TypeOK

\* A step that marks a Stream write-closed and perhaps queues its FIN.
LEMMA FinType ==
  ASSUME TypeOK, NEW e \in Sides, NEW id \in StreamId, MarkWriteClosed(e, id),
         QueueFin(e, id) \/ UNCHANGED <<frame_ch, fin_sent>>
  PROVE  /\ frame_ch' \in [Sides -> Seq(FrameSet)]
         /\ is_write_closed' \in [Sides -> SUBSET StreamId]
         /\ fin_sent' \in [Sides -> SUBSET StreamId]
<1>1. Fin(id) \in FrameSet
  BY FrameType, EmptyType
<1>2. is_write_closed' \in [Sides -> SUBSET StreamId]
  BY DEF MarkWriteClosed, TypeOK, StreamOK
<1>3. CASE QueueFin(e, id)
  <2>1. frame_ch' \in [Sides -> Seq(FrameSet)]
    BY <1>1, <1>3 DEF QueueFin, TypeOK, ChanOK
  <2>2. fin_sent' \in [Sides -> SUBSET StreamId]
    BY <1>3 DEF QueueFin, TypeOK, HistOK
  <2> QED
    BY <1>2, <2>1, <2>2
<1>4. CASE UNCHANGED <<frame_ch, fin_sent>>
  BY <1>2, <1>4 DEF TypeOK, ChanOK, HistOK
<1> QED
  BY <1>3, <1>4

\* PollShutdown keeps the types.
LEMMA PollShutdownType ==
  ASSUME TypeOK, NEW e \in Sides, NEW id \in StreamId, PollShutdown(e, id)
  PROVE  TypeOK'
<1>1. ChanOK' /\ StreamOK' /\ HistOK'
  BY FinType DEF PollShutdown, CloseUnchanged, TypeOK, ChanOK, StreamOK, HistOK
<1>2. StateOK' /\ LoopOK' /\ OpenOK'
  BY DEF PollShutdown, CloseUnchanged, TypeOK, StateOK, LoopOK, OpenOK
<1> QED
  BY <1>1, <1>2 DEF TypeOK

\* CloseStream keeps the types.
LEMMA CloseStreamType ==
  ASSUME TypeOK, NEW e \in Sides, NEW id \in StreamId, CloseStream(e, id)
  PROVE  TypeOK'
<1>1. /\ frame_ch' \in [Sides -> Seq(FrameSet)]
      /\ is_write_closed' \in [Sides -> SUBSET StreamId]
      /\ fin_sent' \in [Sides -> SUBSET StreamId]
  BY FinType DEF CloseStream
<1>2. handle' \in [Sides -> [StreamId -> Handles]]
  <2>1. CASE Connected(e)
    <3>1. (IF HasRoom(e) THEN "open" ELSE "closing") \in Handles
      BY DEF Handles
    <3>2. handle' = [handle EXCEPT ![e][id] =
                       IF HasRoom(e) THEN "open" ELSE "closing"]
      BY <2>1 DEF CloseStream
    <3> QED
      BY <3>1, <3>2 DEF TypeOK, StreamOK
  <2>2. CASE ~Connected(e)
    BY <2>2 DEF CloseStream, TypeOK, StreamOK
  <2> QED
    BY <2>1, <2>2
<1>3. ChanOK' /\ StreamOK' /\ HistOK'
  BY <1>1, <1>2 DEF CloseStream, CloseUnchanged, TypeOK, ChanOK, StreamOK, HistOK
<1>4. StateOK' /\ LoopOK' /\ OpenOK'
  BY DEF CloseStream, CloseUnchanged, TypeOK, StateOK, LoopOK, OpenOK
<1> QED
  BY <1>3, <1>4 DEF TypeOK

\* CloseStreamResume keeps the types.
LEMMA CloseStreamResumeType ==
  ASSUME TypeOK, NEW e \in Sides, NEW id \in StreamId, CloseStreamResume(e, id)
  PROVE  TypeOK'
<1>1. StreamOK'
  BY DEF CloseStreamResume, TypeOK, StreamOK, Handles
<1>2. StateOK' /\ ChanOK' /\ LoopOK' /\ OpenOK' /\ HistOK'
  BY DEF CloseStreamResume, TypeOK, StateOK, ChanOK, LoopOK, OpenOK, HistOK
<1> QED
  BY <1>1, <1>2 DEF TypeOK

\* CloseStreamCancel keeps the types.
LEMMA CloseStreamCancelType ==
  ASSUME TypeOK, NEW e \in Sides, NEW id \in StreamId, CloseStreamCancel(e, id)
  PROVE  TypeOK'
<1>1. Withdraw(e, Fin(id)) \in Seq(FrameSet)
  BY WithdrawnType DEF CloseStreamCancel
<1>2. ChanOK'
  BY <1>1 DEF CloseStreamCancel, TypeOK, ChanOK
<1>3. StreamOK' /\ HistOK'
  BY DEF CloseStreamCancel, TypeOK, StreamOK, HistOK, Handles
<1>4. StateOK' /\ LoopOK' /\ OpenOK'
  BY DEF CloseStreamCancel, TypeOK, StateOK, LoopOK, OpenOK
<1> QED
  BY <1>2, <1>3, <1>4 DEF TypeOK

\* Drop keeps the types.
LEMMA DropType ==
  ASSUME TypeOK, NEW e \in Sides, NEW id \in StreamId, Drop(e, id)
  PROVE  TypeOK'
BY DroppingType DEF Drop, TypeOK, ChanOK

\* LinkFail keeps the types.
LEMMA LinkFailType == ASSUME TypeOK, LinkFail PROVE TypeOK'
BY DEF LinkFail, TypeOK, StateOK, ChanOK, LoopOK, OpenOK, StreamOK, HistOK

\* ForeignSend keeps the types.
LEMMA ForeignSendType ==
  ASSUME TypeOK, NEW e \in Sides, NEW f \in ForeignFrames[e], ForeignSend(e, f)
  PROVE  TypeOK'
<1>1. f \in FrameSet
  BY ConfigAssumption, EmptyType DEF FrameSet, Empty
<1>2. ChanOK'
  BY <1>1 DEF ForeignSend, TypeOK, ChanOK
<1>3. StateOK' /\ LoopOK' /\ OpenOK' /\ StreamOK' /\ HistOK'
  BY DEF ForeignSend, TypeOK, StateOK, LoopOK, OpenOK, StreamOK, HistOK
<1> QED
  BY <1>2, <1>3 DEF TypeOK

\* The types hold when both sessions have been created.
LEMMA InitType == Init => TypeOK
<1> SUFFICES ASSUME Init PROVE TypeOK
  OBVIOUS
<1>1. \A e \in Sides : InitialId(e) \in StreamId
  BY U32MaxAssumption DEF InitialId, StreamId
<1>2. StateOK
  BY ConfType DEF Init, StateOK, Tasks
<1>3. ChanOK
  BY DEF Init, ChanOK
<1>4. LoopOK
  BY DEF Init, LoopOK
<1>5. OpenOK
  BY <1>1 DEF Init, OpenOK
<1>6. StreamOK
  BY EmptyType DEF Init, StreamOK, Handles
<1>7. HistOK
  BY DEF Init, HistOK
<1> QED
  BY <1>2, <1>3, <1>4, <1>5, <1>6, <1>7 DEF TypeOK

-----------------------------------------------------------------------------
\* Every step of the two ends, their applications and the connection keeps the
\* types.
LEMMA NextType == TypeOK /\ [Next]_vars => TypeOK'
<1> SUFFICES ASSUME TypeOK, [Next]_vars PROVE TypeOK'
  OBVIOUS
<1>1. CASE UNCHANGED vars
  BY <1>1 DEF TypeOK, StateOK, ChanOK, LoopOK, OpenOK, StreamOK, HistOK
<1>2. ASSUME NEW e \in Sides, RecvLoop(e) PROVE TypeOK'
  BY <1>2, RecvStartType, RecvFrameType, RecvSynResumeType, RecvPshClosedType,
     RecvExitType DEF RecvLoop
<1>3. ASSUME NEW e \in Sides, SendLoop(e) PROVE TypeOK'
  BY <1>3, SendStartType, SendFrameType, SendResumeType, SendExitType
     DEF SendLoop
<1>4. ASSUME NEW e \in Sides, KeepAliveLoop(e) PROVE TypeOK'
  BY <1>4, KeepStartType, KeepPingType, KeepPingResumeType, KeepTimeoutType,
     KeepExitType DEF KeepAliveLoop
<1>5. ASSUME NEW e \in Sides, OpenCall(e) PROVE TypeOK'
  BY <1>5, OpenStreamType, OpenStreamSynType, OpenStreamResumeType,
     OpenStreamCancelType DEF OpenCall
<1>6. ASSUME NEW e \in Sides, AcceptCall(e) PROVE TypeOK'
  BY <1>6, AcceptStreamType, AcceptStreamWaitType, AcceptStreamTakeType,
     AcceptStreamClosedType DEF AcceptCall
<1>7. ASSUME NEW e \in Sides, NEW id \in StreamId, StreamStep(e, id)
      PROVE  TypeOK'
  BY <1>7, StreamStepCases, PollIdleType, PollReadType, PollReadEofType, PollWriteType,
     PollShutdownType, CloseStreamType, CloseStreamResumeType,
     CloseStreamCancelType, DropType
<1>8. ASSUME NEW e \in Sides, Close(e) \/ DropSession(e) PROVE TypeOK'
  BY <1>8, CloseType, DropSessionType
<1>9. ASSUME NEW e \in Sides, NEW f \in ForeignFrames[e], ForeignSend(e, f)
      PROVE  TypeOK'
  BY <1>9, ForeignSendType
<1>10. CASE LinkFail
  BY <1>10, LinkFailType
<1> QED
  BY <1>1, <1>2, <1>3, <1>4, <1>5, <1>6, <1>7, <1>8, <1>9, <1>10 DEF Next

\* Type correctness of the sessions, streams, channels and tasks, whatever the
\* configuration and however many streams and bytes.
THEOREM TypeCorrect == Spec => []TypeOK
BY InitType, NextType, PTL DEF Spec

-----------------------------------------------------------------------------
(* Flow control.  A step that takes tokens is only made without any, and     *)
(* there are always as many as at the start: the throttle is never reached.  *)
(* (The run doc_flow_control shows what that means for the receive buffer.)  *)

\* With a receive buffer of at least one byte the tokens never fall below their
\* initial value, and handle_psh_frame() never waits for them.
NeverThrottled ==
  \A e \in Sides : MaxReceiveBuffer(e) > 0 =>
    tokens[e] >= MaxReceiveBuffer(e) /\ recv_pc[e] # "psh"

\* Tokens of no session with a receive buffer go down in a step, and its
\* recv_loop does not start to wait for some.
TokensStay ==
  \A e \in Sides : MaxReceiveBuffer(e) > 0 =>
    tokens'[e] >= tokens[e] /\ (recv_pc'[e] = "psh" => recv_pc[e] = "psh")

\* A received frame takes no tokens and does not make recv_loop wait for some.
LEMMA RecvFrameTokens ==
  ASSUME TypeOK, NeverThrottled, NEW e \in Sides, RecvFrame(e)
  PROVE  TokensStay
<1> DEFINE f == Head(wire[Peer(e)])
           n == Size(f.data)
<1>1. n \in Nat
  BY ReadFrameType, ChunkSize DEF FrameSet
<1>2. tokens \in [Sides -> Int]
      /\ recv_pc \in [Sides -> {"start", "select", "syn", "psh", "done"}]
  BY DEF TypeOK, StateOK, LoopOK
<1>3. ASSUME RecvSelect(e), UNCHANGED tokens \/ ReturnTokens(e, n)
      PROVE  TokensStay
  BY <1>1, <1>2, <1>3 DEF TokensStay, RecvSelect, ReturnTokens, TypeOK, LoopOK
<1>4. ASSUME RecvAwait(e, "syn", "none"), UNCHANGED tokens PROVE TokensStay
  BY <1>2, <1>4 DEF TokensStay, RecvAwait, TypeOK, LoopOK
<1>5. ASSUME PshWait(e, n) PROVE TokensStay
  <2>1. ~(MaxReceiveBuffer(e) > 0)
    BY <1>2, <1>5, ConfType DEF PshWait, NeverThrottled
  <2> QED
    BY <1>2, <1>5, <2>1 DEF TokensStay, PshWait, TakeTokens, RecvAwait
<1>6. CASE HandleSyn(e, f)
  BY <1>3, <1>4, <1>6 DEF HandleSyn, HandleSynIgnored, HandleSynNew
<1>7. CASE HandleFin(e, f) \/ HandleOther(e, f)
  BY <1>3, <1>7 DEF HandleFin, HandleOther
<1>8. CASE HandlePsh(e, f)
  BY <1>3, <1>5, <1>8 DEF HandlePsh, PshDeliver
<1> QED
  BY <1>6, <1>7, <1>8 DEF RecvFrame, HandleFrame

\* No step at all does.
LEMMA NextTokens ==
  ASSUME TypeOK, NeverThrottled, [Next]_vars
  PROVE  TokensStay
<1>1. tokens \in [Sides -> Int] /\ recv_pc \in [Sides -> {"start", "select", "syn", "psh", "done"}]
  BY DEF TypeOK, StateOK, LoopOK
<1>2. ASSUME UNCHANGED tokens, UNCHANGED recv_pc PROVE TokensStay
  BY <1>1, <1>2 DEF TokensStay
<1>3. ASSUME NEW e \in Sides, NEW pc, UNCHANGED tokens, pc # "psh",
             recv_pc' = [recv_pc EXCEPT ![e] = pc]
      PROVE  TokensStay
  BY <1>1, <1>3 DEF TokensStay
<1>4. CASE UNCHANGED vars
  BY <1>2, <1>4
<1>5. ASSUME NEW e \in Sides, RecvLoop(e) PROVE TokensStay
  <2>1. CASE RecvStart(e) \/ RecvSynResume(e)
    BY <1>3, <2>1 DEF RecvStart, RecvSynResume, RecvSelect
  <2>2. CASE RecvExit(e)
    BY <1>3, <2>2 DEF RecvExit, RecvBreak
  <2>3. CASE RecvPshClosed(e)
    BY <1>1, <2>3 DEF RecvPshClosed, RecvSelect, ReturnTokens, TokensStay, TypeOK,
                      LoopOK
  <2> QED
    BY <1>5, <2>1, <2>2, <2>3, RecvFrameTokens DEF RecvLoop
<1>6. ASSUME NEW e \in Sides, SendLoop(e) PROVE TokensStay
  BY <1>2, <1>6 DEF SendLoop, SendStart, SendFrame, SendResume, SendExit, SendBreak
<1>7. ASSUME NEW e \in Sides, KeepAliveLoop(e) PROVE TokensStay
  BY <1>2, <1>7 DEF KeepAliveLoop, KeepStart, KeepPing, PingSent, KeepPingResume,
                    KeepTimeout, TimeoutTick, KeepExit
<1>8. ASSUME NEW e \in Sides, OpenCall(e) PROVE TokensStay
  BY <1>2, <1>8 DEF OpenCall, OpenStream, OpenStreamSyn, OpenStreamResume,
                    OpenStreamCancel
<1>9. ASSUME NEW e \in Sides, AcceptCall(e) PROVE TokensStay
  BY <1>2, <1>9 DEF AcceptCall, AcceptStream, AcceptStreamWait, AcceptStreamTake,
                    AcceptStreamClosed
<1>10. ASSUME NEW e \in Sides, NEW id \in StreamId, StreamStep(e, id)
       PROVE  TokensStay
  <2>0. CASE PollIdle(e, id)
    BY <1>2, <2>0, PollIdleStep DEF PollUnchanged
  <2>1. ASSUME NEW n \in ReadSizes, PollRead(e, id, n) PROVE TokensStay
    BY <2>1, PollReadType DEF TokensStay, PollRead, ReadUnchanged
  <2>2. CASE \/ \E n \in ReadSizes : PollReadEof(e, id, n)
             \/ \E n \in WriteSizes : PollWrite(e, id, n)
    BY <1>2, <2>2 DEF PollReadEof, ReportEof, PollWrite, WritePsh
  <2>3. CASE PollShutdown(e, id) \/ CloseStream(e, id)
    BY <1>2, <2>3 DEF PollShutdown, CloseStream, CloseUnchanged
  <2>4. CASE \/ CloseStreamResume(e, id) \/ CloseStreamCancel(e, id)
             \/ Drop(e, id)
    BY <1>2, <2>4 DEF CloseStreamResume, CloseStreamCancel, Drop
  <2> QED
    BY <1>10, <2>0, <2>1, <2>2, <2>3, <2>4, StreamStepCases
<1>11. ASSUME NEW e \in Sides, \/ Close(e) \/ DropSession(e)
                               \/ \E f \in ForeignFrames[e] : ForeignSend(e, f)
       PROVE  TokensStay
  BY <1>2, <1>11 DEF Close, DropSession, ForeignSend
<1>12. CASE LinkFail
  BY <1>2, <1>12 DEF LinkFail
<1> QED
  BY <1>4, <1>5, <1>6, <1>7, <1>8, <1>9, <1>10, <1>11, <1>12 DEF Next

\* With a receive buffer of at least one byte, the tokens of a session never
\* fall below the initial value and handle_psh_frame() never waits: the session
\* has, in effect, no receive-side flow control.
THEOREM Unthrottled == Spec => []NeverThrottled
<1>1. Init => NeverThrottled
  BY ConfType DEF Init, NeverThrottled
<1>2. TypeOK /\ NeverThrottled /\ [Next]_vars => NeverThrottled'
  <2> SUFFICES ASSUME TypeOK, NeverThrottled, [Next]_vars,
                      NEW e \in Sides, MaxReceiveBuffer(e) > 0
               PROVE  tokens'[e] >= MaxReceiveBuffer(e) /\ recv_pc'[e] # "psh"
    BY DEF NeverThrottled
  <2>1. TokensStay
    BY NextTokens
  <2>2. tokens[e] >= MaxReceiveBuffer(e) /\ recv_pc[e] # "psh" /\ tokens[e] \in Int
    BY DEF NeverThrottled, TypeOK, StateOK
  <2>3. tokens'[e] \in Int
    BY NextType DEF TypeOK, StateOK
  <2> QED
    BY <2>1, <2>2, <2>3, ConfType DEF TokensStay
<1> QED
  BY TypeCorrect, <1>1, <1>2, PTL DEF Spec

-----------------------------------------------------------------------------
(* Closing.  Tasks end on the close notification, after calling close(), or  *)
(* (keep_alive_loop) because send_loop has ended.  The invariant that makes  *)
(* this inductive: a notification is never delivered to an open session.     *)

NoticeMeansClosed ==
  \A e \in Sides, t \in Tasks : die[e][t] = "fired" => closed[e]

CloseInv == NoticeMeansClosed /\ GoneTaskMeansClosed

\* In a step, session d stays closed if it was; and if it is not closed after
\* it, then no task of it has been notified or has ended.
Kept(d) ==
  /\ closed[d] => closed'[d]
  /\ \/ closed'[d]
     \/ /\ \A t \in Tasks : die'[d][t] = "fired" => die[d][t] = "fired"
        /\ recv_pc'[d] = "done" => recv_pc[d] = "done"
        /\ send_pc'[d] = "done" => send_pc[d] = "done"
        /\ keep_pc'[d] = "done" => keep_pc[d] = "done"

\* Sessions that are kept, in that sense, keep the closing invariant.
LEMMA KeptSuffices == CloseInv /\ (\A d \in Sides : Kept(d)) => CloseInv'
BY DEF CloseInv, NoticeMeansClosed, GoneTaskMeansClosed, Kept

\* A step that leaves flag, notifier and tasks alone.
LEMMA KeptUnchanged ==
  ASSUME UNCHANGED <<closed, die, recv_pc, send_pc, keep_pc>>, NEW d \in Sides
  PROVE  Kept(d)
BY DEF Kept

\* A step that makes, or drops, a registration of a task.
LEMMA KeptArmed ==
  ASSUME TypeOK, NEW e \in Sides, NEW t \in Tasks, Arm(e, t) \/ Disarm(e, t),
         UNCHANGED closed, NEW d \in Sides,
         recv_pc'[d] = "done" => recv_pc[d] = "done",
         send_pc'[d] = "done" => send_pc[d] = "done",
         keep_pc'[d] = "done" => keep_pc[d] = "done"
  PROVE  Kept(d)
<1>1. ASSUME NEW u \in Tasks, die'[d][u] = "fired" PROVE die[d][u] = "fired"
  <2>1. CASE Arm(e, t)
    BY <1>1, <2>1 DEF Arm, TypeOK, StateOK
  <2>2. CASE Disarm(e, t)
    BY <1>1, <2>2 DEF Disarm, TypeOK, StateOK
  <2> QED
    BY <2>1, <2>2
<1> QED
  BY <1>1 DEF Kept

\* A step that closes session e.
LEMMA KeptClosed ==
  ASSUME TypeOK, NEW e \in Sides, NEW r, CloseState(e, r), NEW d \in Sides,
         d # e => /\ recv_pc'[d] = recv_pc[d] /\ send_pc'[d] = send_pc[d]
                  /\ keep_pc'[d] = keep_pc[d]
  PROVE  Kept(d)
<1>1. CASE d = e
  BY <1>1 DEF CloseState, Kept, TypeOK, StateOK
<1>2. CASE d # e
  <2>1. closed'[d] = closed[d] /\ die'[d] = die[d]
    BY <1>2 DEF CloseState, TypeOK, StateOK
  <2> QED
    BY <1>2, <2>1 DEF Kept
<1> QED
  BY <1>1, <1>2

\* recv_loop and the frame handlers.
LEMMA RecvLoopKept ==
  ASSUME TypeOK, NEW e \in Sides, RecvLoop(e), NEW d \in Sides
  PROVE  Kept(d)
<1>0. "recv" \in Tasks
  BY DEF Tasks
<1>1. ASSUME RecvSelect(e), UNCHANGED <<closed, send_pc, keep_pc>> PROVE Kept(d)
  BY <1>0, <1>1, KeptArmed DEF RecvSelect, TypeOK, LoopOK
<1>2. CASE RecvStart(e) \/ RecvSynResume(e) \/ RecvPshClosed(e)
  BY <1>1, <1>2 DEF RecvStart, RecvSynResume, RecvPshClosed
<1>3. CASE RecvExit(e)
  BY <1>3, KeptClosed DEF RecvExit, RecvBreak, TypeOK, LoopOK
<1>4. CASE RecvFrame(e)
  <2> DEFINE f == Head(wire[Peer(e)])
  <2>1. UNCHANGED <<closed, send_pc, keep_pc>>
    BY <1>4 DEF RecvFrame
  <2>2. ASSUME RecvAwait(e, "syn", "none") PROVE Kept(d)
    <3>1. Disarm(e, "recv")
      BY <2>2 DEF RecvAwait, Disarm
    <3> QED
      BY <1>0, <2>1, <2>2, <3>1, KeptArmed DEF RecvAwait, TypeOK, LoopOK
  <2>3. ASSUME RecvAwait(e, "psh", "armed") PROVE Kept(d)
    <3>1. Arm(e, "recv")
      BY <2>3 DEF RecvAwait, Arm
    <3> QED
      BY <1>0, <2>1, <2>3, <3>1, KeptArmed DEF RecvAwait, TypeOK, LoopOK
  <2>4. CASE HandleSyn(e, f)
    BY <1>1, <2>1, <2>2, <2>4 DEF HandleSyn, HandleSynIgnored, HandleSynNew
  <2>5. CASE HandleFin(e, f) \/ HandleOther(e, f)
    BY <1>1, <2>1, <2>5 DEF HandleFin, HandleOther
  <2>6. CASE HandlePsh(e, f)
    BY <1>1, <2>1, <2>3, <2>6 DEF HandlePsh, PshWait, PshDeliver
  <2> QED
    BY <1>4, <2>4, <2>5, <2>6 DEF RecvFrame, HandleFrame
<1> QED
  BY <1>2, <1>3, <1>4 DEF RecvLoop

\* send_loop.
LEMMA SendLoopKept ==
  ASSUME TypeOK, NEW e \in Sides, SendLoop(e), NEW d \in Sides
  PROVE  Kept(d)
<1>0. "send" \in Tasks
  BY DEF Tasks
<1>1. CASE SendStart(e) \/ SendResume(e)
  BY <1>0, <1>1, KeptArmed DEF SendStart, SendResume, TypeOK, LoopOK
<1>2. CASE SendFrame(e)
  BY <1>0, <1>2, KeptArmed DEF SendFrame, TypeOK, LoopOK
<1>3. CASE SendExit(e)
  BY <1>3, KeptClosed DEF SendExit, SendBreak, TypeOK, LoopOK
<1> QED
  BY <1>1, <1>2, <1>3 DEF SendLoop

\* keep_alive_loop may end without calling close(): on the notification, which
\* only a closed session sends, or because send_loop is gone, which closed it.
LEMMA KeepAliveLoopKept ==
  ASSUME TypeOK, CloseInv, NEW e \in Sides, KeepAliveLoop(e), NEW d \in Sides
  PROVE  Kept(d)
<1>0. "keep" \in Tasks
  BY DEF Tasks
<1>1. ASSUME KeepSelect(e), UNCHANGED <<closed, recv_pc, send_pc>> PROVE Kept(d)
  BY <1>0, <1>1, KeptArmed DEF KeepSelect, TypeOK, LoopOK
<1>2. CASE KeepStart(e) \/ KeepPingResume(e)
  BY <1>1, <1>2 DEF KeepStart, KeepPingResume
<1>3. CASE KeepPing(e)
  <2>1. UNCHANGED <<closed, recv_pc, send_pc>>
    BY <1>3 DEF KeepPing, PingSent
  <2>2. CASE keep_pc' = [keep_pc EXCEPT ![e] = "ping"] /\ Disarm(e, "keep")
    BY <1>0, <2>1, <2>2, KeptArmed DEF TypeOK, LoopOK
  <2> QED
    BY <1>1, <1>3, <2>1, <2>2 DEF KeepPing
<1>4. CASE KeepTimeout(e)
  <2>1. UNCHANGED <<recv_pc, send_pc>>
    BY <1>4 DEF KeepTimeout, TimeoutTick
  <2>2. CASE /\ CloseState(e, WithoutTask(die[e], "keep"))
             /\ keep_pc' = [keep_pc EXCEPT ![e] = "done"]
    BY <2>1, <2>2, KeptClosed DEF TypeOK, LoopOK
  <2> QED
    BY <1>1, <1>4, <2>1, <2>2 DEF KeepTimeout
<1>5. CASE KeepExit(e)
  <2>1. closed[e]
    BY <1>0, <1>5 DEF KeepExit, Connected, CloseInv, NoticeMeansClosed,
                      GoneTaskMeansClosed
  <2>2. UNCHANGED <<closed, recv_pc, send_pc>> /\ Disarm(e, "keep")
    BY <1>5 DEF KeepExit
  <2>3. CASE d = e
    BY <2>1, <2>2, <2>3 DEF Kept
  <2>4. CASE d # e
    <3>1. keep_pc'[d] = keep_pc[d]
      BY <1>5, <2>4 DEF KeepExit, TypeOK, LoopOK
    <3> QED
      BY <1>0, <2>2, <3>1, KeptArmed
  <2> QED
    BY <2>3, <2>4
<1> QED
  BY <1>2, <1>3, <1>4, <1>5 DEF KeepAliveLoop

\* accept_stream.
LEMMA AcceptCallKept ==
  ASSUME TypeOK, NEW e \in Sides, AcceptCall(e), NEW d \in Sides
  PROVE  Kept(d)
<1>0. "accept" \in Tasks
  BY DEF Tasks
<1>1. CASE AcceptStream(e)
  BY <1>1, KeptUnchanged DEF AcceptStream
<1>2. CASE AcceptStreamWait(e) \/ AcceptStreamTake(e) \/ AcceptStreamClosed(e)
  BY <1>0, <1>2, KeptArmed DEF AcceptStreamWait, AcceptStreamTake,
                               AcceptStreamClosed
<1> QED
  BY <1>1, <1>2 DEF AcceptCall

\* The operations of a Stream leave flag, notifier and tasks alone.
LEMMA StreamStepKept ==
  ASSUME NEW e \in Sides, NEW id \in StreamId, StreamStep(e, id), NEW d \in Sides
  PROVE  Kept(d)
<1>0. CASE PollIdle(e, id)
  BY <1>0, KeptUnchanged, PollIdleStep DEF PollUnchanged
<1>1. CASE \/ \E n \in ReadSizes : PollRead(e, id, n) \/ PollReadEof(e, id, n)
           \/ \E n \in WriteSizes : PollWrite(e, id, n)
  BY <1>1, KeptUnchanged DEF PollRead, ReadUnchanged, PollReadEof, ReportEof,
                             PollWrite, WritePsh
<1>2. CASE PollShutdown(e, id) \/ CloseStream(e, id)
  BY <1>2, KeptUnchanged DEF PollShutdown, CloseStream, CloseUnchanged
<1>3. CASE CloseStreamResume(e, id) \/ CloseStreamCancel(e, id) \/ Drop(e, id)
  BY <1>3, KeptUnchanged DEF CloseStreamResume, CloseStreamCancel, Drop
<1> QED
  BY <1>0, <1>1, <1>2, <1>3, StreamStepCases

\* Every step keeps every session, in that sense.
LEMMA NextKept ==
  ASSUME TypeOK, CloseInv, [Next]_vars, NEW d \in Sides
  PROVE  Kept(d)
<1>1. CASE UNCHANGED vars
  BY <1>1, KeptUnchanged
<1>2. ASSUME NEW e \in Sides, RecvLoop(e) \/ SendLoop(e) \/ KeepAliveLoop(e)
      PROVE  Kept(d)
  BY <1>2, RecvLoopKept, SendLoopKept, KeepAliveLoopKept
<1>3. ASSUME NEW e \in Sides, OpenCall(e) PROVE Kept(d)
  BY <1>3, KeptUnchanged DEF OpenCall, OpenStream, OpenStreamSyn,
                             OpenStreamResume, OpenStreamCancel
<1>4. ASSUME NEW e \in Sides, AcceptCall(e) PROVE Kept(d)
  BY <1>4, AcceptCallKept
<1>5. ASSUME NEW e \in Sides, NEW id \in StreamId, StreamStep(e, id) PROVE Kept(d)
  BY <1>5, StreamStepKept
<1>6. ASSUME NEW e \in Sides, Close(e) PROVE Kept(d)
  BY <1>6, KeptClosed DEF Close
<1>7. ASSUME NEW e \in Sides, \/ DropSession(e)
                              \/ \E f \in ForeignFrames[e] : ForeignSend(e, f)
      PROVE  Kept(d)
  BY <1>7, KeptUnchanged DEF DropSession, ForeignSend
<1>8. CASE LinkFail
  BY <1>8, KeptUnchanged DEF LinkFail
<1> QED
  BY <1>1, <1>2, <1>3, <1>4, <1>5, <1>6, <1>7, <1>8 DEF Next

\* Every step keeps the closing invariant.
LEMMA NextCloseInv == TypeOK /\ CloseInv /\ [Next]_vars => CloseInv'
BY NextKept, KeptSuffices

\* No task of a session ends, for whatever reason, without the session being
\* closed: applications can rely on is_closed() and on the errors of a closed
\* session instead of waiting on one that nobody serves.
THEOREM NoSilentExit == Spec => []GoneTaskMeansClosed
<1>1. Init => CloseInv
  BY DEF Init, CloseInv, NoticeMeansClosed, GoneTaskMeansClosed
<1>2. CloseInv => GoneTaskMeansClosed
  BY DEF CloseInv
<1> QED
  BY TypeCorrect, <1>1, <1>2, NextCloseInv, PTL DEF Spec
==============================================================================
