--------------------------- MODULE BytePipeProofs ----------------------------
(***************************************************************************)
(* Proofs about the bytes of the streams of two sessions of this crate:    *)
(* they are read in the order in which they were written and without gaps, *)
(* an EOF comes behind the last of them, and the sessions implement        *)
(* BytePipe.  The inductive invariant, Bytes, follows a byte from          *)
(* poll_write through the frames on their way and the data channel to      *)
(* poll_read.                                                              *)
(***************************************************************************)
EXTENDS StreamProofs

USE DEF stateVars, chanVars, loopVars, openVars, streamVars, histVars, vars

-----------------------------------------------------------------------------
(* The reading end of a stream: s is what poll_read has returned, c the      *)
(* current chunk, q the queue of data_rx and m what the peer has written.    *)

\* Up to where the data has left the queue, and up to where it has arrived.
After(s, c) == IF Size(c) > 0 THEN c.hi ELSE Len(s)
Reached(s, q, c) == IF q = << >> THEN After(s, c) ELSE q[Len(q)].hi

\* The bytes are in order and without gaps from one of them to the next.
Linked(s, q, c, m) ==
  /\ \A k \in 1..Len(s) : s[k] = k
  /\ Size(c) > 0 => c.lo = Len(s)
  /\ After(s, c) <= m
  /\ \A i \in 1..Len(q) : Size(q[i]) > 0 /\ q[i].hi <= m
  /\ q # << >> => q[1].lo = After(s, c)
  /\ \A i \in 1..Len(q) : \A j \in 1..Len(q) : j = i + 1 => q[i].hi = q[j].lo

\* What is read and what has arrived is no more than what was written.
LEMMA LinkedBound ==
  ASSUME NEW s \in Seq(Nat), NEW q \in Seq(Chunk), NEW c \in Chunk, NEW m \in Nat,
         Linked(s, q, c, m)
  PROVE  /\ Len(s) <= m /\ Reached(s, q, c) \in Nat /\ Reached(s, q, c) <= m
         /\ Len(s) <= After(s, c) /\ After(s, c) \in Nat
<1>1. Len(s) \in Nat /\ c.lo \in Nat /\ c.hi \in Nat /\ Size(c) = c.hi - c.lo
  BY LenProperties, ChunkSize DEF Size
<1>2. Len(s) <= m /\ After(s, c) \in Nat /\ Len(s) <= After(s, c) /\ After(s, c) <= m
  BY <1>1 DEF Linked, After
<1>3. CASE q = << >>
  BY <1>2, <1>3 DEF Reached
<1>4. CASE q # << >>
  <2>1. Len(q) \in 1..Len(q)
    BY <1>4, LenProperties, EmptySeq
  <2>2. q[Len(q)] \in Chunk
    BY <2>1, ElementOfSeq
  <2>3. q[Len(q)].hi \in Nat /\ q[Len(q)].hi <= m
    BY <2>1, <2>2, ChunkSize DEF Linked
  <2> QED
    BY <1>2, <1>4, <2>3 DEF Reached
<1> QED
  BY <1>2, <1>3, <1>4

\* More may be written.
LEMMA LinkedMore ==
  ASSUME NEW s \in Seq(Nat), NEW q \in Seq(Chunk), NEW c \in Chunk, NEW m \in Nat,
         Linked(s, q, c, m), NEW n \in Nat, m <= n
  PROVE  Linked(s, q, c, n)
<1>1. \A i \in 1..Len(q) : q[i].hi \in Nat
  BY ElementOfSeq, ChunkSize
<1>2. After(s, c) \in Nat
  BY LinkedBound
<1> QED
  BY <1>1, <1>2 DEF Linked

\* A chunk arrives that begins where the last one ends.
LEMMA LinkedArrives ==
  ASSUME NEW s \in Seq(Nat), NEW q \in Seq(Chunk), NEW c \in Chunk, NEW m \in Nat,
         Linked(s, q, c, m),
         NEW d \in Chunk, Size(d) > 0, d.lo = Reached(s, q, c), d.hi <= m
  PROVE  Linked(s, Append(q, d), c, m) /\ Reached(s, Append(q, d), c) = d.hi
<1> DEFINE r == Append(q, d)
<1>1. /\ r \in Seq(Chunk) /\ Len(r) = Len(q) + 1 /\ r[Len(q) + 1] = d
      /\ \A i \in 1..Len(q) : r[i] = q[i]
  BY AppendProperties
<1>2. Len(q) \in Nat /\ (q # << >> <=> Len(q) # 0)
  BY LenProperties, EmptySeq
<1> HIDE DEF r
<1>3. r # << >> /\ Len(r) \in Nat
  BY <1>1, <1>2, EmptySeq
<1>4. Reached(s, r, c) = d.hi
  BY <1>1, <1>2, <1>3 DEF Reached
<1>5. ASSUME NEW i \in 1..Len(r) PROVE Size(r[i]) > 0 /\ r[i].hi <= m
  <2>1. i \in 1..Len(q) \/ i = Len(q) + 1
    BY <1>1, <1>2
  <2> QED
    BY <1>1, <2>1 DEF Linked
<1>6. r[1].lo = After(s, c)
  <2>1. CASE Len(q) = 0
    BY <1>1, <1>2, <2>1 DEF Reached
  <2>2. CASE Len(q) # 0
    <3>1. 1 \in 1..Len(q)
      BY <1>2, <2>2
    <3> QED
      BY <1>1, <1>2, <2>2, <3>1 DEF Linked
  <2> QED
    BY <2>1, <2>2
<1>7. ASSUME NEW i \in 1..Len(r), NEW j \in 1..Len(r), j = i + 1
      PROVE  r[i].hi = r[j].lo
  <2>1. CASE j \in 1..Len(q)
    <3>1. i \in 1..Len(q)
      BY <1>2, <1>7, <2>1
    <3> QED
      BY <1>1, <1>7, <2>1, <3>1 DEF Linked
  <2>2. CASE j = Len(q) + 1
    <3>1. i = Len(q) /\ i \in 1..Len(q) /\ q # << >>
      BY <1>2, <1>7, <2>2
    <3> QED
      BY <1>1, <1>7, <2>2, <3>1 DEF Reached
  <2> QED
    BY <1>1, <1>2, <2>1, <2>2
<1>8. Linked(s, r, c, m)
  BY <1>3, <1>5, <1>6, <1>7 DEF Linked
<1> QED
  BY <1>4, <1>8 DEF r

\* Bytes are copied out of a chunk that begins behind what was read.
LEMMA CopiedOut ==
  ASSUME NEW s \in Seq(Nat), NEW c \in Chunk, NEW k \in Nat, k > 0, k <= Size(c),
         c.lo = Len(s), \A i \in 1..Len(s) : s[i] = i
  PROVE  LET t == s \o [i \in 1..k |-> c.lo + i]
             r == Remainder(c, k)
         IN  /\ t \in Seq(Nat) /\ Len(t) = Len(s) + k
             /\ \A i \in 1..Len(t) : t[i] = i
             /\ Size(r) > 0 => r.lo = Len(t)
             /\ After(t, r) = c.hi
<1> DEFINE b == [i \in 1..k |-> c.lo + i]
           t == s \o b
           r == Remainder(c, k)
<1>1. Len(s) \in Nat /\ c.lo \in Nat /\ c.hi \in Nat /\ Size(c) = c.hi - c.lo
  BY LenProperties, ChunkSize DEF Size
<1>2. b \in Seq(Nat) /\ Len(b) = k /\ \A i \in 1..k : b[i] = c.lo + i
  <2>1. \A i \in 1..k : c.lo + i \in Nat
    BY <1>1
  <2> QED
    BY <2>1
<1> HIDE DEF b
<1>3. /\ t \in Seq(Nat) /\ Len(t) = Len(s) + k
      /\ \A i \in 1..(Len(s) + k) : t[i] = IF i <= Len(s) THEN s[i] ELSE b[i - Len(s)]
  BY <1>2, ConcatProperties
<1> HIDE DEF t
<1>4. ASSUME NEW i \in 1..Len(t) PROVE t[i] = i
  <2>1. i \in 1..(Len(s) + k)
    BY <1>3
  <2>2. CASE i <= Len(s)
    <3>1. i \in 1..Len(s)
      BY <1>1, <2>1, <2>2
    <3> QED
      BY <1>3, <2>1, <2>2, <3>1
  <2>3. CASE i > Len(s)
    <3>1. i - Len(s) \in 1..k /\ t[i] = b[i - Len(s)]
      BY <1>1, <1>3, <2>1, <2>3
    <3>2. b[i - Len(s)] = c.lo + (i - Len(s))
      BY <1>2, <3>1
    <3> QED
      BY <1>1, <2>1, <3>1, <3>2
  <2> QED
    BY <1>1, <2>1, <2>2, <2>3
<1>5. CASE k = Size(c)
  <2>1. r = Empty /\ Size(r) = 0
    BY <1>5, EmptyType DEF Remainder
  <2>2. After(t, r) = c.hi
    BY <1>1, <1>3, <1>5, <2>1 DEF After
  <2> QED
    BY <1>3, <1>4, <2>1, <2>2 DEF t, b
<1>6. CASE k # Size(c)
  <2>1. r.lo = c.lo + k /\ r.hi = c.hi
    BY <1>6 DEF Remainder, Chunk
  <2>2. Size(r) > 0
    BY <1>1, <1>6, <2>1 DEF Size
  <2>3. After(t, r) = c.hi /\ r.lo = Len(t)
    BY <1>1, <1>3, <2>1, <2>2 DEF After
  <2> QED
    BY <1>3, <1>4, <2>3 DEF t, b
<1> QED
  BY <1>5, <1>6

\* poll_read goes on with the current chunk.
LEMMA LinkedCurrent ==
  ASSUME NEW s \in Seq(Nat), NEW q \in Seq(Chunk), NEW c \in Chunk, NEW m \in Nat,
         Linked(s, q, c, m), NEW k \in Nat, k > 0, k <= Size(c)
  PROVE  LET t == s \o [i \in 1..k |-> c.lo + i]
             r == Remainder(c, k)
         IN  /\ Linked(t, q, r, m) /\ Reached(t, q, r) = Reached(s, q, c)
             /\ Len(t) = Len(s) + k
<1> DEFINE t == s \o [i \in 1..k |-> c.lo + i]
           r == Remainder(c, k)
<1>1. Size(c) > 0 /\ Size(c) \in Nat
  BY ChunkSize
<1>2. c.lo = Len(s) /\ (\A i \in 1..Len(s) : s[i] = i) /\ After(s, c) = c.hi
  BY <1>1 DEF Linked, After
<1>3. /\ t \in Seq(Nat) /\ Len(t) = Len(s) + k
      /\ \A i \in 1..Len(t) : t[i] = i
      /\ Size(r) > 0 => r.lo = Len(t)
      /\ After(t, r) = c.hi
  BY <1>2, CopiedOut
<1> HIDE DEF t, r
<1>4. Linked(t, q, r, m) /\ Reached(t, q, r) = Reached(s, q, c)
  BY <1>2, <1>3 DEF Linked, Reached
<1> QED
  BY <1>3, <1>4 DEF t, r

\* poll_read takes the next chunk from the queue.
LEMMA LinkedNext ==
  ASSUME NEW s \in Seq(Nat), NEW q \in Seq(Chunk), NEW c \in Chunk, NEW m \in Nat,
         Linked(s, q, c, m), Size(c) = 0, q # << >>,
         NEW k \in Nat, k > 0, k <= Size(Head(q))
  PROVE  LET t == s \o [i \in 1..k |-> Head(q).lo + i]
             r == Remainder(Head(q), k)
         IN  /\ Linked(t, Tail(q), r, m)
             /\ Reached(t, Tail(q), r) = Reached(s, q, c)
             /\ Len(t) = Len(s) + k
<1> DEFINE h == Head(q)
           v == Tail(q)
           t == s \o [i \in 1..k |-> h.lo + i]
           r == Remainder(h, k)
<1>1. /\ v \in Seq(Chunk) /\ Len(v) = Len(q) - 1 /\ h \in Chunk /\ h = q[1]
      /\ \A i \in 1..Len(v) : v[i] = q[i + 1]
  BY HeadTailProperties
<1>2. Len(q) \in Nat /\ Len(q) # 0 /\ 1 \in 1..Len(q)
  BY LenProperties, EmptySeq
<1>3. h.lo = Len(s) /\ (\A i \in 1..Len(s) : s[i] = i) /\ h.hi <= m
  BY <1>1, <1>2 DEF Linked, After
<1> HIDE DEF h, v
<1>4. /\ t \in Seq(Nat) /\ Len(t) = Len(s) + k
      /\ \A i \in 1..Len(t) : t[i] = i
      /\ Size(r) > 0 => r.lo = Len(t)
      /\ After(t, r) = h.hi
  BY <1>1, <1>3, CopiedOut, ZenonT(30) DEF h
<1> HIDE DEF t, r
<1>5. \A i \in 1..Len(v) : i + 1 \in 1..Len(q)
  BY <1>1, <1>2
<1>6. \A i \in 1..Len(v) : Size(v[i]) > 0 /\ v[i].hi <= m
  BY <1>1, <1>5 DEF Linked
<1>7. ASSUME v # << >> PROVE v[1].lo = h.hi /\ v[Len(v)] = q[Len(q)]
  <2>1. Len(v) \in 1..Len(v) /\ 1 \in 1..Len(v)
    BY <1>1, <1>7, LenProperties, EmptySeq
  <2>2. v[1] = q[2] /\ 2 \in 1..Len(q) /\ Len(v) + 1 = Len(q)
    BY <1>1, <1>2, <1>5, <2>1
  <2>3. v[Len(v)] = q[Len(v) + 1]
    BY <1>1, <2>1
  <2>4. q[1].hi = q[2].lo
    BY <1>2, <2>2 DEF Linked
  <2> QED
    BY <1>1, <2>2, <2>3, <2>4
<1>8. ASSUME NEW i \in 1..Len(v), NEW j \in 1..Len(v), j = i + 1
      PROVE  v[i].hi = v[j].lo
  <2>1. i + 1 \in 1..Len(q) /\ j + 1 \in 1..Len(q) /\ j + 1 = (i + 1) + 1
    BY <1>5, <1>8
  <2>2. q[i + 1].hi = q[j + 1].lo
    BY <2>1 DEF Linked
  <2> QED
    BY <1>1, <2>2
<1>9. Linked(t, v, r, m)
  BY <1>3, <1>4, <1>6, <1>7, <1>8 DEF Linked
<1>10. Reached(t, v, r) = Reached(s, q, c)
  <2>1. CASE v = << >>
    <3>1. Len(q) = 1
      BY <1>1, <1>2, <2>1, EmptySeq
    <3> QED
      BY <1>1, <1>4, <2>1, <3>1 DEF Reached
  <2>2. CASE v # << >>
    BY <1>7, <2>2 DEF Reached
  <2> QED
    BY <2>1, <2>2
<1> QED
  BY <1>4, <1>9, <1>10 DEF t, r, h, v

\* The unread data is thrown away.
LEMMA LinkedDropped ==
  ASSUME NEW s \in Seq(Nat), NEW q \in Seq(Chunk), NEW c \in Chunk, NEW m \in Nat,
         Linked(s, q, c, m)
  PROVE  Linked(s, << >>, Empty, m)
<1>1. Size(Empty) = 0 /\ Len(<< >>) = 0
  BY EmptyType, EmptySeq
<1>2. Len(s) <= m
  BY LinkedBound
<1> QED
  BY <1>1, <1>2 DEF Linked, After

-----------------------------------------------------------------------------
(* From the writer to the reader.  Frames go from w to Peer(w).              *)

\* The hypothesis: no poll_read with an empty buffer, which loses a chunk.
NonzeroReads == 0 \notin ReadSizes

\* The ends that have not thrown data away for want of tokens, and those that have
\* not done so without closing.
WholeEnds ==
  {e \in Sides : MaxReceiveBuffer(e) > 0 \/ (~closed[e] /\ recv_pc[e] # "psh")}
ReadableEnds == {e \in Sides : MaxReceiveBuffer(e) > 0 \/ ~closed[e]}

Arrived ==
  [e \in Sides |-> [id \in StreamId |->
     Reached(got[e][id], data_ch[e][id], current_chunk[e][id])]]

IsData(g) == g.cmd = "PSH" /\ Size(g.data) > 0

Reader ==
  \A e \in Sides, id \in StreamId :
    Linked(got[e][id], data_ch[e][id], current_chunk[e][id], sent[Peer(e)][id])

\* The data on its way was written, and is in order.
WithinSent ==
  \A w \in Sides, g \in FrameSet :
    In(Pipes[w], g) /\ g.cmd = "PSH" => g.data.hi <= sent[w][g.id]

DataOrdered ==
  \A w \in Sides, g, h \in FrameSet :
    (Before(Pipes[w], g, h) /\ g.cmd = "PSH" /\ h.cmd = "PSH" /\ g.id = h.id) =>
      g.data.hi <= h.data.lo

\* Each piece of it continues what has arrived, or another piece before it.
NoGap ==
  \A w \in Sides, g \in FrameSet :
    /\ Peer(w) \in WholeEnds /\ handle[Peer(w)][g.id] # "dropped"
    /\ In(Pipes[w], g) /\ IsData(g)
    => \/ g.data.lo = Arrived[Peer(w)][g.id]
       \/ \E h \in FrameSet : /\ IsData(h) /\ h.id = g.id /\ h.data.hi = g.data.lo
                              /\ Before(Pipes[w], h, g)

\* What was written has arrived up to its end, or its last piece is on its way:
\* as long as send_loop lives, or if the FIN is on its way too.
NoneMissing ==
  \A w \in Sides, id \in StreamId :
    /\ Peer(w) \in WholeEnds /\ handle[Peer(w)][id] # "dropped"
    /\ send_pc[w] # "done" \/ In(Pipes[w], Fin(id))
    => \/ sent[w][id] = Arrived[Peer(w)][id]
       \/ \E h \in FrameSet : /\ IsData(h) /\ h.id = id /\ h.data.hi = sent[w][id]
                              /\ In(Pipes[w], h)

\* When the session has forgotten a stream, everything has arrived.
AllArrived ==
  \A w \in Sides, id \in StreamId :
    /\ Peer(w) \in ReadableEnds /\ handle[Peer(w)][id] \notin {"none", "dropped"}
    /\ id \notin streams[Peer(w)]
    => sent[w][id] = Arrived[Peer(w)][id]

\* EOF was reported behind everything, or the SessionInner, or data that waited
\* for tokens, is gone.
EofThere ==
  \A e \in Sides, id \in StreamId : id \in eof[e] =>
    \/ InnerDropped(e) \/ e \notin ReadableEnds
    \/ id \in is_write_closed[Peer(e)] /\ Len(got[e][id]) = sent[Peer(e)][id]

Bytes ==
  /\ Reader /\ WithinSent /\ DataOrdered /\ NoGap /\ NoneMissing /\ AllArrived
  /\ EofThere

\* What is known of the sessions from the other theorems.
Known ==
  /\ TypeOK /\ Origin /\ Order /\ CloseInv /\ NeverThrottled /\ NobodyReturnsTokens

\* The operations of a Stream leave the tasks and the application's Session alone.
LEMMA StreamCalm ==
  ASSUME NEW e \in Sides, NEW id \in StreamId, StreamStep(e, id)
  PROVE  UNCHANGED <<recv_pc, send_pc, keep_pc, session_held>>
<1>1. CASE PollIdle(e, id)
  BY <1>1, PollIdleStep DEF PollUnchanged
<1> QED
  BY <1>1, StreamStepCases
     DEF PollRead, ReadUnchanged, PollReadEof, ReportEof, PollWrite, WritePsh,
         PollShutdown, CloseStream, CloseUnchanged, CloseStreamResume,
         CloseStreamCancel, Drop

\* A SessionInner that is dropped does not come back.
LEMMA InnerStays ==
  ASSUME TypeOK, [Next]_vars, NEW d \in Sides, InnerDropped(d)
  PROVE  InnerDropped(d)'
<1>0. /\ recv_pc[d] = "done" /\ send_pc[d] = "done" /\ keep_pc[d] \in {"off", "done"}
      /\ session_held[d] = FALSE
      /\ recv_pc \in [Sides -> {"start", "select", "syn", "psh", "done"}]
      /\ send_pc \in [Sides -> {"start", "select", "sending", "done"}]
      /\ keep_pc \in [Sides -> {"off", "start", "select", "ping", "done"}]
      /\ session_held \in [Sides -> BOOLEAN]
  BY DEF InnerDropped, TransportDropped, TypeOK, LoopOK, OpenOK
<1>1. SUFFICES /\ recv_pc'[d] = recv_pc[d] /\ send_pc'[d] = send_pc[d]
               /\ keep_pc'[d] = keep_pc[d] /\ session_held'[d] = session_held[d]
  BY <1>0 DEF InnerDropped, TransportDropped
<1>2. CASE UNCHANGED vars \/ LinkFail
  BY <1>2 DEF LinkFail
<1>3. ASSUME NEW e \in Sides, RecvLoop(e)
      PROVE  /\ recv_pc[e] # "done" /\ UNCHANGED <<send_pc, keep_pc, session_held>>
             /\ \E v : recv_pc' = [recv_pc EXCEPT ![e] = v]
  <2>1. recv_pc[e] # "done" /\ UNCHANGED <<send_pc, keep_pc, session_held>>
    BY <1>3 DEF RecvLoop, RecvStart, RecvFrame, RecvSynResume, RecvPshClosed, RecvExit,
                RecvBreak
  <2> QED
    BY <1>3, <2>1 DEF RecvLoop, RecvStart, RecvFrame, RecvSynResume, RecvPshClosed,
       RecvExit, RecvBreak, RecvSelect, RecvAwait, HandleFrame, HandleSyn,
       HandleSynIgnored, HandleSynNew, HandleFin, HandlePsh, PshWait, PshDeliver,
       HandleOther
<1>4. ASSUME NEW e \in Sides, SendLoop(e)
      PROVE  /\ send_pc[e] # "done" /\ UNCHANGED <<recv_pc, keep_pc, session_held>>
             /\ d # e => send_pc'[d] = send_pc[d]
  BY <1>0, <1>4 DEF SendLoop, SendStart, SendFrame, SendResume, SendExit, SendBreak
<1>5. ASSUME NEW e \in Sides, KeepAliveLoop(e)
      PROVE  /\ keep_pc[e] \notin {"off", "done"}
             /\ UNCHANGED <<recv_pc, send_pc, session_held>>
             /\ \E v : keep_pc' = [keep_pc EXCEPT ![e] = v]
  BY <1>5 DEF KeepAliveLoop, KeepStart, KeepPing, PingSent, KeepPingResume,
              KeepTimeout, TimeoutTick, KeepExit, KeepSelect
<1>6. ASSUME NEW e \in Sides, \/ OpenCall(e) \/ AcceptCall(e) \/ Close(e)
                              \/ \E f \in ForeignFrames[e] : ForeignSend(e, f)
      PROVE  UNCHANGED <<recv_pc, send_pc, keep_pc, session_held>>
  BY <1>6 DEF OpenCall, OpenStream, OpenStreamSyn, OpenStreamResume, OpenStreamCancel,
              AcceptCall, AcceptStream, AcceptStreamWait, AcceptStreamTake,
              AcceptStreamClosed, Close, ForeignSend
<1>7. ASSUME NEW e \in Sides, DropSession(e)
      PROVE  /\ UNCHANGED <<recv_pc, send_pc, keep_pc>>
             /\ session_held' = [session_held EXCEPT ![e] = FALSE]
  BY <1>7 DEF DropSession
<1>8. ASSUME NEW e \in Sides, RecvLoop(e) \/ SendLoop(e) \/ KeepAliveLoop(e)
      PROVE  /\ recv_pc'[d] = recv_pc[d] /\ send_pc'[d] = send_pc[d]
             /\ keep_pc'[d] = keep_pc[d] /\ session_held'[d] = session_held[d]
  <2>1. CASE RecvLoop(e)
    BY <1>0, <1>3, <2>1
  <2>2. CASE SendLoop(e)
    BY <1>0, <1>4, <2>2
  <2>3. CASE KeepAliveLoop(e)
    BY <1>0, <1>5, <2>3
  <2> QED
    BY <1>8, <2>1, <2>2, <2>3
<1>9. ASSUME NEW e \in Sides, DropSession(e)
      PROVE  /\ recv_pc'[d] = recv_pc[d] /\ send_pc'[d] = send_pc[d]
             /\ keep_pc'[d] = keep_pc[d] /\ session_held'[d] = session_held[d]
  BY <1>0, <1>7, <1>9
<1> QED
  BY <1>2, <1>6, <1>8, <1>9, StreamCalm DEF Next

\* An end does not become whole or readable again.
LEMMA EndsStep ==
  ASSUME Known, [Next]_vars, NEW d \in Sides
  PROVE  /\ d \in WholeEnds' => d \in WholeEnds
         /\ d \in ReadableEnds' => d \in ReadableEnds
<1>0. TypeOK /\ CloseInv
  BY DEF Known
<1>1. closed[d] => closed'[d]
  BY <1>0, NextKept DEF Kept
<1>2. recv_pc[d] = "psh" => recv_pc'[d] = "psh" \/ RecvPshClosed(d)
  <2>1. CASE UNCHANGED recv_pc
    BY <2>1
  <2>2. ASSUME NEW e \in Sides, RecvLoop(e), recv_pc[d] = "psh", recv_pc'[d] # "psh"
        PROVE  RecvPshClosed(d)
    <3>1. RecvPshClosed(e) \/ recv_pc[e] # "psh"
      BY <2>2 DEF RecvLoop, RecvStart, RecvFrame, RecvSynResume, RecvExit, RecvBreak
    <3>2. \E v : recv_pc' = [recv_pc EXCEPT ![e] = v]
      BY <2>2 DEF RecvLoop, RecvStart, RecvFrame, RecvSynResume, RecvPshClosed, RecvExit,
                  RecvBreak, RecvSelect, RecvAwait, HandleFrame, HandleSyn,
                  HandleSynIgnored, HandleSynNew, HandleFin, HandlePsh, PshWait,
                  PshDeliver, HandleOther
    <3>3. d # e => recv_pc'[d] = recv_pc[d]
      BY <1>0, <3>2 DEF TypeOK, LoopOK
    <3> QED
      BY <2>2, <3>1, <3>3
  <2>3. ASSUME NEW e \in Sides, SendLoop(e) \/ KeepAliveLoop(e)
        PROVE  UNCHANGED recv_pc
    BY <2>3 DEF SendLoop, SendStart, SendFrame, SendResume, SendExit, SendBreak,
                KeepAliveLoop, KeepStart, KeepPing, PingSent, KeepPingResume,
                KeepTimeout, TimeoutTick, KeepExit
  <2>4. ASSUME NEW e \in Sides, OpenCall(e) \/ AcceptCall(e)
        PROVE  UNCHANGED recv_pc
    BY <2>4 DEF OpenCall, OpenStream, OpenStreamSyn, OpenStreamResume, OpenStreamCancel,
                AcceptCall, AcceptStream, AcceptStreamWait, AcceptStreamTake,
                AcceptStreamClosed
  <2>5. ASSUME NEW e \in Sides, NEW id \in StreamId, StreamStep(e, id)
        PROVE  UNCHANGED recv_pc
    BY <2>5, StreamCalm
  <2>6. ASSUME NEW e \in Sides, \/ Close(e) \/ DropSession(e)
                                \/ \E f \in ForeignFrames[e] : ForeignSend(e, f)
        PROVE  UNCHANGED recv_pc
    BY <2>6 DEF Close, DropSession, ForeignSend
  <2>7. LinkFail => UNCHANGED recv_pc
    BY DEF LinkFail
  <2> QED
    BY <2>1, <2>2, <2>3, <2>4, <2>5, <2>6, <2>7 DEF Next
<1>3. RecvPshClosed(d) => closed[d]
  BY <1>0 DEF RecvPshClosed, CloseInv, NoticeMeansClosed, Tasks
<1> QED
  BY <1>1, <1>2, <1>3 DEF WholeEnds, ReadableEnds

\* Only poll_write changes what is written, and only until the stream is closed.
LEMMA SentStep ==
  ASSUME TypeOK, Move, NEW d \in Sides, NEW i \in StreamId
  PROVE  \/ sent'[d][i] = sent[d][i]
         \/ \E k \in Nat : k > 0 /\ Wrote(d, i, k) /\ sent'[d][i] = sent[d][i] + k
<1>0. sent \in [Sides -> [StreamId -> Nat]]
  BY DEF TypeOK, HistOK
<1>1. ASSUME NEW e \in Sides, NEW k \in Nat, NEW id \in StreamId, Wrote(e, id, k)
      PROVE  \/ sent'[d][i] = sent[d][i]
             \/ k > 0 /\ Wrote(d, i, k) /\ sent'[d][i] = sent[d][i] + k
  <2>1. sent' = [sent EXCEPT ![e][id] = sent[e][id] + k]
    BY <1>1 DEF Wrote
  <2>2. CASE d = e /\ i = id
    BY <1>0, <1>1, <2>1, <2>2
  <2>3. CASE ~(d = e /\ i = id)
    BY <1>0, <2>1, <2>3
  <2> QED
    BY <2>2, <2>3
<1>2. CASE Idle \/ \E e \in Sides : Exit(e) \/ Counted(e)
  BY <1>2 DEF Idle, Exit, Counted, AllSame, Same
<1>3. ASSUME NEW e \in Sides, NEW f \in FrameSet, Received(e, f)
      PROVE  sent'[d][i] = sent[d][i]
  BY <1>3 DEF Received, Skip, AllSame, Same, SynGot, FinGot, PshGot, PshLost
<1>4. ASSUME NEW e \in Sides, NEW id \in StreamId, Used(e, id)
      PROVE  UNCHANGED sent \/ \E k \in Nat : Wrote(e, id, k)
  BY <1>4 DEF Used, Opened, SynPut, Accepted, Resumed, ReadSome, ReadEnd, Shut,
              Cancelled, Gone
<1> QED
  BY <1>1, <1>2, <1>3, <1>4 DEF Move

\* What happens to the reading end.
LEMMA ReaderMoves ==
  ASSUME TypeOK, Origin, Move, NEW e \in Sides, NEW id \in StreamId
  PROVE  \/ /\ got'[e][id] = got[e][id] /\ data_ch'[e][id] = data_ch[e][id]
            /\ current_chunk'[e][id] = current_chunk[e][id]
         \/ /\ got'[e][id] = got[e][id] /\ data_ch'[e][id] = << >>
            /\ current_chunk'[e][id] = Empty /\ handle'[e][id] = "dropped"
         \/ \E n \in ReadSizes : ReadSome(e, id, n)
         \/ \E f \in FrameSet : PshGot(e, f) /\ f.id = id
<1>0. Untouched /\ SynIsNews
  BY DEF Origin
<1>1. CASE Same(e, id)
  BY <1>1 DEF Same
<1>2. CASE Idle \/ \E d \in Sides : Exit(d) \/ Counted(d)
  BY <1>1, <1>2 DEF Idle, Exit, Counted, AllSame
<1>3. ASSUME NEW d \in Sides, NEW f \in FrameSet, Received(d, f), ~Same(e, id)
      PROVE  \/ UNCHANGED <<got, data_ch, current_chunk>>
             \/ /\ got'[e][id] = got[e][id] /\ data_ch'[e][id] = data_ch[e][id]
                /\ current_chunk'[e][id] = current_chunk[e][id]
             \/ PshGot(e, f) /\ f.id = id
  <2>1. CASE SynGot(d, f)
    <3>1. d = e /\ id = f.id
      BY <1>3, <2>1 DEF SynGot, Only
    <3>2. Peer(e) \in Sides /\ In(Pipes[Peer(e)], f) /\ Peer(Peer(e)) = e
      BY <2>1, <3>1, Ends DEF SynGot, Takes
    <3>3. handle[e][id] = "none"
      BY <1>0, <2>1, <3>1, <3>2 DEF SynGot, SynIsNews
    <3> QED
      BY <1>0, <2>1, <3>1, <3>3 DEF SynGot, Untouched
  <2>2. CASE PshGot(d, f)
    BY <1>3, <2>2 DEF PshGot, Only
  <2> QED
    BY <1>3, <2>1, <2>2 DEF Received, Skip, AllSame, FinGot, PshLost
<1>4. ASSUME NEW d \in Sides, NEW i \in StreamId, Used(d, i), ~Same(e, id)
      PROVE  \/ UNCHANGED <<got, data_ch, current_chunk>>
             \/ /\ got'[e][id] = got[e][id] /\ data_ch'[e][id] = data_ch[e][id]
                /\ current_chunk'[e][id] = current_chunk[e][id]
             \/ /\ got'[e][id] = got[e][id] /\ data_ch'[e][id] = << >>
                /\ current_chunk'[e][id] = Empty /\ handle'[e][id] = "dropped"
             \/ \E n \in ReadSizes : ReadSome(e, id, n)
  <2>1. d = e /\ i = id
    BY <1>4 DEF Used, Opened, SynPut, Accepted, Resumed, ReadSome, ReadEnd, Wrote,
                Shut, Cancelled, Gone, Only
  <2>2. CASE Opened(e, id)
    BY <1>0, <2>2 DEF Opened, Untouched
  <2>3. CASE Gone(e, id)
    BY <2>3 DEF Gone
  <2> QED
    BY <1>4, <2>1, <2>2, <2>3
       DEF Used, SynPut, Accepted, Resumed, ReadEnd, Wrote, Shut, Cancelled
<1> QED
  BY <1>1, <1>2, <1>3, <1>4 DEF Move

\* The data of a frame that recv_loop delivers continues what has arrived.
LEMMA HeadData ==
  ASSUME Known, Bytes, NEW e \in Sides, NEW f \in FrameSet, PshGot(e, f)
  PROVE  /\ e \in WholeEnds /\ f.id \in StreamId /\ f.data \in Chunk
         /\ In(Pipes[Peer(e)], f) /\ IsData(f)
         /\ f.data.lo = Arrived[e][f.id] /\ f.data.hi <= sent[Peer(e)][f.id]
<1>0. /\ NeverThrottled /\ NobodyReturnsTokens /\ NoGap /\ DataOrdered /\ WithinSent
      /\ Takes(e, f) /\ f.cmd = "PSH" /\ Size(f.data) > 0 /\ tokens[e] > 0
      /\ handle[e][f.id] # "dropped" /\ IsData(f)
  BY DEF Known, Bytes, PshGot, IsData
<1>1. f.id \in StreamId /\ f.data \in Chunk /\ f.data.lo \in Nat /\ f.data.hi \in Nat
  BY ChunkSize DEF FrameSet
<1>2. Peer(e) \in Sides /\ Peer(Peer(e)) = e
  BY Ends
<1>3. MaxReceiveBuffer(e) > 0
  <2>1. MaxReceiveBuffer(e) \in Nat
    BY ConfType
  <2>2. TypeOK /\ recv_len[e] \in Nat
    BY DEF Known, TypeOK, LoopOK
  <2> QED
    BY <1>0, <2>1, <2>2 DEF NobodyReturnsTokens
<1>4. e \in WholeEnds
  BY <1>3 DEF WholeEnds
<1>5. In(Pipes[Peer(e)], f)
  BY <1>0, <1>2 DEF Takes
<1>6. ASSUME NEW h \in FrameSet, Before(Pipes[Peer(e)], h, f) PROVE FALSE
  <2>1. In(Pipes'[Peer(e)], f)
    BY <1>0, <1>2, <1>6, BeforeIn DEF Takes
  <2>2. Before(Pipes[Peer(e)], f, f)
    BY <1>0, <1>2, <2>1 DEF Takes
  <2>3. f.data.hi <= f.data.lo
    BY <1>0, <1>2, <2>2 DEF DataOrdered
  <2> QED
    BY <1>0, <1>1, <2>3 DEF Size
<1>7. f.data.lo = Arrived[e][f.id]
  BY <1>0, <1>2, <1>4, <1>5, <1>6 DEF NoGap
<1>8. f.data.hi <= sent[Peer(e)][f.id]
  BY <1>0, <1>2, <1>5 DEF WithinSent
<1> QED
  BY <1>0, <1>1, <1>4, <1>5, <1>7, <1>8

\* poll_read keeps the reading end linked and moves nothing past what has arrived.
LEMMA ReadStep ==
  ASSUME TypeOK, Reader, NonzeroReads, NEW e \in Sides, NEW id \in StreamId,
         NEW n \in ReadSizes, ReadSome(e, id, n)
  PROVE  LET s == got'[e][id]
             q == data_ch'[e][id]
             c == current_chunk'[e][id]
         IN  /\ Linked(s, q, c, sent[Peer(e)][id])
             /\ Reached(s, q, c) = Arrived[e][id]
             /\ Len(s) > Len(got[e][id])
<1> DEFINE s == got[e][id]
           q == data_ch[e][id]
           c == current_chunk[e][id]
           m == sent[Peer(e)][id]
           a == Arrived[e][id]
<1>0. Peer(e) \in Sides
  BY Ends
<1>1. /\ s \in Seq(Nat) /\ q \in Seq(Chunk) /\ c \in Chunk /\ m \in Nat
      /\ got \in [Sides -> [StreamId -> Seq(Nat)]]
      /\ data_ch \in [Sides -> [StreamId -> Seq(Chunk)]]
      /\ current_chunk \in [Sides -> [StreamId -> Chunk]]
  BY <1>0 DEF TypeOK, StreamOK, HistOK
<1>2. n \in Nat /\ n > 0
  BY ConfigAssumption DEF NonzeroReads
<1>3. Linked(s, q, c, m) /\ a = Reached(s, q, c) /\ Len(s) \in Nat
  BY <1>1, LenProperties DEF Reader, Arrived
<1>4. CASE /\ Size(c) > 0 /\ CopyOut(e, id, n, c) /\ UNCHANGED data_ch
  <2> DEFINE k == Smaller(Size(c), n)
  <2>1. k \in Nat /\ k > 0 /\ k <= Size(c)
    BY <1>1, <1>2, <1>4, ChunkSize DEF Smaller
  <2>2. /\ got'[e][id] = s \o [i \in 1..k |-> c.lo + i]
        /\ current_chunk'[e][id] = Remainder(c, k)
        /\ data_ch'[e][id] = q
    BY <1>1, <1>4 DEF CopyOut
  <2> HIDE DEF k, s, q, c, m, a
  <2>3. LET t == s \o [i \in 1..k |-> c.lo + i]
            r == Remainder(c, k)
        IN  /\ Linked(t, q, r, m) /\ Reached(t, q, r) = Reached(s, q, c)
            /\ Len(t) = Len(s) + k
    BY <1>1, <1>3, <2>1, LinkedCurrent
  <2>4. Len(got'[e][id]) > Len(s)
    BY <1>3, <2>1, <2>2, <2>3
  <2> QED
    BY <1>3, <2>2, <2>3, <2>4 DEF s, m, a
<1>5. CASE /\ Size(c) = 0 /\ ReadQueue(e, id, n)
  <2> DEFINE h == Head(q)
             k == Smaller(Size(h), n)
  <2>1. q # << >> /\ CopyOut(e, id, n, h)
    BY <1>5 DEF ReadQueue
  <2>2. /\ got'[e][id] = s \o [i \in 1..k |-> h.lo + i]
        /\ current_chunk'[e][id] = Remainder(h, k)
        /\ data_ch'[e][id] = Tail(q)
    BY <1>1, <1>5 DEF CopyOut, ReadQueue
  <2> HIDE DEF s, q, c, m, a
  <2>3. h = q[1] /\ h \in Chunk /\ 1 \in 1..Len(q)
    BY <1>1, <2>1, HeadTailProperties, LenProperties, EmptySeq
  <2>4. Size(h) > 0
    BY <1>3, <2>3 DEF Linked
  <2>5. k \in Nat /\ k > 0 /\ k <= Size(h)
    BY <1>2, <2>3, <2>4, ChunkSize DEF Smaller
  <2> HIDE DEF k
  <2>6. LET t == s \o [i \in 1..k |-> Head(q).lo + i]
            r == Remainder(Head(q), k)
        IN  /\ Linked(t, Tail(q), r, m)
            /\ Reached(t, Tail(q), r) = Reached(s, q, c)
            /\ Len(t) = Len(s) + k
    BY <1>1, <1>3, <1>5, <2>1, <2>5, LinkedNext
  <2>7. Len(got'[e][id]) > Len(s)
    BY <1>3, <2>2, <2>5, <2>6
  <2> QED
    BY <1>3, <2>2, <2>6, <2>7 DEF s, m, a
<1> QED
  BY <1>2, <1>4, <1>5 DEF ReadSome

\* A frame that recv_loop delivers is the next to have arrived.
LEMMA PshStep ==
  ASSUME Known, Bytes, NEW e \in Sides, NEW f \in FrameSet, PshGot(e, f)
  PROVE  LET s == got'[e][f.id]
             q == data_ch'[e][f.id]
             c == current_chunk'[e][f.id]
         IN  /\ Linked(s, q, c, sent[Peer(e)][f.id]) /\ s = got[e][f.id]
             /\ Reached(s, q, c) = f.data.hi /\ Arrived'[e][f.id] = f.data.hi
<1> DEFINE id == f.id
           s == got[e][id]
           q == data_ch[e][id]
           c == current_chunk[e][id]
           m == sent[Peer(e)][id]
           a == Arrived[e][id]
<1>0. /\ f.data \in Chunk /\ Size(f.data) > 0 /\ f.data.lo = a /\ f.data.hi <= m
      /\ id \in StreamId
  BY HeadData DEF IsData
<1>1. /\ s \in Seq(Nat) /\ q \in Seq(Chunk) /\ c \in Chunk /\ m \in Nat
      /\ data_ch \in [Sides -> [StreamId -> Seq(Chunk)]]
  BY <1>0, Ends DEF Known, TypeOK, StreamOK, HistOK
<1>2. Linked(s, q, c, m) /\ a = Reached(s, q, c)
  BY <1>0 DEF Bytes, Reader, Arrived
<1>3. s' = s /\ c' = c /\ q' = Append(q, f.data)
  BY <1>0, <1>1 DEF PshGot
<1>4. Arrived'[e][id] = Reached(s', q', c')
  BY <1>0 DEF Arrived
<1> HIDE DEF s, q, c, m, a
<1>5. /\ Linked(s, Append(q, f.data), c, m)
      /\ Reached(s, Append(q, f.data), c) = f.data.hi
  BY <1>0, <1>1, <1>2, LinkedArrives
<1>6. /\ Linked(s', q', c', m) /\ s' = s
      /\ Reached(s', q', c') = f.data.hi /\ Arrived'[e][id] = f.data.hi
  BY <1>3, <1>4, <1>5
<1> QED
  BY <1>6 DEF s, q, c, m

\* What happens to the reading end: it stays linked, it does not unread, and
\* what has arrived grows only by the frame that is delivered.
LEMMA ReaderStep ==
  ASSUME Known, TypeOK', NonzeroReads, Bytes, Move, NEW e \in Sides, NEW id \in StreamId
  PROVE  /\ Linked(got[e][id], data_ch[e][id], current_chunk[e][id],
                   sent[Peer(e)][id])'
         /\ got'[e][id] = got[e][id] \/ \E n \in ReadSizes : ReadSome(e, id, n)
         /\ Len(got[e][id]) <= Len(got'[e][id])
         /\ \/ Arrived'[e][id] = Arrived[e][id]
            \/ handle'[e][id] = "dropped"
            \/ \E f \in FrameSet : /\ PshGot(e, f) /\ f.id = id
                                   /\ Arrived'[e][id] = f.data.hi
<1> DEFINE s == got[e][id]
           q == data_ch[e][id]
           c == current_chunk[e][id]
           m == sent[Peer(e)][id]
           n == sent'[Peer(e)][id]
           a == Arrived[e][id]
           b == Arrived'[e][id]
<1>0. Peer(e) \in Sides /\ TypeOK /\ Origin /\ Reader
  BY Ends DEF Known, Bytes
<1>1. /\ s \in Seq(Nat) /\ q \in Seq(Chunk) /\ c \in Chunk /\ m \in Nat /\ n \in Nat
      /\ s' \in Seq(Nat) /\ q' \in Seq(Chunk) /\ c' \in Chunk
  BY <1>0 DEF TypeOK, StreamOK, HistOK
<1>2. m <= n
  <2>1. n = m \/ \E k \in Nat : n = m + k
    BY <1>0, SentStep
  <2> QED
    BY <1>1, <2>1
<1>3. /\ Linked(s, q, c, m) /\ a = Reached(s, q, c) /\ b = Reached(s', q', c')
      /\ Len(s) \in Nat
  BY <1>0, <1>1, LenProperties DEF Reader, Arrived
<1>4. CASE s' = s /\ q' = q /\ c' = c
  <2> HIDE DEF s, q, c, m, n, a, b
  <2>1. Linked(s, q, c, n)
    BY <1>1, <1>2, <1>3, LinkedMore
  <2>2. Linked(s', q', c', n) /\ b = a /\ Len(s) <= Len(s')
    BY <1>3, <1>4, <2>1
  <2> QED
    BY <1>4, <2>2 DEF s, q, c, n, a, b
<1>5. CASE s' = s /\ q' = << >> /\ c' = Empty /\ handle'[e][id] = "dropped"
  <2> HIDE DEF s, q, c, m, n, a, b
  <2>1. Linked(s, << >>, Empty, m)
    BY <1>1, <1>3, LinkedDropped
  <2>2. << >> \in Seq(Chunk) /\ Empty \in Chunk
    BY EmptyType
  <2>3. Linked(s, << >>, Empty, n)
    BY <1>1, <1>2, <2>1, <2>2, LinkedMore
  <2>4. Linked(s', q', c', n) /\ Len(s) <= Len(s')
    BY <1>3, <1>5, <2>3
  <2> QED
    BY <1>5, <2>4 DEF s, q, c, n
<1>6. ASSUME NEW k \in ReadSizes, ReadSome(e, id, k)
      PROVE  Linked(s', q', c', n) /\ b = a /\ Len(s) <= Len(s')
  <2>1. Linked(s', q', c', m) /\ Reached(s', q', c') = a /\ Len(s') > Len(s)
    BY <1>0, <1>6, ReadStep
  <2>2. Len(s') \in Nat
    BY <1>1, LenProperties
  <2> HIDE DEF s, q, c, m, n, a, b
  <2>3. Linked(s', q', c', n)
    BY <1>1, <1>2, <2>1, LinkedMore
  <2> QED
    BY <1>3, <2>1, <2>2, <2>3
<1>7. ASSUME NEW f \in FrameSet, PshGot(e, f), f.id = id
      PROVE  /\ Linked(s', q', c', n) /\ Len(s) <= Len(s') /\ s' = s
             /\ b = f.data.hi
  <2>1. Linked(s', q', c', m) /\ s' = s /\ b = f.data.hi
    BY <1>7, PshStep
  <2> HIDE DEF s, q, c, m, n, a, b
  <2>2. Linked(s', q', c', n)
    BY <1>1, <1>2, <2>1, LinkedMore
  <2> QED
    BY <1>3, <2>1, <2>2
<1> QED
  BY <1>0, <1>4, <1>5, <1>6, <1>7, ReaderMoves

\* recv_loop of a whole end delivers the data it reads, as long as the
\* application has the Stream.
LEMMA GetsData ==
  ASSUME Known, Bytes, NeverThrottled', NEW e \in Sides, NEW h \in FrameSet,
         IsData(h), Received(e, h), e \in WholeEnds', handle[e][h.id] # "dropped"
  PROVE  PshGot(e, h)
<1>0. /\ Order /\ DataOrdered /\ h.cmd = "PSH" /\ Size(h.data) > 0 /\ h.id \in StreamId
      /\ h.data \in Chunk /\ Peer(e) \in Sides /\ Peer(Peer(e)) = e
  BY Ends DEF Known, Bytes, IsData, FrameSet
<1>1. ~Skip(e, h)
  BY <1>0 DEF Skip, WholeEnds, NeverThrottled, MaxReceiveBuffer
<1>2. ASSUME PshLost(e, h) PROVE FALSE
  <2>1. Takes(e, h) /\ h.id \notin streams[e] /\ In(Pipes[Peer(e)], h)
    BY <1>0, <1>2 DEF PshLost, Takes
  <2>2. handle[e][h.id] = "none"
    BY <1>0, <2>1 DEF Order, Forgotten
  <2>3. Before(Pipes[Peer(e)], Syn(h.id), h)
    BY <1>0, <2>1, <2>2 DEF Order, BehindSyn
  <2>4. Syn(h.id) \in FrameSet /\ Syn(h.id) # h
    BY <1>0, FrameType, EmptyType, FrameFields
  <2>5. In(Pipes'[Peer(e)], h)
    BY <1>0, <2>1, <2>3, <2>4, BeforeIn DEF Takes
  <2>6. Before(Pipes[Peer(e)], h, h)
    BY <1>0, <2>1, <2>5 DEF Takes
  <2>7. h.data.hi <= h.data.lo
    BY <1>0, <2>6 DEF DataOrdered
  <2> QED
    BY <1>0, <2>7, ChunkSize DEF Size
<1> QED
  BY <1>0, <1>1, <1>2 DEF Received, SynGot, FinGot

\* No data is added, and no order of data is new.
DataThins ==
  \A d \in Sides, g, h \in FrameSet :
    /\ In(Pipes'[d], g) /\ g.cmd = "PSH" => In(Pipes[d], g)
    /\ Before(Pipes'[d], h, g) /\ g.cmd = "PSH" /\ h.cmd = "PSH" =>
         Before(Pipes[d], h, g)

\* Only poll_write adds data.
LEMMA DataSteps ==
  ASSUME TypeOK, Move
  PROVE  \/ DataThins
         \/ \E e \in Sides, id \in StreamId, k \in Nat : Wrote(e, id, k)
<1>0. Thins => DataThins
  BY FrameFields DEF Thins, DataThins
<1>1. Keeps => DataThins
  BY <1>0, ThinsMoves
<1>2. ASSUME NEW e \in Sides, NEW f \in FrameSet, Puts(e, f), f.cmd # "PSH"
      PROVE  DataThins
  BY <1>2 DEF Puts, DataThins
<1>3. ASSUME NEW e \in Sides, Exit(e) PROVE DataThins
  BY <1>0, <1>3, ThinsMoves, NopType DEF Exit
<1>4. ASSUME NEW e \in Sides, NEW f \in FrameSet, Received(e, f) PROVE DataThins
  BY <1>0, <1>4, ThinsMoves DEF Received, Skip, SynGot, FinGot, PshGot, PshLost
<1>5. ASSUME NEW e \in Sides, NEW id \in StreamId, Used(e, id)
      PROVE  DataThins \/ \E k \in Nat : Wrote(e, id, k)
  <2>0. Syn(id) \in FrameSet /\ Fin(id) \in FrameSet
    BY FrameType, EmptyType
  <2>1. CASE SynPut(e, id)
    BY <1>2, <2>0, <2>1, FrameFields DEF SynPut
  <2>2. FinPut(e, id) => DataThins
    BY <1>2, <2>0, FrameFields DEF FinPut
  <2>3. CASE Shut(e, id)
    BY <1>1, <2>2, <2>3 DEF Shut, NoFinPut
  <2>4. CASE Gone(e, id)
    BY <1>0, <1>1, <2>0, <2>2, <2>4, ThinsMoves DEF Gone, NoFinPut
  <2>5. CASE Cancelled(e, id)
    BY <1>0, <2>0, <2>5, ThinsMoves DEF Cancelled
  <2> QED
    BY <1>1, <1>5, <2>1, <2>3, <2>4, <2>5
       DEF Used, Opened, Accepted, Resumed, ReadSome, ReadEnd
<1> QED
  BY <1>1, <1>3, <1>4, <1>5 DEF Move, Idle, Counted

\* The frame that poll_write sends.
Written(e, id, k) == Psh(id, [lo |-> sent[e][id], hi |-> sent[e][id] + k])

\* Its fields.
LEMMA WrittenFields ==
  ASSUME TypeOK, NEW e \in Sides, NEW id \in StreamId, NEW k \in Nat
  PROVE  LET f == Written(e, id, k)
         IN  /\ f \in FrameSet /\ f.cmd = "PSH" /\ f.id = id
             /\ f.data.lo = sent[e][id] /\ f.data.hi = sent[e][id] + k
             /\ Size(f.data) = k /\ sent[e][id] \in Nat
<1> DEFINE c == [lo |-> sent[e][id], hi |-> sent[e][id] + k]
<1>1. sent[e][id] \in Nat
  BY DEF TypeOK, HistOK
<1>2. c \in Chunk /\ c.lo = sent[e][id] /\ c.hi = sent[e][id] + k /\ Size(c) = k
  BY <1>1 DEF Chunk, Size
<1> HIDE DEF c
<1>3. Psh(id, c) \in FrameSet /\ Psh(id, c).cmd = "PSH" /\ Psh(id, c).id = id
      /\ Psh(id, c).data = c
  BY <1>2, FrameType, FrameFields
<1> QED
  BY <1>1, <1>2, <1>3 DEF Written, c

\* The data on its way stays within what was written, and in order.
LEMMA DataOrderedStep ==
  ASSUME Known, Bytes, Move
  PROVE  WithinSent' /\ DataOrdered'
<1>0. TypeOK /\ WithinSent /\ DataOrdered
  BY DEF Known, Bytes
<1>1. \A g \in FrameSet : g.id \in StreamId /\ g.data.hi \in Nat
  BY ChunkSize DEF FrameSet
<1>2. \A d \in Sides, i \in StreamId : /\ sent[d][i] \in Nat /\ sent'[d][i] \in Nat
                                       /\ sent[d][i] <= sent'[d][i]
  <2> SUFFICES ASSUME NEW d \in Sides, NEW i \in StreamId
               PROVE  /\ sent[d][i] \in Nat /\ sent'[d][i] \in Nat
                      /\ sent[d][i] <= sent'[d][i]
    OBVIOUS
  <2>1. sent[d][i] \in Nat
    BY <1>0 DEF TypeOK, HistOK
  <2>2. sent'[d][i] = sent[d][i] \/ \E k \in Nat : sent'[d][i] = sent[d][i] + k
    BY <1>0, SentStep
  <2> QED
    BY <2>1, <2>2
<1>3. CASE DataThins
  <2>1. WithinSent'
    <3> SUFFICES ASSUME NEW w \in Sides, NEW g \in FrameSet, In(Pipes'[w], g),
                        g.cmd = "PSH"
                 PROVE  g.data.hi <= sent'[w][g.id]
      BY DEF WithinSent
    <3>1. g.data.hi <= sent[w][g.id]
      BY <1>0, <1>3 DEF WithinSent, DataThins
    <3> QED
      BY <1>1, <1>2, <3>1
  <2>2. DataOrdered'
    BY <1>0, <1>3 DEF DataOrdered, DataThins
  <2> QED
    BY <2>1, <2>2
<1>4. ASSUME NEW e \in Sides, NEW id \in StreamId, NEW k \in Nat, Wrote(e, id, k)
      PROVE  WithinSent' /\ DataOrdered'
  <2> DEFINE f == Written(e, id, k)
  <2>1. /\ f \in FrameSet /\ f.cmd = "PSH" /\ f.id = id
        /\ f.data.lo = sent[e][id] /\ f.data.hi = sent[e][id] + k
    BY <1>0, WrittenFields
  <2>2. Puts(e, f) /\ sent'[e][id] = sent[e][id] + k
    BY <1>0, <1>4 DEF Wrote, Written, TypeOK, HistOK
  <2> HIDE DEF f
  <2>3. WithinSent'
    <3> SUFFICES ASSUME NEW w \in Sides, NEW g \in FrameSet, In(Pipes'[w], g),
                        g.cmd = "PSH"
                 PROVE  g.data.hi <= sent'[w][g.id]
      BY DEF WithinSent
    <3>1. CASE In(Pipes[w], g)
      <4>1. g.data.hi <= sent[w][g.id]
        BY <1>0, <3>1 DEF WithinSent
      <4> QED
        BY <1>1, <1>2, <4>1
    <3>2. CASE w = e /\ g = f
      BY <1>2, <2>1, <2>2, <3>2
    <3> QED
      BY <2>2, <3>1, <3>2 DEF Puts
  <2>4. DataOrdered'
    <3> SUFFICES ASSUME NEW w \in Sides, NEW g \in FrameSet, NEW h \in FrameSet,
                        Before(Pipes'[w], g, h), g.cmd = "PSH", h.cmd = "PSH",
                        g.id = h.id
                 PROVE  g.data.hi <= h.data.lo
      BY DEF DataOrdered
    <3>1. CASE Before(Pipes[w], g, h)
      BY <1>0, <3>1 DEF DataOrdered
    <3>2. CASE w = e /\ h = f /\ In(Pipes[w], g)
      BY <1>0, <2>1, <3>2 DEF WithinSent
    <3> QED
      BY <2>1, <2>2, <3>1, <3>2 DEF Puts
  <2> QED
    BY <2>3, <2>4
<1> QED
  BY <1>0, <1>3, <1>4, DataSteps

\* Of two frames on their way, one is before the other.
LEMMA FramesTotal ==
  ASSUME TypeOK, NEW w \in Sides, NEW g, NEW h, In(Pipes[w], g), In(Pipes[w], h), g # h
  PROVE  Before(Pipes[w], g, h) \/ Before(Pipes[w], h, g)
<1> DEFINE p == Pipes[w]
<1>1. Len(p) \in Nat
  BY PipesType, LenProperties
<1> HIDE DEF p
<1>2. PICK i \in 1..Len(p) : p[i] = g
  BY DEF In, p
<1>3. PICK j \in 1..Len(p) : p[j] = h
  BY DEF In, p
<1>4. i < j \/ j < i
  BY <1>1, <1>2, <1>3
<1>5. Before(p, g, h) \/ Before(p, h, g)
  BY <1>2, <1>3, <1>4 DEF Before
<1> QED
  BY <1>5 DEF p

\* What has arrived changes only by a delivery, at a Stream that is not dropped.
LEMMA ArrivedStep ==
  ASSUME Known, TypeOK', NonzeroReads, Bytes, Move, NEW e \in Sides, NEW id \in StreamId,
         handle'[e][id] # "dropped"
  PROVE  \/ Arrived'[e][id] = Arrived[e][id]
         \/ \E f \in FrameSet :
              /\ PshGot(e, f) /\ f.id = id /\ Takes(e, f)
              /\ f.cmd = "PSH" /\ f.data.lo \in Nat /\ f.data.hi \in Nat
              /\ f.data.lo < f.data.hi /\ f.data.lo = Arrived[e][id]
              /\ f.data.hi <= sent[Peer(e)][id]
<1>1. ASSUME NEW f \in FrameSet, PshGot(e, f), f.id = id
      PROVE  /\ Takes(e, f)
             /\ f.cmd = "PSH" /\ f.data.lo \in Nat /\ f.data.hi \in Nat
             /\ f.data.lo < f.data.hi /\ f.data.lo = Arrived[e][id]
             /\ f.data.hi <= sent[Peer(e)][id]
  <2>1. Takes(e, f) /\ f.cmd = "PSH"
    BY <1>1 DEF PshGot
  <2>2. /\ f.data \in Chunk /\ Size(f.data) > 0
        /\ f.data.lo = Arrived[e][id] /\ f.data.hi <= sent[Peer(e)][id]
    BY <1>1, HeadData DEF IsData
  <2>3. f.data.lo \in Nat /\ f.data.hi \in Nat /\ f.data.lo < f.data.hi
    BY <2>2, ChunkSize DEF Size
  <2> QED
    BY <2>1, <2>2, <2>3
<1> QED
  BY <1>1, ReaderStep

\* No gap opens in the data on its way.
LEMMA NoGapStep ==
  ASSUME Known, TypeOK', NeverThrottled', NonzeroReads, Bytes, Move, [Next]_vars
  PROVE  NoGap'
<1> SUFFICES ASSUME NEW w \in Sides, NEW g \in FrameSet,
                    Peer(w) \in WholeEnds', handle'[Peer(w)][g.id] # "dropped",
                    In(Pipes'[w], g), IsData(g)
             PROVE  \/ g.data.lo = Arrived'[Peer(w)][g.id]
                    \/ \E h \in FrameSet :
                         /\ IsData(h) /\ h.id = g.id /\ h.data.hi = g.data.lo
                         /\ Before(Pipes'[w], h, g)
  BY DEF NoGap
<1> DEFINE e == Peer(w)
<1>0. /\ TypeOK /\ Origin /\ Order /\ NoGap /\ NoneMissing /\ DataOrdered /\ WithinSent
      /\ e \in Sides /\ Peer(e) = w /\ g.id \in StreamId /\ g.data \in Chunk
      /\ g.cmd = "PSH" /\ Size(g.data) > 0
  BY Ends DEF Known, Bytes, IsData, FrameSet
<1>1. e \in WholeEnds /\ handle[e][g.id] # "dropped"
  BY <1>0, EndsStep, StreamSteps
<1>2. g.data.lo \in Nat /\ g.data.hi \in Nat /\ g.data.lo < g.data.hi
  BY <1>0, ChunkSize DEF Size
<1> HIDE DEF e
<1>3. ASSUME In(Pipes[w], g), g.data.lo = Arrived[e][g.id]
      PROVE  g.data.lo = Arrived'[e][g.id]
  <2>1. CASE Arrived'[e][g.id] = Arrived[e][g.id]
    BY <1>3, <2>1
  <2>2. ASSUME NEW f \in FrameSet, Takes(e, f), f.cmd = "PSH", f.id = g.id,
               f.data.lo \in Nat, f.data.hi \in Nat, f.data.lo < f.data.hi,
               f.data.lo = Arrived[e][g.id]
        PROVE  FALSE
    <3>1. Before(Pipes[w], f, g)
      BY <1>0, <2>2 DEF Takes
    <3>2. f.data.hi <= g.data.lo
      BY <1>0, <2>2, <3>1 DEF DataOrdered
    <3> QED
      BY <1>2, <1>3, <2>2, <3>2
  <2> QED
    BY <1>0, <2>1, <2>2, ArrivedStep DEF e
<1>4. ASSUME In(Pipes[w], g), NEW h \in FrameSet, IsData(h), h.id = g.id,
             h.data.hi = g.data.lo, Before(Pipes[w], h, g)
      PROVE  g.data.lo = Arrived'[e][g.id] \/ Before(Pipes'[w], h, g)
  <2>1. h.cmd = "PSH" /\ h.data.lo \in Nat /\ h.data.hi \in Nat /\ h.data.lo < h.data.hi
    <3>1. h.cmd = "PSH" /\ Size(h.data) > 0 /\ h.data \in Chunk
      BY <1>4 DEF IsData, FrameSet
    <3> QED
      BY <3>1, ChunkSize DEF Size
  <2>2. ~Before(Pipes[w], g, h)
    <3>1. Before(Pipes[w], g, h) => g.data.hi <= h.data.lo
      BY <1>0, <1>4, <2>1 DEF DataOrdered
    <3> QED
      BY <1>2, <1>4, <2>1, <3>1
  <2>3. g # Nop /\ h # Nop /\ g # h
    BY <1>0, <1>4, <2>1, <2>2, FrameFields
  <2>4. CASE Received(e, h)
    <3>1. PshGot(e, h)
      BY <1>0, <1>1, <1>4, <2>4, GetsData DEF e
    <3> QED
      BY <1>0, <1>4, <3>1, PshStep
  <2>5. \A id \in StreamId : h # Fin(id) /\ h # Syn(id)
    BY <2>1, FrameFields
  <2> QED
    BY <1>0, <1>4, <2>2, <2>3, <2>4, <2>5, OrderStays DEF e
<1>5. CASE In(Pipes[w], g)
  <2>1. \/ g.data.lo = Arrived[e][g.id]
        \/ \E h \in FrameSet : /\ IsData(h) /\ h.id = g.id /\ h.data.hi = g.data.lo
                               /\ Before(Pipes[w], h, g)
    BY <1>0, <1>1, <1>5 DEF NoGap, e
  <2> QED
    BY <1>3, <1>4, <1>5, <2>1 DEF e
<1>6. ASSUME ~In(Pipes[w], g), NEW d \in Sides, NEW id \in StreamId, NEW k \in Nat,
             Wrote(d, id, k)
      PROVE  \/ g.data.lo = Arrived'[e][g.id]
             \/ \E h \in FrameSet :
                  /\ IsData(h) /\ h.id = g.id /\ h.data.hi = g.data.lo
                  /\ Before(Pipes'[w], h, g)
  <2>1. Puts(d, Written(d, id, k)) /\ send_pc[d] # "done"
    BY <1>6 DEF Wrote, Written
  <2>2. d = w /\ g = Written(d, id, k)
    BY <1>6, <2>1 DEF Puts
  <2>3. g.id = id /\ g.data.lo = sent[w][id]
    BY <1>0, <2>2, WrittenFields
  <2>4. \/ sent[w][id] = Arrived[e][id]
        \/ \E h \in FrameSet : /\ IsData(h) /\ h.id = id /\ h.data.hi = sent[w][id]
                               /\ In(Pipes[w], h)
    BY <1>0, <1>1, <2>1, <2>2, <2>3 DEF NoneMissing, e
  <2>5. Arrived'[e][id] = Arrived[e][id]
    BY <1>0, <1>6 DEF Wrote, Arrived
  <2>6. ASSUME NEW h \in FrameSet, In(Pipes[w], h) PROVE Before(Pipes'[w], h, g)
    BY <2>1, <2>2, <2>6 DEF Puts
  <2> QED
    BY <2>3, <2>4, <2>5, <2>6
<1>7. CASE DataThins
  BY <1>0, <1>5, <1>7 DEF DataThins
<1> QED
  BY <1>0, <1>5, <1>6, <1>7, DataSteps DEF e

\* The last of the data is not lost.
LEMMA NoneMissingStep ==
  ASSUME Known, TypeOK', NeverThrottled', NonzeroReads, Bytes, Move, [Next]_vars
  PROVE  NoneMissing'
<1> SUFFICES ASSUME NEW w \in Sides, NEW id \in StreamId,
                    Peer(w) \in WholeEnds', handle'[Peer(w)][id] # "dropped",
                    send_pc'[w] # "done" \/ In(Pipes'[w], Fin(id))
             PROVE  \/ sent'[w][id] = Arrived'[Peer(w)][id]
                    \/ \E h \in FrameSet :
                         /\ IsData(h) /\ h.id = id /\ h.data.hi = sent'[w][id]
                         /\ In(Pipes'[w], h)
  BY DEF NoneMissing
<1> DEFINE e == Peer(w)
<1>0. /\ TypeOK /\ Origin /\ Order /\ NoneMissing /\ e \in Sides /\ Peer(e) = w
      /\ Fin(id) \in FrameSet /\ sent[w][id] \in Nat
  BY Ends, FrameType, EmptyType, ZenonT(30) DEF Known, Bytes, TypeOK, HistOK
<1>1. e \in WholeEnds /\ handle[e][id] # "dropped"
  BY <1>0, EndsStep, StreamSteps
<1> HIDE DEF e
<1>2. ASSUME NEW k \in Nat, k > 0, Wrote(w, id, k), sent'[w][id] = sent[w][id] + k
      PROVE  \E h \in FrameSet : /\ IsData(h) /\ h.id = id /\ h.data.hi = sent'[w][id]
                                 /\ In(Pipes'[w], h)
  <2> DEFINE f == Written(w, id, k)
  <2>1. Puts(w, f)
    BY <1>2 DEF Wrote, Written
  <2>2. /\ f \in FrameSet /\ f.cmd = "PSH" /\ f.id = id
        /\ f.data.hi = sent[w][id] + k /\ Size(f.data) = k
    BY <1>0, WrittenFields
  <2> HIDE DEF f
  <2>3. In(Pipes'[w], f) /\ IsData(f)
    BY <1>2, <2>1, <2>2 DEF Puts, IsData
  <2> QED
    BY <1>2, <2>2, <2>3
<1>3. In(Pipes'[w], Fin(id)) => In(Pipes[w], Fin(id)) \/ Sends(w, Fin(id))
  BY <1>0, NewFrames, FrameFields
<1>4. send_pc[w] # "done" \/ In(Pipes[w], Fin(id))
  BY <1>0, <1>3, StreamSteps DEF Sends
<1>5. \/ sent[w][id] = Arrived[e][id]
      \/ \E h \in FrameSet : /\ IsData(h) /\ h.id = id /\ h.data.hi = sent[w][id]
                             /\ In(Pipes[w], h)
  BY <1>0, <1>1, <1>4 DEF NoneMissing, e
<1>6. ASSUME sent[w][id] = Arrived[e][id] PROVE Arrived'[e][id] = Arrived[e][id]
  <2>1. ASSUME NEW f \in FrameSet, f.data.lo \in Nat, f.data.hi \in Nat,
               f.data.lo < f.data.hi, f.data.lo = Arrived[e][id],
               f.data.hi <= sent[w][id]
        PROVE  FALSE
    BY <1>0, <1>6, <2>1
  <2> QED
    BY <1>0, <2>1, ArrivedStep DEF e
<1>7. ASSUME NEW h \in FrameSet, IsData(h), h.id = id, In(Pipes[w], h)
      PROVE  In(Pipes'[w], h) \/ Arrived'[e][id] = h.data.hi
  <2>1. h.cmd = "PSH" /\ h # Nop /\ \A i \in StreamId : h # Fin(i) /\ h # Syn(i)
    BY <1>7, FrameFields DEF IsData
  <2>2. Received(e, h) => Arrived'[e][id] = h.data.hi
    BY <1>0, <1>1, <1>7, GetsData, PshStep DEF e
  <2>3. CASE send_pc'[w] # "done"
    BY <1>0, <1>7, <2>1, <2>2, <2>3, FramesStay DEF e
  <2>4. CASE In(Pipes[w], Fin(id)) /\ In(Pipes'[w], Fin(id))
    <3>0. Fin(id).cmd = "FIN" /\ Fin(id).id = id
      BY FrameFields
    <3>1. ~Before(Pipes[w], Fin(id), h)
      BY <1>0, <1>7, <2>1, <3>0 DEF Order, FinLast
    <3>2. Before(Pipes[w], h, Fin(id))
      BY <1>0, <1>7, <2>1, <2>4, <3>1, FramesTotal
    <3>3. Fin(id) # Nop
      BY FrameFields
    <3>4. Before(Pipes'[w], h, Fin(id)) \/ Received(e, h)
      BY <1>0, <2>1, <2>4, <3>1, <3>2, <3>3, OrderStays DEF e
    <3> QED
      BY <2>2, <3>4, BeforeIn
  <2>5. Sends(w, Fin(id)) => send_pc'[w] # "done"
    BY DEF Sends, LinksSame
  <2> QED
    BY <1>3, <2>3, <2>4, <2>5
<1>8. CASE sent'[w][id] = sent[w][id]
  BY <1>5, <1>6, <1>7, <1>8 DEF e
<1> QED
  BY <1>0, <1>2, <1>8, SentStep DEF e

\* A session forgets a stream only when everything has arrived.
LEMMA AllArrivedStep ==
  ASSUME Known, TypeOK', NonzeroReads, Bytes, Move, [Next]_vars
  PROVE  AllArrived'
<1> SUFFICES ASSUME NEW w \in Sides, NEW id \in StreamId,
                    Peer(w) \in ReadableEnds',
                    handle'[Peer(w)][id] \notin {"none", "dropped"},
                    id \notin streams'[Peer(w)]
             PROVE  sent'[w][id] = Arrived'[Peer(w)][id]
  BY DEF AllArrived
<1> DEFINE e == Peer(w)
<1>0. /\ TypeOK /\ Origin /\ Order /\ NoneMissing /\ AllArrived
      /\ e \in Sides /\ Peer(e) = w
  BY Ends DEF Known, Bytes
<1>1. e \in ReadableEnds /\ handle[e][id] \notin {"none", "dropped"}
  BY <1>0, EndsStep, StreamSteps
<1> HIDE DEF e
<1>2. CASE id \notin streams[e]
  <2>1. sent[w][id] = Arrived[e][id]
    BY <1>0, <1>1, <1>2 DEF AllArrived, e
  <2>2. id \in is_write_closed[w]
    BY <1>0, <1>1, <1>2 DEF Order, Forgotten, e
  <2>3. sent'[w][id] = sent[w][id]
    BY <1>0, <2>2, SentStep DEF Wrote
  <2>4. Arrived'[e][id] = Arrived[e][id]
    <3>1. ASSUME NEW f \in FrameSet, PshGot(e, f), f.id = id PROVE FALSE
      BY <1>2, <3>1 DEF PshGot
    <3> QED
      BY <1>0, <3>1, ArrivedStep DEF e
  <2> QED
    BY <2>1, <2>3, <2>4 DEF e
<1>3. ASSUME NEW f \in FrameSet, FinGot(e, f), f.id = id
      PROVE  sent'[w][id] = Arrived'[e][id]
  <2>1. Takes(e, f) /\ f.cmd = "FIN" /\ recv_pc[e] = "select" /\ In(Pipes[w], f)
    BY <1>0, <1>3 DEF FinGot, Takes
  <2>2. e \in WholeEnds
    BY <1>1, <2>1 DEF WholeEnds, ReadableEnds
  <2>3. f = Fin(id)
    <3>1. f.data = Empty
      BY <1>0, <2>1, FrameFields DEF Origin, FramesOwned
    <3> QED
      BY <1>3, <2>1, <3>1 DEF FrameSet, Fin, Frame
  <2>4. ASSUME NEW h \in FrameSet, IsData(h), h.id = id, In(Pipes[w], h) PROVE FALSE
    <3>1. h.cmd = "PSH" /\ h # f
      BY <2>1, <2>4 DEF IsData
    <3>2. ~Before(Pipes[w], f, h) /\ ~Before(Pipes[w], f, f)
      BY <1>0, <1>3, <2>1, <2>4, <3>1 DEF Order, FinLast
    <3>3. Before(Pipes[w], h, f)
      BY <1>0, <2>1, <2>4, <3>1, <3>2, FramesTotal
    <3>4. In(Pipes'[w], f)
      BY <1>0, <2>1, <3>1, <3>3, BeforeIn DEF Takes
    <3> QED
      BY <1>0, <2>1, <3>2, <3>4 DEF Takes
  <2>5. sent[w][id] = Arrived[e][id]
    BY <1>0, <1>1, <2>1, <2>2, <2>3, <2>4 DEF NoneMissing, e
  <2>6. sent' = sent /\ Arrived' = Arrived
    BY <1>3 DEF FinGot, Arrived
  <2> QED
    BY <2>5, <2>6
<1> QED
  BY <1>0, <1>1, <1>2, <1>3, UseSteps DEF e

\* Only a poll_read that finds the end of the stream reports it.
LEMMA EofSteps ==
  ASSUME Move, TypeOK, NEW e \in Sides, NEW id \in StreamId, id \in eof'[e]
  PROVE  id \in eof[e] \/ ReadEnd(e, id)
<1>1. CASE Same(e, id)
  BY <1>1 DEF Same
<1>2. CASE Idle \/ \E d \in Sides : Exit(d) \/ Counted(d)
  BY <1>1, <1>2 DEF Idle, Exit, Counted, AllSame
<1>3. ASSUME NEW d \in Sides, NEW f \in FrameSet, Received(d, f)
      PROVE  UNCHANGED eof \/ Same(e, id)
  BY <1>3 DEF Received, Skip, AllSame, SynGot, FinGot, PshGot, PshLost
<1>4. ASSUME NEW d \in Sides, NEW i \in StreamId, Used(d, i), ~Same(e, id)
      PROVE  UNCHANGED eof \/ ReadEnd(e, id)
  <2>1. CASE ReadEnd(d, i)
    BY <1>4, <2>1 DEF ReadEnd, Only
  <2> QED
    BY <1>4, <2>1 DEF Used, Opened, SynPut, Accepted, Resumed, ReadSome, Wrote,
                      Shut, Cancelled, Gone
<1> QED
  BY <1>1, <1>2, <1>3, <1>4 DEF Move

\* poll_read reports the end only behind everything that was written.
LEMMA EofThereStep ==
  ASSUME Known, TypeOK', NonzeroReads, Bytes, Move, [Next]_vars
  PROVE  EofThere'
<1> SUFFICES ASSUME NEW e \in Sides, NEW id \in StreamId, id \in eof'[e],
                    ~InnerDropped(e)', e \in ReadableEnds'
             PROVE  /\ id \in is_write_closed'[Peer(e)]
                    /\ Len(got'[e][id]) = sent'[Peer(e)][id]
  BY DEF EofThere
<1> DEFINE w == Peer(e)
<1>0. /\ TypeOK /\ Origin /\ Order /\ AllArrived /\ EofThere
      /\ w \in Sides /\ Peer(w) = e
  BY Ends DEF Known, Bytes
<1>3. ~InnerDropped(e) /\ e \in ReadableEnds
  BY <1>0, InnerStays, EndsStep
<1> HIDE DEF w
<1>1. CASE id \in eof[e]
  <2>1. id \in is_write_closed[w] /\ Len(got[e][id]) = sent[w][id]
    BY <1>0, <1>1, <1>3 DEF EofThere, w
  <2>2. id \in is_write_closed'[w]
    BY <1>0, <2>1, StreamSteps
  <2>3. sent'[w][id] = sent[w][id]
    BY <1>0, <2>1, SentStep DEF Wrote
  <2>4. Len(got[e][id]) <= Len(got'[e][id])
    BY ReaderStep
  <2>5. Linked(got[e][id], data_ch[e][id], current_chunk[e][id], sent[w][id])'
    BY ReaderStep DEF w
  <2>6. /\ got'[e][id] \in Seq(Nat) /\ data_ch'[e][id] \in Seq(Chunk)
        /\ current_chunk'[e][id] \in Chunk /\ sent'[w][id] \in Nat
        /\ got[e][id] \in Seq(Nat)
    BY <1>0 DEF TypeOK, StreamOK, HistOK
  <2>7. Len(got'[e][id]) <= sent'[w][id]
    BY <2>5, <2>6, LinkedBound
  <2>8. Len(got'[e][id]) \in Nat /\ Len(got[e][id]) \in Nat
    BY <2>6, LenProperties
  <2>9. Len(got'[e][id]) = sent'[w][id]
    BY <2>1, <2>3, <2>4, <2>6, <2>7, <2>8
  <2> QED
    BY <2>2, <2>9 DEF w
<1>2. CASE ReadEnd(e, id)
  <2>1. e \in ReadableEnds /\ handle[e][id] = "open" /\ id \notin streams[e]
    BY <1>2, <1>3 DEF ReadEnd, Disconnected
  <2>2. id \in is_write_closed[w] /\ sent[w][id] = Arrived[e][id]
    BY <1>0, <2>1 DEF AllArrived, Order, Forgotten
  <2>3. Arrived[e][id] = Len(got[e][id])
    BY <1>2 DEF ReadEnd, Arrived, Reached, After
  <2>4. UNCHANGED <<is_write_closed, got, sent>>
    BY <1>2 DEF ReadEnd
  <2> QED
    BY <2>2, <2>3, <2>4 DEF w
<1> QED
  BY <1>0, <1>1, <1>2, EofSteps

\* At the start nothing is written.
LEMMA InitBytes == Init => Bytes
<1> SUFFICES ASSUME Init PROVE Bytes
  OBVIOUS
<1>0. \A e \in Sides : Peer(e) \in Sides
  BY Ends
<1>1. \A w \in Sides : Pipes[w] = << >>
  BY ConcatEmptySeq DEF Init, Pipes, Pipe
<1>2. \A w \in Sides : \A g : ~In(Pipes[w], g)
  BY <1>1 DEF In
<1>3. \A w \in Sides : \A g, h : ~Before(Pipes[w], g, h)
  BY <1>1 DEF Before
<1>4. \A e \in Sides, id \in StreamId :
        /\ got[e][id] = << >> /\ data_ch[e][id] = << >>
        /\ current_chunk[e][id] = Empty /\ sent[e][id] = 0 /\ id \notin eof[e]
        /\ handle[e][id] = "none"
  BY DEF Init
<1>5. Size(Empty) = 0 /\ Len(<< >>) = 0
  BY EmptyType, EmptySeq
<1>6. Reader
  BY <1>0, <1>4, <1>5 DEF Reader, Linked, After
<1>7. \A e \in Sides, id \in StreamId : Arrived[e][id] = 0
  BY <1>4, <1>5 DEF Arrived, Reached, After
<1>8. WithinSent /\ NoGap
  BY <1>2 DEF WithinSent, NoGap
<1>9. DataOrdered
  BY <1>3 DEF DataOrdered
<1>10. NoneMissing /\ AllArrived
  BY <1>0, <1>4, <1>7 DEF NoneMissing, AllArrived
<1>11. EofThere
  BY <1>4 DEF EofThere
<1> QED
  BY <1>6, <1>8, <1>9, <1>10, <1>11 DEF Bytes

\* Bytes is kept by every step.
LEMMA NextBytes ==
  ASSUME NoForeign, NonzeroReads, Known, Known', Bytes, [Next]_vars
  PROVE  Bytes'
<1>1. Move /\ TypeOK' /\ NeverThrottled'
  BY NextMove DEF Known
<1>2. Reader'
  BY <1>1, ReaderStep DEF Reader
<1>3. WithinSent' /\ DataOrdered'
  BY <1>1, DataOrderedStep
<1>4. NoGap' /\ NoneMissing'
  BY <1>1, NoGapStep, NoneMissingStep
<1>5. AllArrived' /\ EofThere'
  BY <1>1, AllArrivedStep, EofThereStep
<1> QED
  BY <1>2, <1>3, <1>4, <1>5 DEF Bytes

\* Known and Bytes hold of every reachable state.
LEMMA KnownInvariant == NoForeign => (Spec => []Known)
<1> SUFFICES ASSUME NoForeign PROVE Spec => []Known
  OBVIOUS
<1>1. Init => CloseInv
  BY DEF Init, CloseInv, NoticeMeansClosed, GoneTaskMeansClosed
<1>2. (Spec => []Origin) /\ (Spec => []Order)
  BY OriginInvariant, OrderInvariant
<1>3. /\ TypeOK /\ Origin /\ Order /\ CloseInv /\ NeverThrottled /\ NobodyReturnsTokens
      => Known
  BY DEF Known
<1> QED
  BY <1>1, <1>2, <1>3, NextCloseInv, TypeCorrect, Unthrottled, NothingReturnsTokens, PTL
     DEF Spec

\* And so does Bytes.
LEMMA BytesInvariant == NoForeign /\ NonzeroReads => (Spec => []Bytes)
<1> SUFFICES ASSUME NoForeign, NonzeroReads PROVE Spec => []Bytes
  OBVIOUS
<1>1. Known /\ Known' /\ Bytes /\ [Next]_vars => Bytes'
  BY NextBytes
<1>2. Spec => []Known
  BY KnownInvariant
<1> QED
  BY <1>1, <1>2, InitBytes, PTL DEF Spec

\* What poll_read returns is a prefix of what the peer's poll_write accepted:
\* the frame channels, the transport, recv_loop, the map of streams, the data
\* channels and current_chunk lose nothing in the middle, repeat nothing and
\* reorder nothing, whatever the tasks and the connection do.
THEOREM BytesInOrder == NoForeign /\ NonzeroReads => (Spec => []DeliveredInOrder)
<1> SUFFICES ASSUME NoForeign, NonzeroReads PROVE Spec => []DeliveredInOrder
  OBVIOUS
<1>1. ASSUME TypeOK, Bytes PROVE DeliveredInOrder
  <2> SUFFICES ASSUME NEW e \in Sides, NEW id \in StreamId
               PROVE  /\ Len(got[e][id]) <= sent[Peer(e)][id]
                      /\ \A k \in 1..Len(got[e][id]) : got[e][id][k] = k
    BY DEF DeliveredInOrder
  <2>1. Linked(got[e][id], data_ch[e][id], current_chunk[e][id], sent[Peer(e)][id])
    BY <1>1 DEF Bytes, Reader
  <2>2. /\ got[e][id] \in Seq(Nat) /\ data_ch[e][id] \in Seq(Chunk)
        /\ current_chunk[e][id] \in Chunk /\ sent[Peer(e)][id] \in Nat
    BY <1>1, Ends DEF TypeOK, StreamOK, HistOK
  <2>3. Len(got[e][id]) <= sent[Peer(e)][id]
    BY <2>1, <2>2, LinkedBound
  <2> QED
    BY <2>1, <2>3 DEF Linked
<1>2. Spec => []Bytes
  BY BytesInvariant
<1>3. TypeOK /\ Bytes => DeliveredInOrder
  BY <1>1
<1> QED
  BY <1>2, <1>3, TypeCorrect, PTL

\* poll_read returns EOF only when the peer has closed its write side and all it
\* wrote has been read: no broken connection, closed session or lost task looks
\* like the end of a stream, to calls under way either, as long as the
\* application keeps its Session and the session has a receive buffer.
THEOREM EofMeansComplete == NoForeign /\ NonzeroReads => (Spec => []EofIsTruthful)
<1> SUFFICES ASSUME NoForeign, NonzeroReads PROVE Spec => []EofIsTruthful
  OBVIOUS
<1>1. TypeOK /\ Bytes => EofIsTruthful
  <2> SUFFICES ASSUME TypeOK, Bytes, NEW e \in Sides, NEW id \in eof[e],
                      ~InnerDropped(e), ~(MaxReceiveBuffer(e) = 0 /\ closed[e])
               PROVE  /\ id \in is_write_closed[Peer(e)]
                      /\ Len(got[e][id]) = sent[Peer(e)][id]
    BY DEF EofIsTruthful
  <2>1. id \in StreamId
    BY DEF TypeOK, HistOK
  <2>2. e \in ReadableEnds
    BY ConfType DEF ReadableEnds
  <2> QED
    BY <2>1, <2>2 DEF Bytes, EofThere
<1>2. Spec => []Bytes
  BY BytesInvariant
<1> QED
  BY <1>1, <1>2, TypeCorrect, PTL

-----------------------------------------------------------------------------
(* The refinement: each move of the sessions is a step of BytePipe, or none. *)

\* The hypothesis under which no EOF is false: the applications keep their Session,
\* and there is a receive buffer.
SessionsKept ==
  \A e \in Sides : "dropsession" \notin AppOps[e] /\ MaxReceiveBuffer(e) > 0

Held == \A e \in Sides : session_held[e]

\* Then every Session is held.
LEMMA HeldInvariant == SessionsKept => (Spec => []Held)
<1> SUFFICES ASSUME SessionsKept PROVE Spec => []Held
  OBVIOUS
<1>1. Init => Held
  BY DEF Init, Held
<1>2. Held /\ [Next]_vars => Held'
  <2> SUFFICES ASSUME Held, [Next]_vars PROVE UNCHANGED session_held
    BY DEF Held
  <2>1. CASE UNCHANGED vars \/ LinkFail
    BY <2>1 DEF LinkFail
  <2>2. ASSUME NEW e \in Sides, RecvLoop(e) \/ SendLoop(e) \/ KeepAliveLoop(e)
        PROVE  UNCHANGED session_held
    BY <2>2 DEF RecvLoop, RecvStart, RecvFrame, RecvSynResume, RecvPshClosed, RecvExit,
                RecvBreak, SendLoop, SendStart, SendFrame, SendResume, SendExit,
                SendBreak, KeepAliveLoop, KeepStart, KeepPing, PingSent,
                KeepPingResume, KeepTimeout, TimeoutTick, KeepExit
  <2>3. ASSUME NEW e \in Sides, \/ OpenCall(e) \/ AcceptCall(e) \/ Close(e)
                                \/ \E f \in ForeignFrames[e] : ForeignSend(e, f)
        PROVE  UNCHANGED session_held
    BY <2>3 DEF OpenCall, OpenStream, OpenStreamSyn, OpenStreamResume,
                OpenStreamCancel, AcceptCall, AcceptStream, AcceptStreamWait,
                AcceptStreamTake, AcceptStreamClosed, Close, ForeignSend
  <2>4. ASSUME NEW e \in Sides, DropSession(e) PROVE FALSE
    BY <2>4 DEF DropSession, SessionsKept
  <2> QED
    BY <2>1, <2>2, <2>3, <2>4, StreamCalm DEF Next
<1> QED
  BY <1>1, <1>2, PTL DEF Spec

\* And every EOF is true.
LEMMA EofTrue ==
  ASSUME SessionsKept, Held, Bytes, NEW e \in Sides, NEW id \in StreamId, id \in eof[e]
  PROVE  id \in is_write_closed[Peer(e)] /\ Len(got[e][id]) = sent[Peer(e)][id]
BY DEF SessionsKept, Held, Bytes, EofThere, InnerDropped, ReadableEnds

\* A move that leaves these sets as they are leaves BytePipe as it is.
LEMMA PipeStutters ==
  ASSUME UNCHANGED <<sent, is_write_closed, got, eof>>
  PROVE  UNCHANGED BP!vars
BY DEF BP!vars

\* So does a move that changes no Stream.
LEMMA SameStutters ==
  ASSUME TypeOK, TypeOK', AllSame
  PROVE  UNCHANGED <<sent, is_write_closed, got, eof>>
<1>1. /\ sent \in [Sides -> [StreamId -> Nat]] /\ sent' \in [Sides -> [StreamId -> Nat]]
      /\ got \in [Sides -> [StreamId -> Seq(Nat)]]
      /\ got' \in [Sides -> [StreamId -> Seq(Nat)]]
  BY DEF TypeOK, HistOK
<1>2. /\ eof \in [Sides -> SUBSET StreamId] /\ eof' \in [Sides -> SUBSET StreamId]
      /\ is_write_closed \in [Sides -> SUBSET StreamId]
      /\ is_write_closed' \in [Sides -> SUBSET StreamId]
  BY DEF TypeOK, HistOK, StreamOK
<1>3. sent' = sent
  <2>1. \A d \in Sides : sent'[d] = sent[d]
    BY <1>1 DEF AllSame, Same
  <2> QED
    BY <1>1, <2>1
<1>4. got' = got
  <2>1. \A d \in Sides : got'[d] = got[d]
    BY <1>1 DEF AllSame, Same
  <2> QED
    BY <1>1, <2>1
<1>5. eof' = eof
  <2>1. \A d \in Sides : eof'[d] = eof[d]
    BY <1>2, ZenonT(30) DEF AllSame, Same
  <2> QED
    BY <1>2, <2>1
<1>6. is_write_closed' = is_write_closed
  <2>1. \A d \in Sides : is_write_closed'[d] = is_write_closed[d]
    BY <1>2, ZenonT(30) DEF AllSame, Same
  <2> QED
    BY <1>2, <2>1
<1> QED
  BY <1>3, <1>4, <1>5, <1>6

\* A Stream that appears has not been closed before.
LEMMA NewStutters ==
  ASSUME TypeOK, TypeOK', Origin, NEW e \in Sides, NEW id \in StreamId, Only(e, id),
         handle[e][id] = "none", id \notin is_write_closed'[e]
  PROVE  UNCHANGED is_write_closed
<1>1. /\ is_write_closed \in [Sides -> SUBSET StreamId]
      /\ is_write_closed' \in [Sides -> SUBSET StreamId]
  BY DEF TypeOK, StreamOK
<1>2. id \notin is_write_closed[e]
  BY DEF Origin, Untouched
<1>3. \A d \in Sides, i \in StreamId :
        (i \in is_write_closed'[d]) <=> (i \in is_write_closed[d])
  BY <1>2 DEF Only, Same
<1>4. \A d \in Sides : is_write_closed'[d] = is_write_closed[d]
  BY <1>1, <1>3
<1> QED
  BY <1>1, <1>4

\* poll_write.
LEMMA WriteRefines ==
  ASSUME TypeOK, NEW e \in Sides, NEW id \in StreamId, NEW k \in Nat, Wrote(e, id, k)
  PROVE  BP!Write(e, id) \/ UNCHANGED BP!vars
<1>1. sent \in [Sides -> [StreamId -> Nat]] /\ sent[e][id] \in Nat
  BY DEF TypeOK, HistOK
<1>2. /\ sent' = [sent EXCEPT ![e][id] = sent[e][id] + k]
      /\ UNCHANGED <<is_write_closed, got, eof>> /\ id \notin is_write_closed[e]
  BY DEF Wrote
<1>3. sent'[e][id] = sent[e][id] + k
  BY <1>1, <1>2
<1>4. CASE k = 0
  <2>1. sent' = sent
    BY <1>1, <1>2, <1>4
  <2> QED
    BY <1>2, <2>1, PipeStutters
<1>5. CASE k # 0
  <2>1. sent' = [sent EXCEPT ![e][id] = sent'[e][id]]
    BY <1>2, <1>3
  <2>2. sent'[e][id] > sent[e][id]
    BY <1>1, <1>3, <1>5
  <2> QED
    BY <1>2, <2>1, <2>2 DEF BP!Write
<1> QED
  BY <1>4, <1>5

\* poll_shutdown, close() and Drop.
LEMMA FinishRefines ==
  ASSUME NEW e \in Sides, NEW id \in StreamId,
         is_write_closed' = [is_write_closed EXCEPT ![e] = @ \cup {id}],
         UNCHANGED <<sent, got, eof>>
  PROVE  BP!Finish(e, id)
BY DEF BP!Finish

\* poll_read.
LEMMA ReadRefines ==
  ASSUME TypeOK, TypeOK', NonzeroReads, SessionsKept, Held, Bytes, NEW e \in Sides,
         NEW id \in StreamId, NEW n \in ReadSizes, ReadSome(e, id, n)
  PROVE  BP!Deliver(Peer(e), id)
<1> DEFINE w == Peer(e)
           s == got'[e][id]
           D == [d \in Sides |-> got[Peer(d)]]
           N == Len(s)
           F == BP!FirstBytes(N)
<1>0. /\ w \in Sides /\ Peer(w) = e
      /\ \A d \in Sides : d # w => Peer(d) # e /\ Peer(d) \in Sides
  BY DEF Peer, Sides
<1>1. /\ got \in [Sides -> [StreamId -> Seq(Nat)]] /\ s \in Seq(Nat)
      /\ sent[w][id] \in Nat /\ Len(got[e][id]) \in Nat /\ N \in Nat
  BY <1>0, LenProperties DEF TypeOK, TypeOK, HistOK
<1>2. UNCHANGED <<sent, is_write_closed, eof>>
  BY DEF ReadSome
<1>3. N > Len(got[e][id]) /\ Linked(s, data_ch'[e][id], current_chunk'[e][id], sent[w][id])
  BY ReadStep DEF Bytes
<1>4. N <= sent[w][id]
  <2>1. data_ch'[e][id] \in Seq(Chunk) /\ current_chunk'[e][id] \in Chunk
    BY DEF TypeOK, StreamOK
  <2> QED
    BY <1>1, <1>3, <2>1, LinkedBound
<1>5. \A k \in 1..N : s[k] = k
  BY <1>3 DEF Linked
<1>6. s = F
  <2>1. F = [k \in 1..N |-> k]
    BY DEF BP!FirstBytes
  <2>2. s \in [1..N -> Nat]
    BY <1>1, LenProperties
  <2> HIDE DEF F, s, N
  <2> QED
    BY <1>5, <2>1, <2>2
<1>7. id \notin eof[e]
  <2>1. id \in eof[e] => Len(got[e][id]) = sent[w][id]
    BY EofTrue
  <2> QED
    BY <1>1, <1>3, <1>4, <2>1
<1>8. \E x : got' = [got EXCEPT ![e][id] = x]
  BY DEF ReadSome, CopyOut, ReadQueue
<1>9. D' = [D EXCEPT ![w][id] = F]
  <2>1. PICK x : got' = [got EXCEPT ![e][id] = x]
    BY <1>8
  <2>2. x = F
    BY <1>1, <1>6, <2>1
  <2>3. /\ got'[e] = [got[e] EXCEPT ![id] = F]
        /\ \A d \in Sides : d # e => got'[d] = got[d]
    BY <1>1, <2>1, <2>2
  <2> HIDE DEF F
  <2>4. D = [d \in Sides |-> got[Peer(d)]] /\ D' = [d \in Sides |-> got'[Peer(d)]]
    OBVIOUS
  <2>5. D'[w] = [D[w] EXCEPT ![id] = F] /\ \A d \in Sides : d # w => D'[d] = D[d]
    BY <1>0, <2>3
  <2> QED
    BY <1>0, <2>5
<1>10. N \in (Len(D[w][id]) + 1)..sent[w][id] /\ D[w][id] = got[e][id]
  BY <1>0, <1>1, <1>3, <1>4
<1>11. id \notin [d \in Sides |-> eof[Peer(d)]][w]
  BY <1>0, <1>7
<1> QED
  BY <1>2, <1>9, <1>10, <1>11 DEF BP!Deliver

\* poll_read at the end.
LEMMA EndRefines ==
  ASSUME TypeOK, TypeOK', SessionsKept, Held', Bytes', NEW e \in Sides,
         NEW id \in StreamId, ReadEnd(e, id)
  PROVE  BP!End(Peer(e), id)
<1> DEFINE w == Peer(e)
           E == [d \in Sides |-> eof[Peer(d)]]
<1>0. /\ w \in Sides /\ Peer(w) = e
      /\ \A d \in Sides : d # w => Peer(d) # e /\ Peer(d) \in Sides
  BY DEF Peer, Sides
<1>1. /\ UNCHANGED <<sent, is_write_closed, got>>
      /\ eof' = [eof EXCEPT ![e] = eof[e] \cup {id}]
  BY DEF ReadEnd
<1>2. eof \in [Sides -> SUBSET StreamId] /\ id \in eof'[e]
  BY <1>1 DEF TypeOK, HistOK
<1>3. id \in is_write_closed[w] /\ Len(got[e][id]) = sent[w][id]
  BY <1>1, <1>2 DEF SessionsKept, Held, Bytes, EofThere, InnerDropped, ReadableEnds,
                    MaxReceiveBuffer
<1>4. E' = [E EXCEPT ![w] = E[w] \cup {id}]
  <2>1. E'[w] = E[w] \cup {id} /\ \A d \in Sides : d # w => E'[d] = E[d]
    BY <1>0, <1>1, <1>2
  <2> QED
    BY <1>0, <2>1
<1>5. [d \in Sides |-> got[Peer(d)]][w][id] = got[e][id]
  BY <1>0
<1> QED
  BY <1>1, <1>3, <1>4, <1>5 DEF BP!End

\* Every step of the sessions is a step of BytePipe or none.
LEMMA NextRefines ==
  ASSUME NoForeign, NonzeroReads, SessionsKept, Known, Known', Held, Held',
         Bytes, Bytes', [Next]_vars
  PROVE  [BP!Next]_(BP!vars)
<1>0. TypeOK /\ TypeOK' /\ Origin /\ Move
  BY NextMove DEF Known
<1>1. CASE AllSame
  BY <1>0, <1>1, SameStutters, PipeStutters
<1>2. ASSUME NEW e \in Sides, NEW f \in FrameSet, Received(e, f)
      PROVE  AllSame \/ UNCHANGED BP!vars
  <2>1. CASE SynGot(e, f)
    <3>1. Peer(e) \in Sides /\ In(Pipes[Peer(e)], f) /\ Peer(Peer(e)) = e
      BY <2>1, Ends DEF SynGot, Takes
    <3>2. handle[e][f.id] = "none" /\ f.id \in StreamId
      BY <1>0, <2>1, <3>1 DEF SynGot, Origin, SynIsNews, FrameSet
    <3>3. UNCHANGED is_write_closed
      BY <1>0, <2>1, <3>2, NewStutters DEF SynGot
    <3> QED
      BY <2>1, <3>3, PipeStutters DEF SynGot
  <2> QED
    BY <1>2, <2>1, PipeStutters DEF Received, Skip, FinGot, PshGot, PshLost
<1>3. ASSUME NEW e \in Sides, NEW id \in StreamId, Used(e, id)
      PROVE  BP!Next \/ UNCHANGED BP!vars
  <2>1. CASE Opened(e, id)
    <3>1. UNCHANGED is_write_closed
      BY <1>0, <2>1, NewStutters DEF Opened
    <3> QED
      BY <2>1, <3>1, PipeStutters DEF Opened
  <2>2. CASE SynPut(e, id) \/ Accepted(e, id) \/ Resumed(e, id) \/ Cancelled(e, id)
    BY <2>2, PipeStutters DEF SynPut, Accepted, Resumed, Cancelled
  <2>3. ASSUME NEW n \in ReadSizes, ReadSome(e, id, n) PROVE BP!Next
    BY <1>0, <2>3, ReadRefines, Ends DEF BP!Next
  <2>4. CASE ReadEnd(e, id)
    BY <1>0, <2>4, EndRefines, Ends DEF BP!Next
  <2>5. ASSUME NEW k \in Nat, Wrote(e, id, k) PROVE BP!Next \/ UNCHANGED BP!vars
    BY <1>0, <2>5, WriteRefines DEF BP!Next
  <2>6. CASE Shut(e, id) \/ Gone(e, id)
    <3>1. BP!Finish(e, id)
      BY <2>6, FinishRefines DEF Shut, Gone
    <3> QED
      BY <3>1 DEF BP!Next
  <2> QED
    BY <1>3, <2>1, <2>2, <2>3, <2>4, <2>5, <2>6 DEF Used
<1> QED
  BY <1>0, <1>1, <1>2, <1>3 DEF Move, Idle, Exit, Counted

\* A stream of the crate is an ordered reliable byte stream in both directions:
\* every step of the two sessions, their tasks, their applications and the
\* connection writes to, finishes, delivers from or ends a pipe as BytePipe
\* says, or leaves the pipes alone.  (Without the last hypothesis EOF may be
\* returned too early, see EofIsTruthful, which BytePipe does not allow.)
THEOREM StreamsAreBytePipes ==
  NoForeign /\ NonzeroReads /\ SessionsKept => (Spec => ImplementsBytePipe)
<1> SUFFICES ASSUME NoForeign, NonzeroReads, SessionsKept
             PROVE  Spec => ImplementsBytePipe
  OBVIOUS
<1>1. Init => BP!Init
  BY Ends DEF Init, BP!Init
<1>2. Known /\ Known' /\ Held /\ Held' /\ Bytes /\ Bytes' /\ [Next]_vars
        => [BP!Next]_(BP!vars)
  BY NextRefines
<1>3. (Spec => []Known) /\ (Spec => []Held) /\ (Spec => []Bytes)
  BY KnownInvariant, HeldInvariant, BytesInvariant
<1> QED
  BY <1>1, <1>2, <1>3, PTL DEF Spec, ImplementsBytePipe, BP!Spec
==============================================================================
