----------------------------- MODULE StreamProofs ----------------------------
(***************************************************************************)
(* Proofs about the streams of two sessions of this crate: where their     *)
(* frames come from (Origin), in which order they are and what one end     *)
(* knows of the other through them (Order); and from these, that a stream  *)
(* begins with its SYN and ends with its FIN, that data finds its stream,  *)
(* that no FIN is lost on its way, that the accept channel is exact, and   *)
(* that every frame that waits for room belongs to a suspended call.       *)
(***************************************************************************)
EXTENDS PipeProofs, FiniteSetTheorems

USE DEF stateVars, chanVars, loopVars, openVars, streamVars, histVars, vars

-----------------------------------------------------------------------------
(* Origin is inductive.                                                      *)

\* Which moves add no frame.
LEMMA ThinsMoves ==
  /\ Keeps => Thins
  /\ \A e \in Sides, f \in FrameSet :
       /\ Takes(e, f) => Thins
       /\ Cuts(e) => Thins
       /\ Loses(e, f) => Thins
BY DEF Keeps, Takes, Cuts, Loses, Thins

\* A step on a Stream that is not new, which may send a FIN or a PSH of it or
\* lose frames, keeps Origin.
LEMMA UseOrigin ==
  ASSUME TypeOK, Origin, NEW e \in Sides, NEW id \in StreamId, Only(e, id),
         handle[e][id] \notin {"none", "queued"},
         handle'[e][id] \in {"open", "closing", "dropped"},
         UNCHANGED <<next_stream_id, accept_ch>>,
         \/ Thins
         \/ \E f \in FrameSet : /\ Puts(e, f) /\ f.id = id
                                /\ \/ f.cmd = "FIN" /\ f.data = Empty
                                   \/ f.cmd = "PSH"
  PROVE  Origin'
<1>0. \A g \in FrameSet : g.id \in StreamId
  BY DEF FrameSet
<1>1. /\ OwnIds /\ Untouched /\ FramesOwned /\ SynIsNews /\ OpenerFirst /\ SynFirst
      /\ QueueExact
  BY DEF Origin
<1>2. \A d \in Sides, i \in StreamId :
        handle'[d][i] = handle[d][i] \/ (d = e /\ i = id)
  BY DEF Only, Same
<1>3. OwnIds'
  BY <1>1, <1>2 DEF OwnIds
<1>4. Untouched'
  BY <1>1, <1>2 DEF Untouched, Only, Same
<1>5. OpenerFirst'
  BY <1>1, <1>2, Ends DEF OpenerFirst
<1>6. QueueExact'
  <2>1. accept_ch \in [Sides -> Seq(StreamId)]
    BY DEF TypeOK, ChanOK
  <2>2. \A d \in Sides : \A i \in 1..Len(accept_ch[d]) : accept_ch[d][i] \in StreamId
    BY <2>1, ElementOfSeq
  <2> QED
    BY <1>1, <1>2, <2>2 DEF QueueExact
<1>7. FramesOwned' /\ SynIsNews' /\ SynFirst'
  <2>1. CASE Thins
    <3>1. FramesOwned'
      BY <1>0, <1>1, <1>2, <2>1 DEF FramesOwned, Thins
    <3>2. SynIsNews'
      BY <1>0, <1>1, <1>2, <2>1, Ends, FrameFields DEF SynIsNews, Thins
    <3>3. SynFirst'
      BY <1>1, <2>1, FrameFields DEF SynFirst, Thins
    <3> QED
      BY <3>1, <3>2, <3>3
  <2>2. ASSUME NEW f \in FrameSet, Puts(e, f), f.id = id,
               (f.cmd = "FIN" /\ f.data = Empty) \/ f.cmd = "PSH"
        PROVE  FramesOwned' /\ SynIsNews' /\ SynFirst'
    <3>1. FramesOwned'
      BY <1>0, <1>1, <1>2, <2>2 DEF FramesOwned, Puts
    <3>2. SynIsNews'
      BY <1>0, <1>1, <1>2, <2>2, Ends DEF SynIsNews, Puts
    <3>3. SynFirst'
      BY <1>1, <2>2 DEF SynFirst, Puts
    <3> QED
      BY <3>1, <3>2, <3>3
  <2> QED
    BY <2>1, <2>2
<1> QED
  BY <1>3, <1>4, <1>5, <1>6, <1>7 DEF Origin

\* open_stream() sends the SYN.
LEMMA SynOrigin ==
  ASSUME TypeOK, Origin, NEW e \in Sides, NEW id \in StreamId, Only(e, id),
         handle[e][id] = "opening", handle'[e][id] \in {"open", "syn_wait"},
         UNCHANGED <<next_stream_id, accept_ch>>, Puts(e, Syn(id))
  PROVE  Origin'
<1>0. (\A g \in FrameSet : g.id \in StreamId) /\ Syn(id) \in FrameSet
  BY FrameType, EmptyType DEF FrameSet
<1>1. /\ OwnIds /\ Untouched /\ FramesOwned /\ SynIsNews /\ OpenerFirst /\ SynFirst
      /\ QueueExact
  BY DEF Origin
<1>2. \A d \in Sides, i \in StreamId :
        handle'[d][i] = handle[d][i] \/ (d = e /\ i = id)
  BY DEF Only, Same
<1>3. OwnIds'
  BY <1>1, <1>2 DEF OwnIds
<1>4. Untouched'
  BY <1>1, <1>2 DEF Untouched, Only, Same
<1>5. OpenerFirst'
  BY <1>1, <1>2, Ends DEF OpenerFirst
<1>6. QueueExact'
  <2>1. accept_ch \in [Sides -> Seq(StreamId)]
    BY DEF TypeOK, ChanOK
  <2>2. \A d \in Sides : \A i \in 1..Len(accept_ch[d]) : accept_ch[d][i] \in StreamId
    BY <2>1, ElementOfSeq
  <2> QED
    BY <1>1, <1>2, <2>2 DEF QueueExact
<1>7. FramesOwned'
  BY <1>0, <1>1, <1>2, FrameFields DEF FramesOwned, Puts
<1>8. SynIsNews'
  <2>1. Opener(id) = e /\ handle[Peer(e)][id] = "none"
    BY <1>1, Ends DEF OwnIds, OpenerFirst
  <2> QED
    BY <1>0, <1>1, <1>2, <2>1, FrameFields, Ends DEF SynIsNews, Puts
<1>9. SynFirst'
  <2>1. \A g \in FrameSet : In(Pipes[e], g) /\ g.cmd # "NOP" => g.id # id
    BY <1>1, FrameFields DEF FramesOwned
  <2> QED
    BY <1>0, <1>1, <2>1, FrameFields DEF SynFirst, Puts
<1> QED
  BY <1>3, <1>4, <1>5, <1>6, <1>7, <1>8, <1>9 DEF Origin

\* A step that creates and hands over no Stream, and sends no frame.
LEMMA StayOrigin ==
  ASSUME TypeOK, Origin, Steady, Thins,
         \A d \in Sides, i \in StreamId : /\ handle'[d][i] = handle[d][i]
                                          /\ handle[d][i] = "none" => Same(d, i)
  PROVE  Origin'
<1>0. \A g \in FrameSet : g.id \in StreamId
  BY DEF FrameSet
<1>1. /\ OwnIds /\ Untouched /\ FramesOwned /\ SynIsNews /\ OpenerFirst /\ SynFirst
      /\ QueueExact
  BY DEF Origin
<1>2. OwnIds'
  BY <1>1 DEF OwnIds, Steady
<1>3. Untouched'
  BY <1>1 DEF Untouched, Same
<1>4. OpenerFirst'
  BY <1>1, Ends DEF OpenerFirst
<1>5. QueueExact'
  <2>1. accept_ch \in [Sides -> Seq(StreamId)]
    BY DEF TypeOK, ChanOK
  <2>2. \A d \in Sides : \A i \in 1..Len(accept_ch[d]) : accept_ch[d][i] \in StreamId
    BY <2>1, ElementOfSeq
  <2> QED
    BY <1>1, <2>2 DEF QueueExact, Steady
<1>6. FramesOwned'
  BY <1>0, <1>1 DEF FramesOwned, Thins
<1>7. SynIsNews'
  BY <1>0, <1>1, Ends, FrameFields DEF SynIsNews, Thins
<1>8. SynFirst'
  BY <1>1, FrameFields DEF SynFirst, Thins
<1> QED
  BY <1>2, <1>3, <1>4, <1>5, <1>6, <1>7, <1>8 DEF Origin

\* Reading a frame keeps Origin.
LEMMA ReceivedOrigin ==
  ASSUME TypeOK, Origin, NEW e \in Sides, NEW f \in FrameSet, Received(e, f)
  PROVE  Origin'
<1>0. f.id \in StreamId /\ (\A g \in FrameSet : g.id \in StreamId)
  BY DEF FrameSet
<1>1. /\ OwnIds /\ Untouched /\ FramesOwned /\ SynIsNews /\ OpenerFirst /\ SynFirst
      /\ QueueExact
  BY DEF Origin
<1>2. Takes(e, f) /\ Thins
  BY ThinsMoves DEF Received, Skip, SynGot, FinGot, PshGot, PshLost
<1>3. CASE Skip(e, f)
  BY <1>2, <1>3, StayOrigin DEF Skip, AllSame, Same
<1>4. CASE FinGot(e, f) \/ PshLost(e, f)
  <2>1. ASSUME NEW d \in Sides, NEW i \in StreamId
        PROVE  /\ handle'[d][i] = handle[d][i]
               /\ handle[d][i] = "none" => Same(d, i)
    BY <1>1, <1>4 DEF FinGot, PshLost, Only, Same, Untouched
  <2> QED
    BY <1>2, <1>4, <2>1, StayOrigin DEF FinGot, PshLost
<1>5. CASE PshGot(e, f)
  <2>1. ASSUME NEW d \in Sides, NEW i \in StreamId
        PROVE  /\ handle'[d][i] = handle[d][i]
               /\ handle[d][i] = "none" => Same(d, i)
    BY <1>0, <1>1, <1>5 DEF PshGot, Only, Same, Untouched
  <2> QED
    BY <1>2, <1>5, <2>1, StayOrigin DEF PshGot
<1>6. CASE SynGot(e, f)
  <2> DEFINE w == Peer(e)
             id == f.id
  <2>1. w \in Sides /\ w # e /\ Peer(w) = e /\ In(Pipes[w], f) /\ f.cmd = "SYN"
    BY <1>2, <1>6, Ends DEF Takes, SynGot
  <2>2. Opener(id) = w /\ handle[e][id] = "none"
    BY <1>1, <2>1 DEF SynIsNews
  <2>3. handle[w][id] \notin {"none", "opening", "queued"}
    BY <1>1, <2>1, FrameFields DEF FramesOwned
  <2>4. /\ handle'[e][id] = "queued" /\ UNCHANGED next_stream_id
        /\ \A d \in Sides, i \in StreamId : d # e \/ i # id => Same(d, i)
    BY <1>6 DEF SynGot, Only
  <2>5. \A d \in Sides, i \in StreamId :
          (d = e /\ i = id) \/ handle'[d][i] = handle[d][i]
    BY <2>4 DEF Same
  <2>6. OwnIds'
    BY <1>1, <2>1, <2>2, <2>4, <2>5 DEF OwnIds
  <2>7. Untouched'
    BY <1>1, <2>4 DEF Untouched, Same
  <2>8. OpenerFirst'
    BY <1>0, <1>1, <2>1, <2>2, <2>3, <2>4, <2>5, Ends DEF OpenerFirst
  <2>9. FramesOwned'
    BY <1>0, <1>1, <1>2, <2>1, <2>2, <2>5 DEF FramesOwned, Thins
  <2>10. SynIsNews'
    <3> SUFFICES ASSUME NEW d \in Sides, NEW g \in FrameSet, In(Pipes'[d], g),
                        g.cmd = "SYN"
                 PROVE  Opener(g.id) = d /\ handle'[Peer(d)][g.id] = "none"
      BY DEF SynIsNews
    <3>1. In(Pipes[d], g) /\ Opener(g.id) = d /\ handle[Peer(d)][g.id] = "none"
      BY <1>1, <1>2, FrameFields DEF SynIsNews, Thins
    <3>2. ASSUME d = w, g.id = id PROVE FALSE
      <4>1. Before(Pipes[w], f, g)
        BY <1>2, <2>1, <3>2 DEF Takes
      <4> QED
        BY <1>1, <2>1, <3>2, <4>1 DEF SynFirst
    <3> QED
      BY <1>0, <2>1, <2>5, <3>1, <3>2, Ends
  <2>11. SynFirst'
    BY <1>1, <1>2, FrameFields DEF SynFirst, Thins
  <2>12. QueueExact'
    <3>1. /\ accept_ch \in [Sides -> Seq(StreamId)]
          /\ accept_ch' = [accept_ch EXCEPT ![e] = Append(accept_ch[e], id)]
      BY <1>6 DEF TypeOK, ChanOK, SynGot
    <3>2. \A d \in Sides : \A i \in 1..Len(accept_ch[d]) : accept_ch[d][i] \in StreamId
      BY <3>1, ElementOfSeq
    <3> DEFINE q == accept_ch[e]
               r == Append(q, id)
    <3>3. /\ Len(q) \in Nat /\ Len(r) = Len(q) + 1 /\ r[Len(q) + 1] = id
          /\ \A i \in 1..Len(q) : r[i] = q[i]
      BY <1>0, <3>1, AppendProperties, LenProperties
    <3>4. /\ accept_ch'[e] = r
          /\ \A d \in Sides : d # e => accept_ch'[d] = accept_ch[d]
      BY <3>1
    <3>5. \A i \in 1..Len(q) : /\ q[i] \in StreamId /\ q[i] # id
                               /\ handle'[e][q[i]] = "queued"
      BY <1>1, <2>2, <2>5, <3>2 DEF QueueExact
    <3> HIDE DEF r
    <3>6. ASSUME NEW d \in Sides
          PROVE  /\ \A i \in 1..Len(accept_ch'[d]) : handle'[d][accept_ch'[d][i]] = "queued"
                 /\ \A i, j \in 1..Len(accept_ch'[d]) :
                      accept_ch'[d][i] = accept_ch'[d][j] => i = j
                 /\ \A k \in StreamId : handle'[d][k] = "queued" =>
                      \E i \in 1..Len(accept_ch'[d]) : accept_ch'[d][i] = k
      <4>1. CASE d # e
        BY <1>1, <2>5, <3>2, <3>4, <4>1 DEF QueueExact
      <4>2. CASE d = e
        <5>1. \A i \in 1..Len(r) : i = Len(q) + 1 \/ i \in 1..Len(q)
          BY <3>3
        <5>2. \A i \in 1..Len(r) : handle'[e][r[i]] = "queued"
          BY <2>4, <3>3, <3>5, <5>1
        <5>3. \A i, j \in 1..Len(r) : r[i] = r[j] => i = j
          BY <1>1, <3>3, <3>5, <5>1, SMTT(30) DEF QueueExact
        <5>4. ASSUME NEW k \in StreamId, handle'[e][k] = "queued"
              PROVE  \E i \in 1..Len(r) : r[i] = k
          <6>1. CASE k = id
            <7>1. Len(q) + 1 \in 1..Len(r)
              BY <3>3
            <7> QED
              BY <3>3, <6>1, <7>1
          <6>2. CASE k # id
            <7>1. PICK i \in 1..Len(q) : q[i] = k
              BY <1>1, <2>5, <5>4, <6>2 DEF QueueExact
            <7>2. i \in 1..Len(r)
              BY <3>3
            <7> QED
              BY <3>3, <7>1, <7>2
          <6> QED
            BY <6>1, <6>2
        <5> QED
          BY <3>4, <4>2, <5>2, <5>3, <5>4
      <4> QED
        BY <4>1, <4>2
    <3> QED
      BY <3>6 DEF QueueExact
  <2> QED
    BY <2>6, <2>7, <2>8, <2>9, <2>10, <2>11, <2>12 DEF Origin
<1> QED
  BY <1>3, <1>4, <1>5, <1>6 DEF Received

\* Taking an id, with or without a Stream for it, keeps Origin.
LEMMA CountedOrigin ==
  ASSUME TypeOK, Origin, NEW e \in Sides,
         Counted(e) \/ \E id \in StreamId : Opened(e, id)
  PROVE  Origin'
<1>0. (\A g \in FrameSet : g.id \in StreamId) /\ next_stream_id \in [Sides -> StreamId]
  BY DEF FrameSet, TypeOK, OpenOK
<1>1. /\ OwnIds /\ Untouched /\ FramesOwned /\ SynIsNews /\ OpenerFirst /\ SynFirst
      /\ QueueExact
  BY DEF Origin
<1> DEFINE id == next_stream_id[e]
<1>2. /\ Thins /\ UNCHANGED accept_ch
      /\ \A d \in Sides : Opener(next_stream_id'[d]) = Opener(next_stream_id[d])
      /\ id \in StreamId /\ Opener(id) = e
  BY <1>0, <1>1, ThinsMoves DEF Counted, Opened, Opener, OwnIds
<1>3. \/ \A d \in Sides, i \in StreamId : Same(d, i)
      \/ /\ \A d \in Sides, i \in StreamId : d # e \/ i # id => Same(d, i)
         /\ handle[e][id] = "none" /\ handle'[e][id] = "opening"
  BY DEF Counted, AllSame, Opened, Only
<1>4. \A d \in Sides, i \in StreamId :
        \/ handle'[d][i] = handle[d][i]
        \/ d = e /\ i = id /\ handle[d][i] = "none" /\ handle'[d][i] = "opening"
  BY <1>3 DEF Same
<1>5. OwnIds'
  BY <1>1, <1>2, <1>4 DEF OwnIds
<1>6. Untouched'
  BY <1>1, <1>3 DEF Untouched, Same
<1>7. OpenerFirst'
  <2> SUFFICES ASSUME NEW d \in Sides, NEW i \in StreamId, handle'[d][i] # "none",
                      Opener(i) # d
               PROVE  handle'[Peer(d)][i] \notin {"none", "opening"}
    BY DEF OpenerFirst
  <2>1. Peer(d) \in Sides /\ handle[d][i] # "none"
    BY <1>2, <1>4, Ends
  <2>2. handle[Peer(d)][i] \notin {"none", "opening"}
    BY <1>1, <2>1 DEF OpenerFirst
  <2> QED
    BY <1>4, <2>1, <2>2
<1>8. QueueExact'
  <2>1. accept_ch \in [Sides -> Seq(StreamId)]
    BY DEF TypeOK, ChanOK
  <2>2. \A d \in Sides : \A i \in 1..Len(accept_ch[d]) : accept_ch[d][i] \in StreamId
    BY <2>1, ElementOfSeq
  <2> QED
    BY <1>1, <1>2, <1>4, <2>2 DEF QueueExact
<1>9. FramesOwned'
  BY <1>0, <1>1, <1>2, <1>4 DEF FramesOwned, Thins
<1>10. SynIsNews'
  <2> SUFFICES ASSUME NEW d \in Sides, NEW g \in FrameSet, In(Pipes'[d], g),
                      g.cmd = "SYN"
               PROVE  Opener(g.id) = d /\ handle'[Peer(d)][g.id] = "none"
    BY DEF SynIsNews
  <2>1. Opener(g.id) = d /\ handle[Peer(d)][g.id] = "none" /\ Peer(d) \in Sides
        /\ Peer(d) # d
    BY <1>1, <1>2, FrameFields, Ends DEF SynIsNews, Thins
  <2> QED
    BY <1>0, <1>2, <1>4, <2>1
<1>11. SynFirst'
  BY <1>1, <1>2, FrameFields DEF SynFirst, Thins
<1> QED
  BY <1>5, <1>6, <1>7, <1>8, <1>9, <1>10, <1>11 DEF Origin

\* accept_stream() keeps Origin.
LEMMA AcceptedOrigin ==
  ASSUME TypeOK, Origin, NEW e \in Sides, NEW id \in StreamId, Accepted(e, id)
  PROVE  Origin'
<1>0. \A g \in FrameSet : g.id \in StreamId
  BY DEF FrameSet
<1>1. /\ OwnIds /\ Untouched /\ FramesOwned /\ SynIsNews /\ OpenerFirst /\ SynFirst
      /\ QueueExact
  BY DEF Origin
<1> DEFINE q == accept_ch[e]
           r == Tail(q)
<1>2. accept_ch \in [Sides -> Seq(StreamId)] /\ q \in Seq(StreamId) /\ q # << >>
  BY DEF TypeOK, ChanOK, Accepted
<1>3. \A d \in Sides : \A i \in 1..Len(accept_ch[d]) : accept_ch[d][i] \in StreamId
  BY <1>2, ElementOfSeq
<1>4. /\ Len(q) \in Nat /\ Len(q) # 0 /\ Len(r) = Len(q) - 1 /\ id = q[1]
      /\ \A i \in 1..Len(r) : r[i] = q[i + 1]
  BY <1>2, HeadTailProperties, LenProperties, EmptySeq DEF Accepted
<1>5. /\ accept_ch'[e] = r /\ \A d \in Sides : d # e => accept_ch'[d] = accept_ch[d]
  BY <1>2 DEF Accepted
<1>6. /\ Thins /\ UNCHANGED next_stream_id /\ handle'[e][id] = "open"
      /\ \A d \in Sides, i \in StreamId : d # e \/ i # id => Same(d, i)
  BY ThinsMoves DEF Accepted, Only
<1>7. \A d \in Sides, i \in StreamId :
          (d = e /\ i = id) \/ handle'[d][i] = handle[d][i]
  BY <1>6 DEF Same
<1>8. handle[e][id] = "queued"
  <2>1. 1 \in 1..Len(q)
    BY <1>4
  <2> QED
    BY <1>1, <1>4, <2>1 DEF QueueExact
<1>9. OwnIds'
  BY <1>1, <1>6, <1>7 DEF OwnIds
<1>10. Untouched'
  BY <1>1, <1>6 DEF Untouched, Same
<1>11. OpenerFirst'
  BY <1>1, <1>6, <1>7, <1>8, Ends DEF OpenerFirst
<1>12. FramesOwned'
  BY <1>0, <1>1, <1>6, <1>7 DEF FramesOwned, Thins
<1>13. SynIsNews'
  BY <1>0, <1>1, <1>6, <1>7, <1>8, Ends, FrameFields DEF SynIsNews, Thins
<1>14. SynFirst'
  BY <1>1, <1>6, FrameFields DEF SynFirst, Thins
<1>15. QueueExact'
  <2> HIDE DEF r
  <2>1. \A i \in 1..Len(r) : i + 1 \in 1..Len(q) /\ i + 1 # 1
    BY <1>4
  <2>2. 1 \in 1..Len(q) /\ \A i \in 1..Len(q) : i # 1 => i - 1 \in 1..Len(r)
                                                       /\ r[i - 1] = q[i]
    BY <1>4
  <2>3. ASSUME NEW d \in Sides
        PROVE  /\ \A i \in 1..Len(accept_ch'[d]) : handle'[d][accept_ch'[d][i]] = "queued"
               /\ \A i, j \in 1..Len(accept_ch'[d]) :
                    accept_ch'[d][i] = accept_ch'[d][j] => i = j
               /\ \A k \in StreamId : handle'[d][k] = "queued" =>
                    \E i \in 1..Len(accept_ch'[d]) : accept_ch'[d][i] = k
    <3>1. CASE d # e
      BY <1>1, <1>3, <1>5, <1>7, <3>1 DEF QueueExact
    <3>2. CASE d = e
      <4>1. \A i \in 1..Len(r) : r[i] \in StreamId /\ r[i] # id
        BY <1>1, <1>3, <1>4, <2>1, <2>2 DEF QueueExact
      <4>2. \A i \in 1..Len(r) : handle'[e][r[i]] = "queued"
        BY <1>1, <1>4, <1>7, <2>1, <4>1 DEF QueueExact
      <4>3. ASSUME NEW i \in 1..Len(r), NEW j \in 1..Len(r), r[i] = r[j]
            PROVE  i = j
        <5>1. i + 1 = j + 1
          BY <1>1, <1>4, <2>1, <4>3 DEF QueueExact
        <5> QED
          BY <5>1
      <4>4. ASSUME NEW k \in StreamId, handle'[e][k] = "queued"
            PROVE  \E i \in 1..Len(r) : r[i] = k
        <5>1. k # id
          BY <1>6, <4>4
        <5>2. PICK i \in 1..Len(q) : q[i] = k
          BY <1>1, <1>7, <4>4, <5>1 DEF QueueExact
        <5> QED
          BY <1>4, <2>2, <5>1, <5>2
      <4> QED
        BY <1>5, <3>2, <4>2, <4>3, <4>4
    <3> QED
      BY <3>1, <3>2
  <2> QED
    BY <2>3 DEF QueueExact
<1> QED
  BY <1>9, <1>10, <1>11, <1>12, <1>13, <1>14, <1>15 DEF Origin

\* The other uses of a Stream keep Origin.
LEMMA UsedOrigin ==
  ASSUME TypeOK, Origin, NEW e \in Sides, NEW id \in StreamId, Used(e, id)
  PROVE  Origin'
<1>0. /\ Syn(id) \in FrameSet /\ Fin(id) \in FrameSet
      /\ Fin(id).id = id /\ Fin(id).cmd = "FIN" /\ Fin(id).data = Empty
  BY FrameType, EmptyType, FrameFields
<1>1. CASE Opened(e, id)
  BY <1>1, CountedOrigin
<1>2. CASE SynPut(e, id)
  BY <1>2, SynOrigin DEF SynPut, Steady
<1>3. CASE Accepted(e, id)
  BY <1>3, AcceptedOrigin
<1>4. CASE Resumed(e, id)
  BY <1>4, UseOrigin, ThinsMoves DEF Resumed, Steady
<1>5. ASSUME NEW n \in ReadSizes, ReadSome(e, id, n) PROVE Origin'
  BY <1>5, UseOrigin, ThinsMoves DEF ReadSome, Steady
<1>6. CASE ReadEnd(e, id)
  BY <1>6, UseOrigin, ThinsMoves DEF ReadEnd, Steady
<1>7. ASSUME NEW k \in Nat, Wrote(e, id, k) PROVE Origin'
  <2> DEFINE f == Psh(id, [lo |-> sent[e][id], hi |-> sent[e][id] + k])
  <2>1. sent[e][id] \in Nat
    BY DEF TypeOK, HistOK
  <2>2. [lo |-> sent[e][id], hi |-> sent[e][id] + k] \in Chunk
    BY <2>1 DEF Chunk
  <2>3. f \in FrameSet /\ f.id = id /\ f.cmd = "PSH"
    BY <2>2, FrameType, FrameFields
  <2>4. /\ Puts(e, f) /\ Only(e, id) /\ handle[e][id] = "open"
        /\ handle'[e][id] = "open" /\ UNCHANGED <<next_stream_id, accept_ch>>
    BY <1>7 DEF Wrote, Steady
  <2> QED
    BY <2>3, <2>4, UseOrigin
<1>8. CASE Shut(e, id)
  <2>1. Thins \/ Puts(e, Fin(id))
    BY <1>8, ThinsMoves DEF Shut, FinPut, NoFinPut
  <2>2. /\ Only(e, id) /\ handle[e][id] = "open" /\ handle'[e][id] \in {"open", "closing"}
        /\ UNCHANGED <<next_stream_id, accept_ch>>
    BY <1>8 DEF Shut, Steady
  <2> QED
    BY <1>0, <2>1, <2>2, UseOrigin
<1>9. CASE Cancelled(e, id)
  BY <1>0, <1>9, UseOrigin, ThinsMoves DEF Cancelled, Steady
<1>10. CASE Gone(e, id)
  <2>1. Thins \/ Puts(e, Fin(id))
    BY <1>0, <1>10, ThinsMoves DEF Gone, FinPut, NoFinPut
  <2>2. /\ Only(e, id) /\ handle[e][id] \in {"opening", "syn_wait", "open"}
        /\ handle'[e][id] = "dropped" /\ UNCHANGED <<next_stream_id, accept_ch>>
    BY <1>10 DEF Gone, Steady
  <2> QED
    BY <1>0, <2>1, <2>2, UseOrigin
<1> QED
  BY <1>1, <1>2, <1>3, <1>4, <1>5, <1>6, <1>7, <1>8, <1>9, <1>10 DEF Used

\* Every step keeps Origin.
LEMMA NextOrigin ==
  ASSUME NoForeign, TypeOK, Origin, [Next]_vars
  PROVE  Origin'
<1>1. Move
  BY NextMove
<1>2. CASE Idle
  BY <1>2, StayOrigin, ThinsMoves DEF Idle, AllSame, Same
<1>3. ASSUME NEW e \in Sides, Exit(e) PROVE Origin'
  <2>1. Thins
    BY <1>3, ThinsMoves, NopType DEF Exit
  <2> QED
    BY <1>3, <2>1, StayOrigin DEF Exit, AllSame, Same
<1> QED
  BY <1>1, <1>2, <1>3, CountedOrigin, ReceivedOrigin, UsedOrigin DEF Move

\* At the start there are no streams and no frames.
LEMMA InitOrigin == Init => Origin
<1> SUFFICES ASSUME Init PROVE Origin
  OBVIOUS
<1>1. \A w \in Sides : Pipes[w] = << >>
  BY ConcatEmptySeq DEF Init, Pipes, Pipe
<1>2. \A w \in Sides : \A g : ~In(Pipes[w], g)
  BY <1>1 DEF In
<1>3. \A w \in Sides : \A g, h : ~Before(Pipes[w], g, h)
  BY <1>1 DEF Before
<1>4. FramesOwned /\ SynIsNews
  BY <1>2 DEF FramesOwned, SynIsNews
<1>5. SynFirst
  BY <1>3 DEF SynFirst
<1>6. OwnIds
  BY DEF Init, OwnIds, Opener, InitialId, Sides
<1>7. Untouched
  BY DEF Init, Untouched
<1>8. OpenerFirst /\ QueueExact
  BY DEF Init, OpenerFirst, QueueExact
<1> QED
  BY <1>4, <1>5, <1>6, <1>7, <1>8 DEF Origin

\* Origin holds of every reachable state.
LEMMA OriginInvariant == NoForeign => (Spec => []Origin)
<1> SUFFICES ASSUME NoForeign PROVE Spec => []Origin
  OBVIOUS
<1>1. TypeOK /\ Origin /\ [Next]_vars => Origin'
  BY NextOrigin
<1> QED
  BY <1>1, InitOrigin, TypeCorrect, PTL DEF Spec

-----------------------------------------------------------------------------
(* What a step may do to one Stream, and to the frames on their way.         *)

\* The frames are read, cut, or withdrawn; or e sends f.
Sends(e, f) ==
  /\ Puts(e, f) /\ Only(e, f.id) /\ LinksSame /\ send_pc[e] # "done"
  /\ \/ /\ f = Syn(f.id) /\ handle[e][f.id] = "opening"
        /\ handle'[e][f.id] \in {"open", "syn_wait"}
     \/ /\ f.cmd \in {"PSH", "FIN"} /\ handle[e][f.id] \in {"open", "syn_wait"}
        /\ handle'[e][f.id] \in {"open", "closing", "dropped"}
        /\ f.id \notin is_write_closed[e]
        /\ f.cmd = "FIN" => f.id \in is_write_closed'[e]

SynLost(e, id) ==
  /\ Loses(e, Syn(id)) /\ LinksSame
  /\ handle[e][id] = "syn_wait" /\ handle'[e][id] = "dropped"

\* What happens to the frames.
LEMMA FrameSteps ==
  ASSUME TypeOK, Move
  PROVE  \/ Keeps
         \/ \E e \in Sides : Exit(e)
         \/ \E e \in Sides, f \in FrameSet : Received(e, f)
         \/ \E e \in Sides, f \in FrameSet : Sends(e, f)
         \/ \E e \in Sides, id \in StreamId : Cancelled(e, id)
         \/ \E e \in Sides, id \in StreamId : SynLost(e, id)
<1>1. ASSUME NEW e \in Sides, NEW id \in StreamId, Used(e, id)
      PROVE  \/ Keeps \/ Cancelled(e, id) \/ SynLost(e, id)
             \/ \E f \in FrameSet : Sends(e, f)
  <2>0. Syn(id) \in FrameSet /\ Fin(id) \in FrameSet
    BY FrameType, EmptyType
  <2>1. CASE SynPut(e, id)
    <3>1. Sends(e, Syn(id))
      BY <2>1, FrameFields DEF SynPut, Sends
    <3> QED
      BY <2>0, <3>1
  <2>2. ASSUME NEW k \in Nat, Wrote(e, id, k)
        PROVE  \E f \in FrameSet : Sends(e, f)
    <3> DEFINE f == Psh(id, [lo |-> sent[e][id], hi |-> sent[e][id] + k])
    <3>1. sent[e][id] \in Nat
      BY DEF TypeOK, HistOK
    <3>2. [lo |-> sent[e][id], hi |-> sent[e][id] + k] \in Chunk
      BY <3>1 DEF Chunk
    <3>3. f \in FrameSet /\ f.id = id /\ f.cmd = "PSH"
      BY <3>2, FrameType, FrameFields
    <3>4. Sends(e, f)
      <4> HIDE DEF f
      <4>1. Puts(e, f)
        BY <2>2 DEF Wrote, f
      <4> QED
        BY <2>2, <3>3, <4>1 DEF Wrote, Sends
    <3> QED
      BY <3>3, <3>4
  <2>3. ASSUME FinPut(e, id), Only(e, id), LinksSame, id \notin is_write_closed[e],
               id \in is_write_closed'[e], handle[e][id] \in {"open", "syn_wait"},
               handle'[e][id] \in {"open", "closing", "dropped"}
        PROVE  \E f \in FrameSet : Sends(e, f)
    <3>1. Sends(e, Fin(id))
      BY <2>3, FrameFields DEF FinPut, Sends
    <3> QED
      BY <2>0, <3>1
  <2>4. CASE Shut(e, id)
    BY <2>3, <2>4 DEF Shut, NoFinPut
  <2>5. CASE Gone(e, id)
    BY <2>3, <2>5 DEF Gone, NoFinPut, SynLost
  <2> QED
    BY <1>1, <2>1, <2>2, <2>4, <2>5
       DEF Used, Opened, Accepted, Resumed, ReadSome, ReadEnd
<1> QED
  BY <1>1 DEF Move, Idle, Counted

\* What happens to the Streams.
LEMMA StreamSteps ==
  ASSUME TypeOK, Origin, Move, NEW d \in Sides, NEW i \in StreamId
  PROVE  /\ handle'[d][i] = "none" => handle[d][i] = "none"
         /\ handle[d][i] = "dropped" => handle'[d][i] = "dropped"
         /\ handle[d][i] = "none" /\ handle'[d][i] # "none" => i \in streams'[d]
         /\ i \in streams'[d] => i \in streams[d] \/ handle[d][i] = "none"
         /\ i \in is_write_closed[d] => i \in is_write_closed'[d]
         /\ send_pc[d] = "done" => send_pc'[d] = "done"
<1>1. Untouched /\ FramesOwned /\ SynIsNews /\ QueueExact
  BY DEF Origin
<1>2. LinksSame \/ \E e \in Sides : Exit(e)
  <2>1. ASSUME NEW e \in Sides, NEW f \in FrameSet, Received(e, f) PROVE LinksSame
    BY <2>1 DEF Received, Skip, SynGot, FinGot, PshGot, PshLost
  <2>2. ASSUME NEW e \in Sides, NEW id \in StreamId, Used(e, id) PROVE LinksSame
    BY <2>2 DEF Used, Opened, SynPut, Accepted, Resumed, ReadSome, ReadEnd, Wrote,
                Shut, Cancelled, Gone
  <2> QED
    BY <2>1, <2>2 DEF Move, Idle, Counted
<1>3. send_pc[d] = "done" => send_pc'[d] = "done"
  BY <1>2 DEF LinksSame, Exit
<1>4. ASSUME NEW e \in Sides, NEW f \in FrameSet, Received(e, f)
      PROVE  \/ Same(d, i)
             \/ /\ handle[d][i] = "none" /\ handle'[d][i] = "queued" /\ i \in streams'[d]
                /\ i \notin is_write_closed[d]
             \/ /\ UNCHANGED <<handle, is_write_closed>>
                /\ i \in streams'[d] => i \in streams[d]
  <2>1. CASE SynGot(e, f)
    <3>1. Peer(e) \in Sides /\ In(Pipes[Peer(e)], f) /\ Peer(Peer(e)) = e
      BY <2>1, Ends DEF SynGot, Takes
    <3>2. handle[e][f.id] = "none"
      BY <1>1, <2>1, <3>1 DEF SynGot, SynIsNews
    <3>3. f.id \in StreamId
      BY DEF FrameSet
    <3> QED
      BY <1>1, <2>1, <3>2, <3>3 DEF SynGot, Only, Untouched
  <2>2. CASE Skip(e, f)
    BY <2>2 DEF Skip, AllSame
  <2>3. CASE FinGot(e, f) \/ PshLost(e, f)
    BY <2>3 DEF FinGot, PshLost, Only
  <2>4. CASE PshGot(e, f)
    BY <2>4 DEF PshGot
  <2> QED
    BY <1>4, <2>1, <2>2, <2>3, <2>4 DEF Received
<1>5. ASSUME NEW e \in Sides, NEW id \in StreamId, Used(e, id)
      PROVE  \/ Same(d, i)
             \/ /\ handle[d][i] = "none" /\ handle'[d][i] = "opening" /\ i \in streams'[d]
                /\ i \notin is_write_closed[d]
             \/ /\ handle[d][i] \notin {"none", "dropped"} /\ handle'[d][i] # "none"
                /\ UNCHANGED streams
                /\ i \in is_write_closed[d] => i \in is_write_closed'[d]
  <2>1. CASE d # e \/ i # id
    BY <1>5, <2>1 DEF Used, Opened, SynPut, Accepted, Resumed, ReadSome, ReadEnd, Wrote,
                      Shut, Cancelled, Gone, Only
  <2>2. CASE d = e /\ i = id
    <3>1. CASE Opened(e, id)
      BY <1>1, <2>2, <3>1 DEF Opened, Untouched
    <3>2. CASE Accepted(e, id)
      <4>1. accept_ch[e] \in Seq(StreamId) /\ accept_ch[e] # << >>
        BY <3>2 DEF TypeOK, ChanOK, Accepted
      <4>2. 1 \in 1..Len(accept_ch[e]) /\ accept_ch[e][1] = id
        BY <3>2, <4>1, HeadTailProperties, LenProperties, EmptySeq DEF Accepted
      <4>3. handle[e][id] = "queued"
        BY <1>1, <4>2 DEF QueueExact
      <4> QED
        BY <2>2, <3>2, <4>3 DEF Accepted
    <3>3. CASE SynPut(e, id) \/ Resumed(e, id) \/ ReadEnd(e, id)
      BY <2>2, <3>3 DEF SynPut, Resumed, ReadEnd
    <3>4. ASSUME NEW n \in ReadSizes, ReadSome(e, id, n)
          PROVE  UNCHANGED <<handle, streams, is_write_closed>> /\ handle[e][id] = "open"
      BY <3>4 DEF ReadSome
    <3>5. ASSUME NEW k \in Nat, Wrote(e, id, k)
          PROVE  UNCHANGED <<handle, streams, is_write_closed>> /\ handle[e][id] = "open"
      BY <3>5 DEF Wrote
    <3>6. CASE Shut(e, id) \/ Cancelled(e, id) \/ Gone(e, id)
      BY <2>2, <3>6 DEF Shut, Cancelled, Gone
    <3> QED
      BY <1>5, <2>2, <3>1, <3>2, <3>3, <3>4, <3>5, <3>6 DEF Used
  <2> QED
    BY <2>1, <2>2
<1>6. \/ Same(d, i)
      \/ /\ handle[d][i] = "none" /\ handle'[d][i] \in {"opening", "queued"}
         /\ i \in streams'[d] /\ i \notin is_write_closed[d]
      \/ /\ UNCHANGED <<handle, is_write_closed>>
         /\ i \in streams'[d] => i \in streams[d]
      \/ /\ handle[d][i] \notin {"none", "dropped"} /\ handle'[d][i] # "none"
         /\ UNCHANGED streams
         /\ i \in is_write_closed[d] => i \in is_write_closed'[d]
  BY <1>4, <1>5 DEF Move, Idle, Exit, Counted, AllSame
<1> QED
  BY <1>3, <1>6 DEF Same

-----------------------------------------------------------------------------
(* The order of the frames of a stream, and what the two ends know of each    *)
(* other through it.  Frames go from w to Peer(w).                           *)

\* Nothing of a stream comes behind its FIN, and w has closed it by then.
FinLast ==
  \A w \in Sides, g, h \in FrameSet :
    Before(Pipes[w], g, h) /\ g.cmd = "FIN" /\ g.id = h.id => h.cmd = "NOP"

FinMeansClosed ==
  \A w \in Sides, g \in FrameSet :
    In(Pipes[w], g) /\ g.cmd = "FIN" => g.id \in is_write_closed[w]

\* As long as the peer does not know a stream, its frames stand behind its SYN;
\* behind one that waits with open_stream() there are none yet.
BehindSyn ==
  \A w \in Sides, g \in FrameSet :
    (In(Pipes[w], g) /\ g.cmd \in {"PSH", "FIN"} /\ handle[Peer(w)][g.id] = "none") =>
      Before(Pipes[w], Syn(g.id), g)

SynAlone ==
  \A w \in Sides, g \in FrameSet :
    (In(Pipes[w], g) /\ g.cmd # "NOP" /\ handle[w][g.id] = "syn_wait") => g.cmd = "SYN"

\* The SYN of a stream in use is on its way until the peer knows the stream.
SynThere ==
  \A w \in Sides, id \in StreamId :
    /\ Opener(id) = w /\ handle[w][id] \in {"syn_wait", "open", "closing"}
    /\ send_pc[w] # "done" /\ handle[Peer(w)][id] = "none"
    => In(Pipes[w], Syn(id))

\* A session forgets a stream only behind the last data of its peer, unless
\* the application has dropped it.
Forgotten ==
  \A w \in Sides, id \in StreamId :
    (handle[Peer(w)][id] \notin {"none", "dropped"} /\ id \notin streams[Peer(w)]) =>
      /\ id \in is_write_closed[w]
      /\ \A g \in FrameSet : In(Pipes[w], g) /\ g.cmd = "PSH" => g.id # id

\* A FIN that was sent is on its way until the peer has handled it.
FinThere ==
  \A w \in Sides, id \in StreamId :
    /\ id \in fin_sent[w] /\ send_pc[w] # "done"
    /\ id \in streams[Peer(w)] \/ handle[Peer(w)][id] = "none"
    => In(Pipes[w], Fin(id))

Order ==
  /\ FinLast /\ FinMeansClosed /\ BehindSyn /\ SynAlone /\ SynThere /\ Forgotten
  /\ FinThere

\* Nothing of a stream is on its way from w once its write side is closed but
\* what was sent before: a frame that is sent has no FIN before it.
LEMMA SendsNoFin ==
  ASSUME TypeOK, Origin, Order, NEW e \in Sides, NEW f \in FrameSet, Sends(e, f)
  PROVE  \A g \in FrameSet : In(Pipes[e], g) /\ g.cmd = "FIN" => g.id # f.id
<1>1. FramesOwned /\ FinMeansClosed
  BY DEF Origin, Order
<1>2. CASE handle[e][f.id] = "opening"
  BY <1>1, <1>2, FrameFields DEF FramesOwned
<1>3. CASE f.id \notin is_write_closed[e]
  BY <1>1, <1>3 DEF FinMeansClosed
<1> QED
  BY <1>2, <1>3 DEF Sends

\* Every step that does not send adds no frames.
LEMMA MoveThins ==
  ASSUME TypeOK, Move
  PROVE  Thins \/ \E e \in Sides, f \in FrameSet : Sends(e, f)
<1>1. ASSUME NEW e \in Sides, Exit(e) PROVE Thins
  BY <1>1, ThinsMoves, NopType DEF Exit
<1>2. ASSUME NEW e \in Sides, NEW f \in FrameSet, Received(e, f) PROVE Thins
  BY <1>2, ThinsMoves DEF Received, Skip, SynGot, FinGot, PshGot, PshLost
<1>3. ASSUME NEW e \in Sides, NEW id \in StreamId, Cancelled(e, id) \/ SynLost(e, id)
      PROVE  Thins
  <2>1. Syn(id) \in FrameSet /\ Fin(id) \in FrameSet
    BY FrameType, EmptyType
  <2> QED
    BY <1>3, <2>1, ThinsMoves DEF Cancelled, SynLost
<1> QED
  BY <1>1, <1>2, <1>3, ThinsMoves, FrameSteps

\* The FIN stays the last frame: the write side is closed when it is sent.
LEMMA FinLastStep ==
  ASSUME TypeOK, Origin, Order, Move
  PROVE  FinLast' /\ FinMeansClosed'
<1>0. \A g \in FrameSet : g.id \in StreamId
  BY DEF FrameSet
<1>1. FinLast /\ FinMeansClosed
  BY DEF Order
<1>2. \A d \in Sides, i \in StreamId : i \in is_write_closed[d] => i \in is_write_closed'[d]
  BY StreamSteps
<1>3. CASE Thins
  <2>1. FinLast'
    BY <1>1, <1>3, FrameFields DEF FinLast, Thins
  <2>2. FinMeansClosed'
    BY <1>0, <1>1, <1>2, <1>3, FrameFields DEF FinMeansClosed, Thins
  <2> QED
    BY <2>1, <2>2
<1>4. ASSUME NEW e \in Sides, NEW f \in FrameSet, Sends(e, f)
      PROVE  FinLast' /\ FinMeansClosed'
  <2>1. Puts(e, f) /\ (f.cmd = "FIN" => f.id \in is_write_closed'[e])
    BY <1>4, FrameFields DEF Sends
  <2>2. \A g \in FrameSet : In(Pipes[e], g) /\ g.cmd = "FIN" => g.id # f.id
    BY <1>4, SendsNoFin
  <2>3. FinLast'
    BY <1>1, <2>1, <2>2 DEF FinLast, Puts
  <2>4. FinMeansClosed'
    BY <1>0, <1>1, <1>2, <2>1 DEF FinMeansClosed, Puts
  <2> QED
    BY <2>3, <2>4
<1> QED
  BY <1>3, <1>4, MoveThins

\* Where a frame that is on its way comes from, and where it can go.
LEMMA NewFrames ==
  ASSUME TypeOK, Move, NEW w \in Sides, NEW g \in FrameSet, g # Nop,
         In(Pipes'[w], g), ~In(Pipes[w], g)
  PROVE  Sends(w, g)
BY MoveThins DEF Thins, Sends, Puts

\* A frame stays on its way until it is received or withdrawn, or send_loop ends.
LEMMA FramesStay ==
  ASSUME TypeOK, Move, NEW w \in Sides, NEW g \in FrameSet, g # Nop,
         In(Pipes[w], g), send_pc'[w] # "done"
  PROVE  \/ In(Pipes'[w], g)
         \/ Received(Peer(w), g)
         \/ \E id \in StreamId : g = Fin(id) /\ Cancelled(w, id)
         \/ \E id \in StreamId : g = Syn(id) /\ SynLost(w, id)
<1>1. CASE Keeps
  BY <1>1 DEF Keeps
<1>2. ASSUME NEW e \in Sides, Exit(e) PROVE In(Pipes'[w], g)
  BY <1>2 DEF Exit, Cuts
<1>3. ASSUME NEW e \in Sides, NEW f \in FrameSet, Received(e, f)
      PROVE  In(Pipes'[w], g) \/ Received(Peer(w), g)
  <2>1. Takes(e, f)
    BY <1>3 DEF Received, Skip, SynGot, FinGot, PshGot, PshLost
  <2> QED
    BY <1>3, <2>1, Ends DEF Takes
<1>4. ASSUME NEW e \in Sides, NEW f \in FrameSet, Sends(e, f) PROVE In(Pipes'[w], g)
  BY <1>4 DEF Sends, Puts
<1>5. ASSUME NEW e \in Sides, NEW id \in StreamId, Cancelled(e, id)
      PROVE  In(Pipes'[w], g) \/ (g = Fin(id) /\ Cancelled(w, id))
  BY <1>5 DEF Cancelled, Loses
<1>6. ASSUME NEW e \in Sides, NEW id \in StreamId, SynLost(e, id)
      PROVE  In(Pipes'[w], g) \/ (g = Syn(id) /\ SynLost(w, id))
  BY <1>6 DEF SynLost, Loses
<1> QED
  BY <1>1, <1>2, <1>3, <1>4, <1>5, <1>6, FrameSteps

\* If g stays, so does h before it, unless h is received or withdrawn.
LEMMA OrderStays ==
  ASSUME TypeOK, Origin, Order, Move, NEW w \in Sides, NEW g \in FrameSet,
         NEW h \in FrameSet, g # Nop, h # Nop, g # h,
         Before(Pipes[w], h, g), ~Before(Pipes[w], g, h), In(Pipes'[w], g)
  PROVE  \/ Before(Pipes'[w], h, g)
         \/ Received(Peer(w), h)
         \/ \E id \in StreamId : h = Fin(id) /\ Cancelled(w, id)
         \/ \E id \in StreamId : h = Syn(id) /\ SynLost(w, id)
<1>0. FinLast /\ SynFirst
  BY DEF Order, Origin
<1>1. CASE Keeps
  BY <1>1 DEF Keeps
<1>2. ASSUME NEW e \in Sides, Exit(e) PROVE Before(Pipes'[w], h, g)
  BY <1>2 DEF Exit, Cuts
<1>3. ASSUME NEW e \in Sides, NEW f \in FrameSet, Received(e, f)
      PROVE  Before(Pipes'[w], h, g) \/ Received(Peer(w), h)
  <2>1. Takes(e, f)
    BY <1>3 DEF Received, Skip, SynGot, FinGot, PshGot, PshLost
  <2> QED
    BY <1>3, <2>1, Ends DEF Takes
<1>4. ASSUME NEW e \in Sides, NEW f \in FrameSet, Sends(e, f)
      PROVE  Before(Pipes'[w], h, g)
  BY <1>4 DEF Sends, Puts
<1>5. ASSUME NEW e \in Sides, NEW id \in StreamId, Cancelled(e, id)
      PROVE  Before(Pipes'[w], h, g) \/ (h = Fin(id) /\ Cancelled(w, id))
  <2>1. Loses(e, Fin(id)) /\ Fin(id) \in FrameSet
    BY <1>5, FrameType, EmptyType DEF Cancelled
  <2>2. ~Before(Pipes[e], Fin(id), Fin(id))
    BY <1>0, <2>1, FrameFields DEF FinLast
  <2> QED
    BY <1>5, <2>1, <2>2 DEF Loses
<1>6. ASSUME NEW e \in Sides, NEW id \in StreamId, SynLost(e, id)
      PROVE  Before(Pipes'[w], h, g) \/ (h = Syn(id) /\ SynLost(w, id))
  <2>1. Loses(e, Syn(id)) /\ Syn(id) \in FrameSet
    BY <1>6, FrameType, EmptyType DEF SynLost
  <2>2. ~Before(Pipes[e], Syn(id), Syn(id))
    BY <1>0, <2>1, FrameFields DEF SynFirst
  <2> QED
    BY <1>6, <2>1, <2>2 DEF Loses
<1> QED
  BY <1>1, <1>2, <1>3, <1>4, <1>5, <1>6, FrameSteps

\* Which steps bring a Stream into use, send its FIN, or forget it.
LEMMA UseSteps ==
  ASSUME TypeOK, Origin, Move, NEW d \in Sides, NEW i \in StreamId
  PROVE  /\ handle'[d][i] = "syn_wait" => handle[d][i] = "syn_wait" \/ SynPut(d, i)
         /\ handle'[d][i] \in {"syn_wait", "open", "closing"} =>
              \/ handle[d][i] \in {"syn_wait", "open", "closing", "queued"}
              \/ SynPut(d, i)
         /\ i \in fin_sent'[d] => i \in fin_sent[d] \/ FinPut(d, i)
         /\ i \in streams[d] /\ i \notin streams'[d] =>
              \/ handle[d][i] = "dropped"
              \/ \E f \in FrameSet : FinGot(d, f) /\ f.id = i
<1>1. CASE Same(d, i)
  BY <1>1 DEF Same
<1>2. QueueExact
  BY DEF Origin
<1>3. CASE Idle \/ \E e \in Sides : Exit(e) \/ Counted(e)
  BY <1>1, <1>3 DEF Idle, Exit, Counted, AllSame
<1>4. ASSUME NEW e \in Sides, NEW f \in FrameSet, Received(e, f), ~Same(d, i)
      PROVE  /\ d = e /\ i = f.id /\ UNCHANGED fin_sent
             /\ \/ handle'[d][i] = "queued" /\ i \in streams'[d]
                \/ /\ UNCHANGED handle
                   /\ \/ FinGot(e, f) \/ handle[d][i] = "dropped"
                      \/ i \notin streams[d] \/ UNCHANGED streams
  BY <1>4 DEF Received, Skip, AllSame, SynGot, FinGot, PshGot, PshLost, Only
<1>5. ASSUME NEW e \in Sides, NEW id \in StreamId, Used(e, id), ~Same(d, i)
      PROVE  /\ d = e /\ i = id
             /\ i \in streams[d] => i \in streams'[d]
             /\ i \in fin_sent'[d] => i \in fin_sent[d] \/ FinPut(d, i)
             /\ \/ handle'[d][i] \in {"opening", "dropped"} \/ SynPut(d, i)
                \/ /\ handle[d][i] \in {"syn_wait", "open", "closing", "queued"}
                   /\ handle'[d][i] \in {"open", "closing"}
  <2>1. d = e /\ i = id
    BY <1>5 DEF Used, Opened, SynPut, Accepted, Resumed, ReadSome, ReadEnd, Wrote,
                Shut, Cancelled, Gone, Only
  <2>2. CASE Opened(e, id)
    BY <2>1, <2>2 DEF Opened
  <2>3. CASE Accepted(e, id)
    <3>1. accept_ch[e] \in Seq(StreamId) /\ accept_ch[e] # << >>
      BY <2>3 DEF TypeOK, ChanOK, Accepted
    <3>2. 1 \in 1..Len(accept_ch[e]) /\ accept_ch[e][1] = id
      BY <2>3, <3>1, HeadTailProperties, LenProperties, EmptySeq DEF Accepted
    <3>3. handle[e][id] = "queued"
      BY <1>2, <3>2 DEF QueueExact
    <3> QED
      BY <2>1, <2>3, <3>3 DEF Accepted
  <2>4. CASE SynPut(e, id) \/ Resumed(e, id) \/ ReadEnd(e, id)
    BY <2>1, <2>4 DEF SynPut, Resumed, ReadEnd
  <2>5. ASSUME NEW n \in ReadSizes, ReadSome(e, id, n)
        PROVE  UNCHANGED <<handle, streams, fin_sent>> /\ handle[e][id] = "open"
    BY <2>5 DEF ReadSome
  <2>6. ASSUME NEW k \in Nat, Wrote(e, id, k)
        PROVE  UNCHANGED <<handle, streams, fin_sent>> /\ handle[e][id] = "open"
    BY <2>6 DEF Wrote
  <2>7. CASE Shut(e, id) \/ Cancelled(e, id) \/ Gone(e, id)
    BY <2>1, <2>7 DEF Shut, Cancelled, Gone, NoFinPut
  <2> QED
    BY <1>5, <2>1, <2>2, <2>3, <2>4, <2>5, <2>6, <2>7 DEF Used
<1>6. ASSUME NEW e \in Sides, NEW f \in FrameSet, Received(e, f), ~Same(d, i)
      PROVE  /\ handle'[d][i] = "queued" \/ handle'[d][i] = handle[d][i]
             /\ i \in fin_sent'[d] => i \in fin_sent[d]
             /\ i \in streams[d] /\ i \notin streams'[d] =>
                  \/ handle[d][i] = "dropped"
                  \/ \E h \in FrameSet : FinGot(d, h) /\ h.id = i
  BY <1>4, <1>6
<1> QED
  BY <1>1, <1>3, <1>5, <1>6 DEF Move

\* What stands before or behind a frame is there.
LEMMA BeforeIn ==
  ASSUME NEW p, NEW g, NEW h, Before(p, h, g)
  PROVE  In(p, h) /\ In(p, g)
BY DEF Before, In

\* Nothing follows a SYN whose open_stream() has not returned.
LEMMA SynAloneStep ==
  ASSUME TypeOK, Origin, Order, Move
  PROVE  SynAlone'
<1> SUFFICES ASSUME NEW w \in Sides, NEW g \in FrameSet, In(Pipes'[w], g),
                    g.cmd # "NOP", handle'[w][g.id] = "syn_wait"
             PROVE  g.cmd = "SYN"
  BY DEF SynAlone
<1>0. FramesOwned /\ SynAlone /\ g.id \in StreamId /\ g # Nop
  BY FrameFields DEF Origin, Order, FrameSet
<1>1. CASE In(Pipes[w], g)
  <2>1. handle[w][g.id] # "opening"
    BY <1>0, <1>1 DEF FramesOwned
  <2>2. handle[w][g.id] = "syn_wait"
    BY <1>0, <2>1, UseSteps DEF SynPut
  <2> QED
    BY <1>0, <1>1, <2>2 DEF SynAlone
<1>2. CASE ~In(Pipes[w], g)
  <2>1. Sends(w, g)
    BY <1>0, <1>2, NewFrames
  <2> QED
    BY <2>1, FrameFields DEF Sends
<1> QED
  BY <1>1, <1>2

\* The SYN does not get lost.
LEMMA SynThereStep ==
  ASSUME TypeOK, Origin, Order, Move
  PROVE  SynThere'
<1> SUFFICES ASSUME NEW w \in Sides, NEW id \in StreamId, Opener(id) = w,
                    handle'[w][id] \in {"syn_wait", "open", "closing"},
                    send_pc'[w] # "done", handle'[Peer(w)][id] = "none"
             PROVE  In(Pipes'[w], Syn(id))
  BY DEF SynThere
<1>0. /\ OwnIds /\ SynThere /\ Peer(w) \in Sides
      /\ Syn(id) \in FrameSet /\ Syn(id) # Nop /\ Syn(id).id = id /\ Syn(id).cmd = "SYN"
  BY FrameType, EmptyType, FrameFields, Ends DEF Origin, Order
<1>1. send_pc[w] # "done" /\ handle[Peer(w)][id] = "none"
  BY <1>0, StreamSteps
<1>2. CASE SynPut(w, id)
  BY <1>0, <1>2 DEF SynPut, Puts
<1>3. CASE handle[w][id] \in {"syn_wait", "open", "closing", "queued"}
  <2>1. In(Pipes[w], Syn(id))
    BY <1>0, <1>1, <1>3 DEF OwnIds, SynThere
  <2>2. ASSUME Received(Peer(w), Syn(id)) PROVE FALSE
    BY <1>0, <2>2 DEF Received, Skip, SynGot, FinGot, PshGot, PshLost
  <2>3. ASSUME NEW i \in StreamId, Syn(id) = Fin(i) PROVE FALSE
    BY <2>3, FrameFields
  <2>4. ASSUME NEW i \in StreamId, Syn(id) = Syn(i), SynLost(w, i) PROVE FALSE
    <3>1. i = id
      BY <2>4, FrameFields
    <3> QED
      BY <2>4, <3>1 DEF SynLost
  <2> QED
    BY <1>0, <2>1, <2>2, <2>3, <2>4, FramesStay
<1> QED
  BY <1>2, <1>3, UseSteps

\* Frames do not overtake the SYN.
LEMMA BehindSynStep ==
  ASSUME TypeOK, Origin, Order, Move
  PROVE  BehindSyn'
<1> SUFFICES ASSUME NEW w \in Sides, NEW g \in FrameSet, In(Pipes'[w], g),
                    g.cmd \in {"PSH", "FIN"}, handle'[Peer(w)][g.id] = "none"
             PROVE  Before(Pipes'[w], Syn(g.id), g)
  BY DEF BehindSyn
<1> DEFINE id == g.id
<1>0. /\ OpenerFirst /\ SynFirst /\ SynThere /\ SynAlone /\ BehindSyn
      /\ Peer(w) \in Sides /\ Peer(Peer(w)) = w /\ id \in StreamId /\ g # Nop
      /\ Syn(id) # Nop /\ Syn(id).id = id /\ Syn(id).cmd = "SYN" /\ g # Syn(id)
  BY FrameFields, Ends DEF Origin, Order, FrameSet
<1>1. Syn(id) \in FrameSet
  BY <1>0, FrameType, EmptyType
<1>2. handle[Peer(w)][id] = "none"
  BY <1>0, StreamSteps
<1>3. CASE In(Pipes[w], g)
  <2>1. Before(Pipes[w], Syn(id), g) /\ ~Before(Pipes[w], g, Syn(id))
    BY <1>0, <1>1, <1>2, <1>3 DEF BehindSyn, SynFirst
  <2>2. ASSUME Received(Peer(w), Syn(id)) PROVE FALSE
    BY <1>0, <2>2 DEF Received, Skip, SynGot, FinGot, PshGot, PshLost
  <2>3. ASSUME NEW i \in StreamId, Syn(id) = Fin(i) PROVE FALSE
    BY <2>3, FrameFields
  <2>4. ASSUME NEW i \in StreamId, Syn(id) = Syn(i), SynLost(w, i) PROVE FALSE
    <3>1. i = id
      BY <2>4, FrameFields
    <3>2. handle[w][id] = "syn_wait"
      BY <2>4, <3>1 DEF SynLost
    <3> QED
      BY <1>0, <1>3, <3>2 DEF SynAlone
  <2> QED
    BY <1>0, <1>1, <2>1, <2>2, <2>3, <2>4, OrderStays
<1>4. CASE ~In(Pipes[w], g)
  <2>1. Sends(w, g)
    BY <1>0, <1>4, NewFrames
  <2>2. handle[w][id] \in {"open", "syn_wait"} /\ send_pc[w] # "done" /\ Puts(w, g)
    BY <1>0, <2>1 DEF Sends
  <2>3. Opener(id) = w
    BY <1>0, <1>2, <2>2 DEF OpenerFirst
  <2>4. In(Pipes[w], Syn(id))
    BY <1>0, <1>2, <2>2, <2>3 DEF SynThere
  <2> QED
    BY <1>1, <2>2, <2>4 DEF Puts
<1> QED
  BY <1>3, <1>4

\* Only a FIN makes the session forget a Stream that the application still has.
LEMMA ForgottenStep ==
  ASSUME TypeOK, Origin, Order, Move
  PROVE  Forgotten'
<1> SUFFICES ASSUME NEW w \in Sides, NEW id \in StreamId,
                    handle'[Peer(w)][id] \notin {"none", "dropped"},
                    id \notin streams'[Peer(w)]
             PROVE  /\ id \in is_write_closed'[w]
                    /\ \A g \in FrameSet : In(Pipes'[w], g) /\ g.cmd = "PSH" => g.id # id
  BY DEF Forgotten
<1> DEFINE e == Peer(w)
<1>0. /\ FinLast /\ FinMeansClosed /\ Forgotten
      /\ e \in Sides /\ Peer(e) = w
  BY Ends DEF Order
<1>1. handle[e][id] \notin {"none", "dropped"}
  BY <1>0, StreamSteps
<1>2. id \in is_write_closed[w] => id \in is_write_closed'[w]
  BY StreamSteps
<1>3. CASE id \notin streams[e]
  <2>1. id \in is_write_closed[w]
        /\ \A g \in FrameSet : In(Pipes[w], g) /\ g.cmd = "PSH" => g.id # id
    BY <1>0, <1>1, <1>3 DEF Forgotten
  <2>2. ASSUME NEW g \in FrameSet, In(Pipes'[w], g), g.cmd = "PSH", g.id = id
        PROVE  FALSE
    <3>1. Sends(w, g)
      BY <2>1, <2>2, NewFrames, FrameFields
    <3> QED
      BY <2>1, <2>2, <3>1, FrameFields DEF Sends
  <2> QED
    BY <1>2, <2>1, <2>2
<1>4. CASE id \in streams[e]
  <2>1. PICK f \in FrameSet : FinGot(e, f) /\ f.id = id
    BY <1>0, <1>1, <1>4, UseSteps
  <2>2. Takes(e, f) /\ f.cmd = "FIN" /\ In(Pipes[w], f)
    BY <1>0, <2>1 DEF FinGot, Takes
  <2>3. id \in is_write_closed[w]
    BY <1>0, <2>1, <2>2 DEF FinMeansClosed
  <2>4. ASSUME NEW g \in FrameSet, In(Pipes'[w], g), g.cmd = "PSH", g.id = id
        PROVE  FALSE
    <3>1. Before(Pipes[w], f, g)
      BY <1>0, <2>2, <2>4 DEF Takes
    <3> QED
      BY <1>0, <2>1, <2>2, <2>4, <3>1 DEF FinLast
  <2> QED
    BY <1>2, <2>3, <2>4
<1> QED
  BY <1>3, <1>4

\* The FIN does not get lost.
LEMMA FinThereStep ==
  ASSUME TypeOK, Origin, Order, Move
  PROVE  FinThere'
<1> SUFFICES ASSUME NEW w \in Sides, NEW id \in StreamId, id \in fin_sent'[w],
                    send_pc'[w] # "done",
                    id \in streams'[Peer(w)] \/ handle'[Peer(w)][id] = "none"
             PROVE  In(Pipes'[w], Fin(id))
  BY DEF FinThere
<1> DEFINE e == Peer(w)
<1>0. /\ FinThere /\ BehindSyn /\ e \in Sides /\ Peer(e) = w
      /\ Fin(id).id = id /\ Fin(id).cmd = "FIN" /\ Fin(id) # Nop
      /\ Syn(id).id = id /\ Syn(id).cmd = "SYN" /\ Fin(id) # Syn(id)
  BY FrameFields, Ends DEF Order
<1>1. Syn(id) \in FrameSet /\ Fin(id) \in FrameSet
  BY FrameType, EmptyType
<1>2. /\ send_pc[w] # "done"
      /\ id \in streams[e] \/ handle[e][id] = "none"
      /\ handle'[e][id] = "none" => handle[e][id] = "none"
  BY <1>0, StreamSteps
<1>3. CASE FinPut(w, id)
  BY <1>1, <1>3 DEF FinPut, Puts
<1>4. CASE id \in fin_sent[w]
  <2>1. In(Pipes[w], Fin(id))
    BY <1>0, <1>2, <1>4 DEF FinThere
  <2>2. ASSUME Received(e, Fin(id)) PROVE In(Pipes'[w], Fin(id))
    <3>1. FinGot(e, Fin(id))
      BY <1>0, <2>2 DEF Received, Skip, SynGot, FinGot, PshGot, PshLost
    <3>2. Takes(e, Fin(id)) /\ id \notin streams'[e]
      BY <1>0, <3>1 DEF FinGot
    <3>3. Before(Pipes[w], Syn(id), Fin(id))
      BY <1>0, <1>1, <1>2, <2>1, <3>2 DEF BehindSyn
    <3>4. Before(Pipes'[w], Syn(id), Fin(id))
      BY <1>0, <1>1, <3>2, <3>3 DEF Takes
    <3> QED
      BY <3>4, BeforeIn
  <2>3. ASSUME NEW i \in StreamId, Fin(id) = Fin(i), Cancelled(w, i) PROVE FALSE
    <3>1. i = id
      BY <2>3, FrameFields
    <3> QED
      BY <2>3, <3>1 DEF Cancelled
  <2>4. ASSUME NEW i \in StreamId, Fin(id) = Syn(i) PROVE FALSE
    BY <2>4, FrameFields
  <2> QED
    BY <1>0, <1>1, <2>1, <2>2, <2>3, <2>4, FramesStay
<1> QED
  BY <1>3, <1>4, UseSteps

\* At the start no frame is on its way.
LEMMA InitOrder == Init => Order
<1> SUFFICES ASSUME Init PROVE Order
  OBVIOUS
<1>1. \A w \in Sides : Pipes[w] = << >>
  BY ConcatEmptySeq DEF Init, Pipes, Pipe
<1>2. \A w \in Sides : \A g : ~In(Pipes[w], g)
  BY <1>1 DEF In
<1>3. \A w \in Sides : \A g, h : ~Before(Pipes[w], g, h)
  BY <1>1 DEF Before
<1>4. FinLast
  BY <1>3 DEF FinLast
<1>5. FinMeansClosed /\ BehindSyn /\ SynAlone
  BY <1>2 DEF FinMeansClosed, BehindSyn, SynAlone
<1>6. SynThere /\ Forgotten /\ FinThere
  BY Ends DEF Init, SynThere, Forgotten, FinThere
<1> QED
  BY <1>4, <1>5, <1>6 DEF Order

\* Order holds of every reachable state.
LEMMA OrderInvariant == NoForeign => (Spec => []Order)
<1> SUFFICES ASSUME NoForeign PROVE Spec => []Order
  OBVIOUS
<1>1. ASSUME TypeOK, Origin, Order, [Next]_vars
      PROVE  Order'
  <2>1. Move
    BY <1>1, NextMove
  <2> QED
    BY <1>1, <2>1, FinLastStep, SynAloneStep, SynThereStep, BehindSynStep,
       ForgottenStep, FinThereStep DEF Order
<1>2. Spec => []Origin
  BY OriginInvariant
<1>3. TypeOK /\ Origin /\ Order /\ [Next]_vars => Order'
  BY <1>1
<1> QED
  BY <1>2, <1>3, InitOrder, TypeCorrect, PTL DEF Spec

-----------------------------------------------------------------------------
(* What Origin and Order say of the properties.                              *)

\* The frames of Pipe(w), by their positions.
LEMMA PipeAt ==
  ASSUME TypeOK, NEW w \in Sides
  PROVE  /\ Pipes[w] = Pipe(w)
         /\ \A i \in 1..Len(Pipe(w)) : /\ Pipe(w)[i] \in FrameSet
                                       /\ In(Pipes[w], Pipe(w)[i])
         /\ \A i \in 1..Len(Pipe(w)) : \A j \in (i+1)..Len(Pipe(w)) :
              Before(Pipes[w], Pipe(w)[i], Pipe(w)[j])
<1> DEFINE p == Pipes[w]
<1>1. p = Pipe(w)
  BY DEF Pipes
<1>2. p \in Seq(FrameSet) /\ Len(p) \in Nat
  BY PipesType, LenProperties
<1>3. \A i \in 1..Len(p) : p[i] \in FrameSet /\ In(p, p[i])
  <2> HIDE DEF p
  <2> QED
    BY <1>2, ElementOfSeq DEF In
<1>4. \A i \in 1..Len(p) : \A j \in (i+1)..Len(p) : Before(p, p[i], p[j])
  <2> HIDE DEF p
  <2> SUFFICES ASSUME NEW i \in 1..Len(p), NEW j \in (i+1)..Len(p)
               PROVE  Before(p, p[i], p[j])
    OBVIOUS
  <2>1. j \in 1..Len(p) /\ i < j
    BY <1>2
  <2> QED
    BY <2>1 DEF Before
<1> QED
  BY <1>1, <1>3, <1>4

\* Of the frames of a stream, the SYN is the first and the FIN the last, in both
\* directions and whichever of open_stream(), close(), poll_write(),
\* poll_shutdown() and Drop put them into the channel.
THEOREM SynOpensFinCloses == NoForeign => (Spec => []SynFirstFinLast)
<1> SUFFICES ASSUME NoForeign PROVE Spec => []SynFirstFinLast
  OBVIOUS
<1>1. ASSUME TypeOK, Origin, Order PROVE SynFirstFinLast
  <2> SUFFICES ASSUME NEW w \in Sides, NEW i \in 1..Len(Pipe(w)),
                      NEW j \in (i+1)..Len(Pipe(w)),
                      Pipe(w)[i].id = Pipe(w)[j].id, Pipe(w)[i].id # 0
               PROVE  Pipe(w)[i].cmd # "FIN" /\ Pipe(w)[j].cmd # "SYN"
    BY DEF SynFirstFinLast
  <2> DEFINE g == Pipe(w)[i]
             h == Pipe(w)[j]
  <2>0. j \in 1..Len(Pipe(w))
    <3>1. Len(Pipe(w)) \in Nat
      BY <1>1, PipesType, PipeAt, LenProperties
    <3> QED
      BY <3>1
  <2>1. /\ g \in FrameSet /\ In(Pipes[w], g) /\ h \in FrameSet /\ In(Pipes[w], h)
        /\ Before(Pipes[w], g, h)
    BY <1>1, <2>0, PipeAt
  <2> HIDE DEF g, h
  <2>2. g.id = h.id /\ g.id # 0
    BY DEF g, h
  <2>3. g.cmd # "NOP" /\ h.cmd # "NOP"
    BY <1>1, <2>1, <2>2, FrameFields DEF Origin, FramesOwned
  <2>4. h.cmd # "SYN"
    BY <1>1, <2>1, <2>2, <2>3 DEF Origin, SynFirst
  <2>5. g.cmd # "FIN"
    BY <1>1, <2>1, <2>2, <2>3 DEF Order, FinLast
  <2> QED
    BY <2>4, <2>5 DEF g, h
<1>2. TypeOK /\ Origin /\ Order => SynFirstFinLast
  BY <1>1
<1> QED
  BY <1>2, OriginInvariant, OrderInvariant, TypeCorrect, PTL

\* Data never reaches a session that does not know its stream, unless the
\* application there has dropped it: handle_psh_frame() finds the map entry.
THEOREM DataFindsReceiver == NoForeign => (Spec => []DataHasReceiver)
<1> SUFFICES ASSUME NoForeign PROVE Spec => []DataHasReceiver
  OBVIOUS
<1>1. ASSUME TypeOK, Origin, Order PROVE DataHasReceiver
  <2> SUFFICES ASSUME NEW w \in Sides, NEW i \in 1..Len(Pipe(w)),
                      Pipe(w)[i].cmd = "PSH",
                      Pipe(w)[i].id \notin streams[Peer(w)],
                      handle[Peer(w)][Pipe(w)[i].id] # "dropped"
               PROVE  \E j \in 1..(i-1) : Pipe(w)[j] = Syn(Pipe(w)[i].id)
    BY DEF DataHasReceiver
  <2> DEFINE p == Pipe(w)
             g == p[i]
             s == Syn(g.id)
  <2>1. g \in FrameSet /\ In(Pipes[w], g) /\ Pipes[w] = p
    BY <1>1, PipeAt
  <2>2. g.id \in StreamId /\ g.cmd = "PSH"
    BY <2>1 DEF FrameSet
  <2>3. handle[Peer(w)][g.id] = "none"
    BY <1>1, <2>1, <2>2 DEF Order, Forgotten
  <2>4. Before(p, s, g)
    BY <1>1, <2>1, <2>2, <2>3 DEF Order, BehindSyn
  <2>5. s \in FrameSet /\ s.cmd = "SYN" /\ s.id = g.id /\ s # g
    BY <2>2, FrameType, EmptyType, FrameFields
  <2>6. ~Before(p, g, s)
    BY <1>1, <2>1, <2>2, <2>5 DEF Origin, SynFirst
  <2>7. Len(p) \in Nat
    BY <1>1, <2>1, PipesType, LenProperties
  <2> HIDE DEF p, s
  <2>8. PICK a \in 1..Len(p) : p[a] = s
    BY <2>4 DEF Before
  <2>9. ~(i < a)
    BY <2>6, <2>8 DEF Before, p
  <2>10. a # i
    BY <2>5, <2>8
  <2>11. a \in 1..(i-1) /\ i \in 1..Len(p)
    BY <2>7, <2>8, <2>9, <2>10 DEF p
  <2> QED
    BY <2>8, <2>11 DEF p, s
<1>2. TypeOK /\ Origin /\ Order => DataHasReceiver
  BY <1>1
<1> QED
  BY <1>2, OriginInvariant, OrderInvariant, TypeCorrect, PTL

\* A FIN that went into the frame channel is on its way until the peer's
\* handle_fin_frame() has removed the map entry, while send_loop lives.
THEOREM FinIsNotLost == NoForeign => (Spec => []FinStaysUntilHandled)
<1> SUFFICES ASSUME NoForeign PROVE Spec => []FinStaysUntilHandled
  OBVIOUS
<1>1. ASSUME TypeOK, Order PROVE FinStaysUntilHandled
  <2> SUFFICES ASSUME NEW w \in Sides, NEW id \in fin_sent[w], send_pc[w] # "done",
                      id \in streams[Peer(w)]
               PROVE  \E i \in 1..Len(Pipe(w)) : Pipe(w)[i] = Fin(id)
    BY DEF FinStaysUntilHandled
  <2>1. id \in StreamId
    BY <1>1 DEF TypeOK, HistOK
  <2>2. In(Pipes[w], Fin(id))
    BY <1>1, <2>1 DEF Order, FinThere
  <2> QED
    BY <2>2 DEF In, Pipes
<1>2. TypeOK /\ Order => FinStaysUntilHandled
  BY <1>1
<1> QED
  BY <1>2, OrderInvariant, TypeCorrect, PTL

\* The Streams that wait to be accepted are in the channel once, and the channel
\* and recv_loop's turn bound their number.
QueueBound ==
  \A e \in Sides :
    /\ Len(accept_ch[e]) <= AcceptCap + 1
    /\ recv_pc[e] # "syn" => Len(accept_ch[e]) <= AcceptCap

\* Only recv_loop adds to the accept channel, and waits when it is full.
LEMMA QueueBoundStep ==
  ASSUME TypeOK, QueueBound, [Next]_vars
  PROVE  QueueBound'
<1>0. /\ AcceptCap \in Nat /\ accept_ch \in [Sides -> Seq(StreamId)]
      /\ recv_pc \in [Sides -> {"start", "select", "syn", "psh", "done"}]
      /\ \A d \in Sides : Len(accept_ch[d]) \in Nat
  BY ConfigAssumption, LenProperties DEF TypeOK, ChanOK, LoopOK
<1>1. ASSUME UNCHANGED accept_ch,
             \A d \in Sides : recv_pc'[d] # "syn" =>
               recv_pc[d] # "syn" \/ Len(accept_ch[d]) <= AcceptCap
      PROVE  QueueBound'
  BY <1>1 DEF QueueBound
<1>2. CASE UNCHANGED vars
  BY <1>1, <1>2
<1>3. CASE LinkFail
  BY <1>1, <1>3 DEF LinkFail
<1>4. ASSUME NEW e \in Sides, SendLoop(e) \/ KeepAliveLoop(e) \/ OpenCall(e)
             \/ Close(e) \/ DropSession(e)
             \/ (\E id \in StreamId : StreamStep(e, id))
             \/ (\E f \in ForeignFrames[e] : ForeignSend(e, f))
      PROVE  UNCHANGED <<accept_ch, recv_pc>>
  <2>1. CASE SendLoop(e)
    BY <2>1 DEF SendLoop, SendStart, SendFrame, SendResume, SendExit, SendBreak
  <2>2. CASE KeepAliveLoop(e)
    BY <2>2 DEF KeepAliveLoop, KeepStart, KeepPing, PingSent, KeepPingResume,
                KeepTimeout, TimeoutTick, KeepExit
  <2>3. CASE OpenCall(e)
    BY <2>3 DEF OpenCall, OpenStream, OpenStreamSyn, OpenStreamResume, OpenStreamCancel
  <2>4. CASE Close(e) \/ DropSession(e)
    BY <2>4 DEF Close, DropSession
  <2>5. CASE \E id \in StreamId : StreamStep(e, id)
    <3>1. PICK id \in StreamId : StreamStep(e, id)
      BY <2>5
    <3>2. CASE PollIdle(e, id)
      BY <3>2, PollIdleStep DEF PollUnchanged
    <3> QED
      BY <3>1, <3>2, StreamStepCases
         DEF PollRead, ReadUnchanged, PollReadEof, ReportEof, PollWrite, WritePsh,
             PollShutdown, CloseStream, CloseUnchanged, CloseStreamResume,
             CloseStreamCancel, Drop
  <2>6. CASE \E f \in ForeignFrames[e] : ForeignSend(e, f)
    BY <2>6 DEF ForeignSend
  <2> QED
    BY <1>4, <2>1, <2>2, <2>3, <2>4, <2>5, <2>6
<1>5. ASSUME NEW e \in Sides, AcceptCall(e) PROVE QueueBound'
  <2>1. CASE UNCHANGED <<accept_ch, recv_pc>>
    BY <1>1, <2>1
  <2>2. CASE AcceptStreamTake(e)
    <3>1. /\ accept_ch[e] \in Seq(StreamId) /\ accept_ch[e] # << >>
          /\ accept_ch' = [accept_ch EXCEPT ![e] = Tail(accept_ch[e])]
          /\ UNCHANGED recv_pc
      BY <1>0, <2>2 DEF AcceptStreamTake
    <3>2. Len(Tail(accept_ch[e])) = Len(accept_ch[e]) - 1
      BY <3>1, HeadTailProperties
    <3>3. /\ Len(accept_ch'[e]) = Len(accept_ch[e]) - 1
          /\ \A d \in Sides : d # e => accept_ch'[d] = accept_ch[d]
      BY <1>0, <3>1, <3>2
    <3>4. ASSUME NEW d \in Sides
          PROVE  /\ Len(accept_ch'[d]) <= AcceptCap + 1
                 /\ recv_pc'[d] # "syn" => Len(accept_ch'[d]) <= AcceptCap
      <4>1. /\ Len(accept_ch[d]) <= AcceptCap + 1
            /\ recv_pc[d] # "syn" => Len(accept_ch[d]) <= AcceptCap
        BY DEF QueueBound
      <4>2. CASE d = e
        <5> DEFINE n == Len(accept_ch[e])
                   m == Len(accept_ch'[e])
        <5>1. n \in Nat /\ AcceptCap \in Nat /\ m = n - 1 /\ recv_pc'[e] = recv_pc[e]
          BY <1>0, <3>1, <3>3
        <5>2. n <= AcceptCap + 1 /\ (recv_pc[e] # "syn" => n <= AcceptCap)
          BY <4>1, <4>2
        <5> HIDE DEF n, m
        <5>3. m <= AcceptCap + 1 /\ (recv_pc'[e] # "syn" => m <= AcceptCap)
          BY <5>1, <5>2
        <5> QED
          BY <4>2, <5>3 DEF m
      <4>3. CASE d # e
        BY <3>1, <3>3, <4>1, <4>3
      <4> QED
        BY <4>2, <4>3
    <3> QED
      BY <3>4 DEF QueueBound
  <2> QED
    BY <1>5, <2>1, <2>2 DEF AcceptCall, AcceptStream, AcceptStreamWait,
                            AcceptStreamClosed
<1>6. ASSUME NEW e \in Sides, RecvStart(e) \/ RecvSynResume(e) \/ RecvPshClosed(e)
                              \/ RecvExit(e)
      PROVE  QueueBound'
  <2>1. UNCHANGED accept_ch
    BY <1>6 DEF RecvStart, RecvSynResume, RecvPshClosed, RecvExit, RecvBreak
  <2>2. \A d \in Sides : recv_pc'[d] # "syn" =>
               recv_pc[d] # "syn" \/ Len(accept_ch[d]) <= AcceptCap
    BY <1>0, <1>6 DEF RecvStart, RecvSynResume, RecvPshClosed, RecvExit, RecvBreak,
                      RecvSelect
  <2> QED
    BY <1>1, <2>1, <2>2
<1>7. ASSUME NEW e \in Sides, RecvFrame(e) PROVE QueueBound'
  <2> DEFINE f == Head(wire[Peer(e)])
  <2>0. f \in FrameSet /\ f.id \in StreamId
    BY <1>7, ReadFrameType DEF FrameSet
  <2>1. recv_pc[e] = "select" /\ HandleFrame(e, f) /\ Len(accept_ch[e]) <= AcceptCap
    BY <1>7 DEF RecvFrame, QueueBound
  <2>2. \A d \in Sides : d # e => recv_pc'[d] = recv_pc[d]
    BY <1>0, <2>1 DEF HandleFrame, HandleSyn, HandleSynIgnored, HandleSynNew, HandleFin,
              HandlePsh, PshWait, PshDeliver, HandleOther, RecvSelect, RecvAwait
  <2>3. CASE UNCHANGED accept_ch
    BY <1>1, <2>1, <2>2, <2>3
  <2>4. CASE HandleSynNew(e, f, AcceptCap)
    <3>1. /\ accept_ch' = [accept_ch EXCEPT ![e] = Append(accept_ch[e], f.id)]
          /\ \/ Len(accept_ch[e]) < AcceptCap /\ recv_pc'[e] = "select"
             \/ Len(accept_ch[e]) >= AcceptCap /\ recv_pc'[e] = "syn"
      BY <1>0, <2>4 DEF HandleSynNew, RecvSelect, RecvAwait
    <3>2. Len(Append(accept_ch[e], f.id)) = Len(accept_ch[e]) + 1
      BY <1>0, <2>0, AppendProperties
    <3>3. \A d \in Sides : d # e => accept_ch'[d] = accept_ch[d]
      BY <1>0, <3>1
    <3>4. Len(accept_ch'[e]) = Len(accept_ch[e]) + 1
      BY <1>0, <3>1, <3>2
    <3> QED
      BY <1>0, <2>1, <2>2, <3>1, <3>3, <3>4 DEF QueueBound
  <2> QED
    BY <2>1, <2>3, <2>4 DEF HandleFrame, HandleSyn, HandleSynIgnored, HandleFin,
              HandlePsh, PshWait, PshDeliver, HandleOther
<1> QED
  BY <1>1, <1>2, <1>3, <1>4, <1>5, <1>6, <1>7 DEF Next, RecvLoop

\* The accept channel holds each Stream that waits to be accepted exactly once
\* and no other, and never more than its bound and the one that recv_loop waits
\* to add.
THEOREM AcceptQueue == NoForeign => (Spec => []AcceptQueueExact)
<1> SUFFICES ASSUME NoForeign PROVE Spec => []AcceptQueueExact
  OBVIOUS
<1>1. ASSUME Origin, QueueBound PROVE AcceptQueueExact
  <2>1. ASSUME NEW e \in Sides, NEW id \in StreamId
        PROVE  Cardinality({i \in 1..Len(accept_ch[e]) : accept_ch[e][i] = id})
                 = IF handle[e][id] = "queued" THEN 1 ELSE 0
    <3> DEFINE at == {i \in 1..Len(accept_ch[e]) : accept_ch[e][i] = id}
    <3>0. QueueExact
      BY <1>1 DEF Origin
    <3>1. CASE handle[e][id] = "queued"
      <4>1. PICK k \in 1..Len(accept_ch[e]) : accept_ch[e][k] = id
        BY <3>0, <3>1 DEF QueueExact
      <4>2. at = {k}
        BY <3>0, <4>1 DEF QueueExact
      <4>3. Cardinality({k}) = 1
        BY FS_Singleton
      <4> QED
        BY <3>1, <4>2, <4>3
    <3>2. CASE handle[e][id] # "queued"
      <4>1. at = {}
        BY <3>0, <3>2 DEF QueueExact
      <4> QED
        BY <3>2, <4>1, FS_EmptySet
    <3> QED
      BY <3>1, <3>2
  <2> QED
    BY <1>1, <2>1 DEF AcceptQueueExact, QueueBound
<1>2. Origin /\ QueueBound => AcceptQueueExact
  BY <1>1
<1>3. Init => QueueBound
  <2>1. AcceptCap \in Nat
    BY ConfigAssumption
  <2> SUFFICES ASSUME Init PROVE QueueBound
    OBVIOUS
  <2>2. \A e \in Sides : Len(accept_ch[e]) = 0
    BY EmptySeq DEF Init
  <2> QED
    BY <2>1, <2>2 DEF QueueBound
<1>4. TypeOK /\ QueueBound /\ [Next]_vars => QueueBound'
  BY QueueBoundStep
<1> QED
  BY <1>2, <1>3, <1>4, OriginInvariant, TypeCorrect, PTL DEF Spec

-----------------------------------------------------------------------------
(* Frames that wait for room in the frame channel.  q is the channel with    *)
(* those that wait for it, c the number of frames it holds.                  *)

\* f waits; and nothing waits twice.
Late(q, c, f) == \E i \in 1..Len(q) : i > c /\ q[i] = f
Once(q, c) == \A i, j \in 1..Len(q) : (i > c /\ j > c /\ q[i] = q[j]) => i = j

\* A frame more: it waits if the channel is full.
LEMMA LateGrows ==
  ASSUME NEW S, NEW q \in Seq(S), NEW c \in Nat, NEW f \in S, Once(q, c), ~Late(q, c, f)
  PROVE  /\ Once(Append(q, f), c)
         /\ \A g : Late(Append(q, f), c, g) => Late(q, c, g) \/ (g = f /\ Len(q) >= c)
<1> DEFINE r == Append(q, f)
<1>1. /\ Len(q) \in Nat /\ Len(r) = Len(q) + 1 /\ r[Len(q) + 1] = f
      /\ \A i \in 1..Len(q) : r[i] = q[i]
  BY LenProperties, AppendProperties
<1> HIDE DEF r
<1>2. \A i \in 1..Len(r) : i \in Int /\ (i \in 1..Len(q) \/ i = Len(q) + 1)
  BY <1>1
<1>3. ASSUME NEW i \in 1..Len(r), NEW j \in 1..Len(r), i > c, j > c, r[i] = r[j]
      PROVE  i = j
  <2>1. CASE i \in 1..Len(q) /\ j \in 1..Len(q)
    BY <1>1, <1>3, <2>1 DEF Once
  <2>2. CASE i \in 1..Len(q) /\ j = Len(q) + 1
    BY <1>1, <1>3, <2>2 DEF Late
  <2>3. CASE j \in 1..Len(q) /\ i = Len(q) + 1
    BY <1>1, <1>3, <2>3 DEF Late
  <2> QED
    BY <1>2, <2>1, <2>2, <2>3
<1>4. ASSUME NEW i \in 1..Len(r), i > c
      PROVE  Late(q, c, r[i]) \/ (r[i] = f /\ Len(q) >= c)
  <2>1. CASE i \in 1..Len(q)
    BY <1>1, <1>4, <2>1 DEF Late
  <2>2. CASE i = Len(q) + 1
    BY <1>1, <1>4, <2>2
  <2> QED
    BY <1>2, <2>1, <2>2
<1>5. Once(r, c)
  BY <1>3 DEF Once
<1>6. \A g : Late(r, c, g) => Late(q, c, g) \/ (g = f /\ Len(q) >= c)
  <2> SUFFICES ASSUME NEW g, Late(r, c, g) PROVE Late(q, c, g) \/ (g = f /\ Len(q) >= c)
    OBVIOUS
  <2>1. PICK i \in 1..Len(r) : i > c /\ r[i] = g
    BY DEF Late
  <2> QED
    BY <1>4, <2>1
<1> QED
  BY <1>5, <1>6 DEF r

\* The first frame is sent.
LEMMA LateShrinks ==
  ASSUME NEW S, NEW q \in Seq(S), q # << >>, NEW c \in Nat, Once(q, c)
  PROVE  Once(Tail(q), c) /\ \A g : Late(Tail(q), c, g) => Late(q, c, g)
<1> DEFINE r == Tail(q)
<1>1. /\ Len(q) \in Nat /\ Len(r) = Len(q) - 1
      /\ \A i \in 1..Len(r) : r[i] = q[i + 1]
  BY LenProperties, HeadTailProperties
<1> HIDE DEF r
<1>2. \A i \in 1..Len(r) : i \in Int /\ i + 1 \in 1..Len(q) /\ (i > c => i + 1 > c)
  BY <1>1
<1>3. Once(r, c)
  BY <1>1, <1>2 DEF Once
<1>4. \A g : Late(r, c, g) => Late(q, c, g)
  BY <1>1, <1>2 DEF Late
<1> QED
  BY <1>3, <1>4 DEF r

\* A frame that waits is withdrawn.
LEMMA LateWithdrawn ==
  ASSUME TypeOK, NEW e \in Sides, NEW f \in FrameSet, Waits(e, f),
         Once(frame_ch[e], FrameCap(e))
  PROVE  /\ Once(Withdraw(e, f), FrameCap(e))
         /\ \A g : Late(Withdraw(e, f), FrameCap(e), g) =>
                     Late(frame_ch[e], FrameCap(e), g) /\ g # f
<1> DEFINE s == frame_ch[e]
           c == FrameCap(e)
           m == CHOOSE k \in 1..Len(s) : k > FrameCap(e) /\ s[k] = f
           r == SubSeq(s, 1, m - 1) \o SubSeq(s, m + 1, Len(s))
<1>1. s \in Seq(FrameSet) /\ c \in Nat /\ Len(s) \in Nat
  BY ConfigAssumption, LenProperties DEF TypeOK, ChanOK, FrameCap, ConfigRecord
<1>2. m \in 1..Len(s) /\ m > c /\ s[m] = f
  BY DEF Waits
<1>3. Withdraw(e, f) = r
  BY DEF Withdraw
<1>4. Once(s, c)
  OBVIOUS
<1> HIDE DEF s, m, c
<1>5. Without(s, r, m)
  <2>1. << >> \in Seq(FrameSet) /\ Len(<< >>) = 0
    BY EmptySeq
  <2>2. r \in Seq(FrameSet)
    BY <1>3, WithdrawnType
  <2>3. << >> \o s = s /\ << >> \o r = r
    BY <1>1, <2>2, ConcatEmptySeq
  <2>4. Without(<< >> \o s, << >> \o r, Len(<< >>) + m)
    BY <1>1, <1>2, <2>1, SecondLoses
  <2>5. Len(<< >>) + m = m
    BY <1>1, <1>2, <2>1
  <2> QED
    BY <2>3, <2>4, <2>5
<1> HIDE DEF r
<1> DEFINE at(i) == IF i < m THEN i ELSE i + 1
<1>6. Len(r) = Len(s) - 1
  BY <1>5 DEF Without
<1>7. ASSUME NEW i \in 1..Len(r), i > c
      PROVE  /\ at(i) \in 1..Len(s) /\ at(i) > c /\ at(i) # m /\ r[i] = s[at(i)]
             /\ \A j \in 1..Len(r) : at(i) = at(j) => i = j
  <2>1. CASE i < m
    <3>1. i \in 1..(m - 1)
      BY <1>1, <1>2, <1>6, <2>1
    <3>2. r[i] = s[i]
      BY <1>5, <3>1 DEF Without
    <3> QED
      BY <1>1, <1>2, <1>6, <1>7, <2>1, <3>2
  <2>2. CASE i >= m
    <3>1. i \in m..Len(r)
      BY <1>1, <1>2, <1>6, <2>2
    <3>2. r[i] = s[i + 1]
      BY <1>5, <3>1 DEF Without
    <3> QED
      BY <1>1, <1>2, <1>6, <1>7, <2>2, <3>2
  <2> QED
    BY <1>1, <1>2, <1>6, <2>1, <2>2
<1> HIDE DEF at
<1>8. Once(r, c)
  <2> SUFFICES ASSUME NEW i \in 1..Len(r), NEW j \in 1..Len(r), i > c, j > c, r[i] = r[j]
               PROVE  i = j
    BY DEF Once
  <2>1. at(i) = at(j)
    BY <1>4, <1>7 DEF Once
  <2> QED
    BY <1>7, <2>1
<1>9. \A g : Late(r, c, g) => Late(s, c, g) /\ g # f
  <2> SUFFICES ASSUME NEW i \in 1..Len(r), i > c PROVE Late(s, c, r[i]) /\ r[i] # f
    BY DEF Late
  <2>1. r[i] # f
    BY <1>2, <1>4, <1>7 DEF Once
  <2> QED
    BY <1>7, <2>1 DEF Late
<1> QED
  BY <1>3, <1>8, <1>9 DEF s, c

-----------------------------------------------------------------------------
(* Who waits is suspended. *)

\* f belongs to a call of open_stream() or close(), or a ping, that is suspended.
Suspended(e, f) ==
  \/ \E id \in StreamId : f = Syn(id) /\ handle[e][id] = "syn_wait"
  \/ \E id \in StreamId : f = Fin(id) /\ handle[e][id] = "closing"
  \/ f = Nop /\ keep_pc[e] = "ping"

\* The frames that wait at e; nothing does when the channel is gone.
Fits(e) ==
  /\ send_pc[e] = "done" => frame_ch[e] = << >>
  /\ Once(frame_ch[e], FrameCap(e))
  /\ \A f \in FrameSet : Late(frame_ch[e], FrameCap(e), f) => Suspended(e, f)

\* Nothing happens to the channel of d, and to the calls that are suspended.
Calm(d) ==
  /\ frame_ch'[d] = frame_ch[d] /\ (send_pc'[d] = "done" => send_pc[d] = "done")
  /\ keep_pc[d] = "ping" => keep_pc'[d] = "ping"
  /\ \A id \in StreamId : handle[d][id] \in {"syn_wait", "closing"} =>
                            handle'[d][id] = handle[d][id]

\* Then nothing changes.
LEMMA CalmFits == ASSUME NEW d \in Sides, Fits(d), Calm(d) PROVE Fits(d)'
<1>1. FrameCap(d)' = FrameCap(d)
  BY DEF FrameCap
<1>2. \A f : Suspended(d, f) => Suspended(d, f)'
  BY DEF Suspended, Calm
<1>3. \A f \in FrameSet : Late(frame_ch[d], FrameCap(d), f) => Suspended(d, f)'
  BY <1>2 DEF Fits
<1>4. Once(frame_ch'[d], FrameCap(d)')
  BY <1>1 DEF Fits, Calm
<1>5. \A f : Late(frame_ch'[d], FrameCap(d)', f) => Late(frame_ch[d], FrameCap(d), f)
  BY <1>1 DEF Calm
<1>6. send_pc'[d] = "done" => frame_ch'[d] = << >>
  BY DEF Fits, Calm
<1> QED
  BY <1>3, <1>4, <1>5, <1>6 DEF Fits, Late, Once

\* The channel of e gets f, which waits there only if its call is suspended.
LEMMA AppendFits ==
  ASSUME TypeOK, NEW e \in Sides, Fits(e), NEW f \in FrameSet,
         frame_ch'[e] = Append(frame_ch[e], f), send_pc'[e] # "done",
         ~Late(frame_ch[e], FrameCap(e), f),
         Len(frame_ch[e]) >= FrameCap(e) => Suspended(e, f)',
         \A g \in FrameSet : Late(frame_ch[e], FrameCap(e), g) => Suspended(e, g)'
  PROVE  Fits(e)'
<1>1. FrameCap(e)' = FrameCap(e)
  BY DEF FrameCap
<1>2. frame_ch[e] \in Seq(FrameSet) /\ FrameCap(e) \in Nat
  BY ConfigAssumption DEF TypeOK, ChanOK, FrameCap, ConfigRecord
<1>3. /\ Once(Append(frame_ch[e], f), FrameCap(e))
      /\ \A g : Late(Append(frame_ch[e], f), FrameCap(e), g) =>
           Late(frame_ch[e], FrameCap(e), g) \/ (g = f /\ Len(frame_ch[e]) >= FrameCap(e))
  BY <1>2, LateGrows DEF Fits
<1> DEFINE r == Append(frame_ch[e], f)
<1> HIDE DEF r
<1>4. \A g \in FrameSet : Late(r, FrameCap(e), g) => Suspended(e, g)'
  BY <1>3 DEF r
<1>5. Once(r, FrameCap(e)) /\ frame_ch'[e] = r
  BY <1>3 DEF r
<1> QED
  BY <1>1, <1>4, <1>5 DEF Fits, Late, Once

\* Suspended calls stay suspended if only the one on id ends, for which nothing waits.
LEMMA EndsOne ==
  ASSUME TypeOK, NEW e \in Sides, Fits(e), NEW id \in StreamId, NEW v,
         handle' = [handle EXCEPT ![e][id] = v], keep_pc' = keep_pc,
         handle[e][id] = "syn_wait" => ~Late(frame_ch[e], FrameCap(e), Syn(id)),
         handle[e][id] = "closing" => ~Late(frame_ch[e], FrameCap(e), Fin(id)),
         NEW g \in FrameSet, Late(frame_ch[e], FrameCap(e), g)
  PROVE  Suspended(e, g)'
<1>1. handle \in [Sides -> [StreamId -> Handles]]
  BY DEF TypeOK, StreamOK
<1>2. Suspended(e, g)
  BY DEF Fits
<1>3. ASSUME NEW i \in StreamId, g = Syn(i), handle[e][i] = "syn_wait"
      PROVE  Suspended(e, g)'
  BY <1>1, <1>3 DEF Suspended
<1>4. ASSUME NEW i \in StreamId, g = Fin(i), handle[e][i] = "closing"
      PROVE  Suspended(e, g)'
  BY <1>1, <1>4 DEF Suspended
<1>5. CASE g = Nop /\ keep_pc[e] = "ping"
  BY <1>5 DEF Suspended
<1> QED
  BY <1>2, <1>3, <1>4, <1>5 DEF Suspended

\* The frames of a Stream wait only while a call of it is suspended.
LEMMA NotLate ==
  ASSUME TypeOK, NEW e \in Sides, Fits(e), NEW id \in StreamId
  PROVE  /\ handle[e][id] # "syn_wait" => ~Late(frame_ch[e], FrameCap(e), Syn(id))
         /\ handle[e][id] # "closing" => ~Late(frame_ch[e], FrameCap(e), Fin(id))
         /\ \A c \in Chunk : ~Late(frame_ch[e], FrameCap(e), Psh(id, c))
<1>1. /\ \A i \in StreamId : /\ Syn(i) \in FrameSet /\ Fin(i) \in FrameSet
                             /\ Syn(i).cmd = "SYN" /\ Syn(i).id = i
                             /\ Fin(i).cmd = "FIN" /\ Fin(i).id = i
      /\ Nop \in FrameSet /\ Nop.cmd = "NOP"
  BY FrameType, FrameFields, NopType, EmptyType
<1>2. \A c \in Chunk : Psh(id, c) \in FrameSet /\ Psh(id, c).cmd = "PSH"
  BY FrameType, FrameFields
<1>3. ASSUME Late(frame_ch[e], FrameCap(e), Syn(id)) PROVE handle[e][id] = "syn_wait"
  <2>1. Suspended(e, Syn(id))
    BY <1>1, <1>3 DEF Fits
  <2> QED
    BY <1>1, <2>1 DEF Suspended
<1>4. ASSUME Late(frame_ch[e], FrameCap(e), Fin(id)) PROVE handle[e][id] = "closing"
  <2>1. Suspended(e, Fin(id))
    BY <1>1, <1>4 DEF Fits
  <2> QED
    BY <1>1, <2>1 DEF Suspended
<1>5. ASSUME NEW c \in Chunk, Late(frame_ch[e], FrameCap(e), Psh(id, c)) PROVE FALSE
  <2>1. Suspended(e, Psh(id, c))
    BY <1>2, <1>5 DEF Fits
  <2> QED
    BY <1>1, <1>2, <2>1 DEF Suspended
<1> QED
  BY <1>3, <1>4, <1>5

\* A ping waits only while keep_alive_loop is suspended.
LEMMA NopNotLate ==
  ASSUME TypeOK, NEW e \in Sides, Fits(e), keep_pc[e] # "ping"
  PROVE  ~Late(frame_ch[e], FrameCap(e), Nop)
<1> SUFFICES ASSUME Late(frame_ch[e], FrameCap(e), Nop) PROVE FALSE
  OBVIOUS
<1>1. \A i \in StreamId : Syn(i).cmd = "SYN" /\ Fin(i).cmd = "FIN"
  BY FrameFields
<1>2. Nop \in FrameSet /\ Nop.cmd = "NOP"
  BY FrameFields, NopType
<1>3. Suspended(e, Nop)
  BY <1>2 DEF Fits
<1> QED
  BY <1>1, <1>2, <1>3 DEF Suspended

\* A step that leaves the frame channels, and the calls that are suspended, alone.
LEMMA CalmSteps ==
  ASSUME TypeOK, Origin, NEW d \in Sides, NEW e \in Sides,
         \/ RecvLoop(e) \/ SendStart(e) \/ SendResume(e)
         \/ KeepStart(e) \/ KeepTimeout(e)
         \/ OpenStream(e) \/ AcceptCall(e) \/ Close(e) \/ DropSession(e)
         \/ \E id \in StreamId, n \in ReadSizes :
              PollRead(e, id, n) \/ PollReadEof(e, id, n)
         \/ \E id \in StreamId : PollIdle(e, id)
  PROVE  Calm(d)
<1>0. /\ handle \in [Sides -> [StreamId -> Handles]]
      /\ send_pc \in [Sides -> {"start", "select", "sending", "done"}]
      /\ keep_pc \in [Sides -> {"off", "start", "select", "ping", "done"}]
  BY DEF TypeOK, StreamOK, LoopOK
<1>1. ASSUME UNCHANGED <<frame_ch, send_pc, keep_pc, handle>> PROVE Calm(d)
  BY <1>1 DEF Calm
<1>2. ASSUME RecvFrame(e) PROVE Calm(d)
  <2> DEFINE f == Head(wire[Peer(e)])
  <2>1. UNCHANGED <<frame_ch, send_pc, keep_pc>> /\ HandleFrame(e, f)
    BY <1>2 DEF RecvFrame
  <2>2. f \in FrameSet /\ f.id \in StreamId
    BY <1>2, ReadFrameType DEF FrameSet
  <2>3. Takes(e, f)
    BY <1>2, PipeShrinks
  <2> HIDE DEF f
  <2>4. In(Pipes[Peer(e)], f)
    BY <2>2, <2>3, Ends DEF Takes
  <2>5. CASE UNCHANGED handle
    BY <1>1, <2>1, <2>5
  <2>6. CASE f.cmd = "SYN" /\ handle' = [handle EXCEPT ![e][f.id] = "queued"]
    <3>1. handle[e][f.id] = "none"
      BY <2>2, <2>4, <2>6, Ends DEF Origin, SynIsNews
    <3> QED
      BY <1>0, <2>1, <2>2, <2>6, <3>1 DEF Calm
  <2> QED
    BY <2>1, <2>5, <2>6 DEF HandleFrame, HandleSyn, HandleSynIgnored, HandleSynNew,
       NewStream, HandleFin, HandlePsh, PshWait, PshDeliver, HandleOther
<1>3. ASSUME AcceptStreamTake(e) PROVE Calm(d)
  <2>1. /\ UNCHANGED <<frame_ch, send_pc, keep_pc>> /\ accept_ch[e] # << >>
        /\ handle' = [handle EXCEPT ![e][Head(accept_ch[e])] = "open"]
    BY <1>3 DEF AcceptStreamTake
  <2>2. accept_ch[e] \in Seq(StreamId)
    BY DEF TypeOK, ChanOK
  <2>3. Head(accept_ch[e]) = accept_ch[e][1] /\ Head(accept_ch[e]) \in StreamId
        /\ 1 \in 1..Len(accept_ch[e])
    BY <2>1, <2>2, HeadTailProperties, LenProperties, EmptySeq
  <2>4. handle[e][Head(accept_ch[e])] = "queued"
    BY <2>3 DEF Origin, QueueExact
  <2> QED
    BY <1>0, <2>1, <2>3, <2>4 DEF Calm
<1>4. ASSUME OpenStream(e) PROVE Calm(d)
  <2>1. UNCHANGED <<frame_ch, send_pc, keep_pc>>
    BY <1>4 DEF OpenStream
  <2>2. \/ UNCHANGED handle
        \/ /\ handle[e][next_stream_id[e]] = "none"
           /\ handle' = [handle EXCEPT ![e][next_stream_id[e]] = "opening"]
    BY <1>4 DEF OpenStream, NewStream
  <2> QED
    BY <1>0, <2>1, <2>2 DEF Calm
<1>5. ASSUME SendStart(e) \/ SendResume(e) PROVE Calm(d)
  BY <1>0, <1>5 DEF SendStart, SendResume, Calm
<1>6. ASSUME KeepStart(e) \/ KeepTimeout(e) PROVE Calm(d)
  BY <1>0, <1>6 DEF KeepStart, KeepTimeout, KeepSelect, TimeoutTick, Calm
<1>7. ASSUME \/ RecvStart(e) \/ RecvSynResume(e) \/ RecvPshClosed(e) \/ RecvExit(e)
             \/ AcceptStream(e) \/ AcceptStreamWait(e) \/ AcceptStreamClosed(e)
             \/ Close(e) \/ DropSession(e)
      PROVE  Calm(d)
  BY <1>1, <1>7 DEF RecvStart, RecvSynResume, RecvPshClosed, RecvExit, RecvBreak,
     AcceptStream, AcceptStreamWait, AcceptStreamClosed, Close, DropSession
<1>8. ASSUME NEW id \in StreamId, NEW n \in ReadSizes,
             PollRead(e, id, n) \/ PollReadEof(e, id, n)
      PROVE  Calm(d)
  BY <1>1, <1>8 DEF PollRead, ReadUnchanged, PollReadEof, ReportEof
<1>9. ASSUME NEW id \in StreamId, PollIdle(e, id) PROVE Calm(d)
  BY <1>1, <1>9, PollIdleStep DEF PollUnchanged
<1> QED
  BY <1>2, <1>3, <1>4, <1>5, <1>6, <1>7, <1>8, <1>9 DEF RecvLoop, AcceptCall

\* send_loop takes a frame, or ends.
LEMMA SendFits ==
  ASSUME TypeOK, NEW e \in Sides, NEW d \in Sides, Fits(d), SendFrame(e) \/ SendExit(e)
  PROVE  Fits(d)'
<1>0. /\ frame_ch \in [Sides -> Seq(FrameSet)] /\ FrameCap(d) \in Nat
      /\ send_pc \in [Sides -> {"start", "select", "sending", "done"}]
  BY ConfigAssumption DEF TypeOK, ChanOK, LoopOK, FrameCap, ConfigRecord
<1>1. UNCHANGED <<keep_pc, handle>>
  BY DEF SendFrame, SendExit, SendBreak
<1>2. CASE d # e
  <2>1. frame_ch'[d] = frame_ch[d] /\ send_pc'[d] = send_pc[d]
    BY <1>0, <1>2 DEF SendFrame, SendExit, SendBreak
  <2> QED
    BY <1>1, <2>1, CalmFits DEF Calm
<1>3. FrameCap(d)' = FrameCap(d) /\ \A f : Suspended(d, f) => Suspended(d, f)'
  BY <1>1 DEF FrameCap, Suspended
<1>4. CASE d = e /\ SendFrame(e)
  <2>1. /\ frame_ch[d] # << >> /\ frame_ch'[d] = Tail(frame_ch[d])
        /\ send_pc'[d] # "done"
    BY <1>0, <1>4 DEF SendFrame
  <2>2. /\ Once(Tail(frame_ch[d]), FrameCap(d))
        /\ \A g : Late(Tail(frame_ch[d]), FrameCap(d), g) =>
                    Late(frame_ch[d], FrameCap(d), g)
    BY <1>0, <2>1, LateShrinks DEF Fits
  <2> DEFINE r == Tail(frame_ch[d])
  <2> HIDE DEF r
  <2>3. \A g \in FrameSet : Late(r, FrameCap(d), g) => Suspended(d, g)'
    BY <1>3, <2>2 DEF r, Fits
  <2>4. Once(r, FrameCap(d)) /\ frame_ch'[d] = r
    BY <2>1, <2>2 DEF r
  <2> QED
    BY <1>3, <2>1, <2>3, <2>4 DEF Fits, Late, Once
<1>5. CASE d = e /\ SendExit(e)
  <2>1. frame_ch'[d] = << >> /\ Len(frame_ch'[d]) = 0
    BY <1>0, <1>5, EmptySeq DEF SendExit, SendBreak
  <2>2. \A i \in 1..Len(frame_ch'[d]) : FALSE
    BY <2>1
  <2> QED
    BY <2>1, <2>2 DEF Fits, Late, Once
<1> QED
  BY <1>2, <1>4, <1>5

\* keep_alive_loop sends a ping, goes on, or ends.
LEMMA PingFits ==
  ASSUME TypeOK, NEW e \in Sides, NEW d \in Sides, Fits(d),
         KeepPing(e) \/ KeepPingResume(e) \/ KeepExit(e)
  PROVE  Fits(d)'
<1>0. /\ frame_ch \in [Sides -> Seq(FrameSet)] /\ FrameCap(d) \in Nat
      /\ Len(frame_ch[d]) \in Nat
      /\ keep_pc \in [Sides -> {"off", "start", "select", "ping", "done"}]
  BY ConfigAssumption, LenProperties
     DEF TypeOK, ChanOK, LoopOK, FrameCap, ConfigRecord
<1>1. UNCHANGED <<send_pc, handle>>
  BY DEF KeepPing, PingSent, KeepPingResume, KeepExit
<1>2. CASE d # e
  <2>1. frame_ch'[d] = frame_ch[d] /\ keep_pc'[d] = keep_pc[d]
    BY <1>0, <1>2 DEF KeepPing, PingSent, KeepPingResume, KeepExit, KeepSelect
  <2> QED
    BY <1>1, <2>1, CalmFits DEF Calm
<1>3. CASE d = e /\ KeepPing(e)
  <2>1. /\ frame_ch'[d] = Append(frame_ch[d], Nop) /\ keep_pc[d] = "select"
        /\ send_pc'[d] # "done"
        /\ Len(frame_ch[d]) >= FrameCap(d) => keep_pc'[d] = "ping"
    BY <1>0, <1>1, <1>3 DEF KeepPing, PingSent, KeepSelect, Connected, HasRoom
  <2>2. ~Late(frame_ch[d], FrameCap(d), Nop) /\ Nop \in FrameSet
    BY <2>1, NopNotLate, NopType
  <2>3. \A g \in FrameSet : Late(frame_ch[d], FrameCap(d), g) => Suspended(d, g)'
    BY <1>1, <2>1 DEF Fits, Suspended
  <2>4. Len(frame_ch[d]) >= FrameCap(d) => Suspended(d, Nop)'
    BY <2>1 DEF Suspended
  <2> QED
    BY <2>1, <2>2, <2>3, <2>4, AppendFits
<1>4. CASE d = e /\ (KeepPingResume(e) \/ KeepExit(e))
  <2>1. frame_ch' = frame_ch
    BY <1>4 DEF KeepPingResume, KeepExit
  <2>2. keep_pc[d] = "ping" => ~Late(frame_ch[d], FrameCap(d), Nop)
    <3>1. CASE KeepPingResume(e)
      BY <1>4, <3>1 DEF KeepPingResume, Waits, Late
    <3>2. CASE KeepExit(e) /\ keep_pc[d] = "ping"
      <4>1. frame_ch[d] = << >> /\ Len(frame_ch[d]) = 0
        BY <1>4, <3>2, EmptySeq DEF KeepExit, Connected, Fits
      <4>2. \A i \in 1..Len(frame_ch[d]) : FALSE
        BY <4>1
      <4> QED
        BY <4>2 DEF Late
    <3> QED
      BY <1>4, <3>1, <3>2
  <2>3. \A g \in FrameSet : Late(frame_ch[d], FrameCap(d), g) => Suspended(d, g)'
    BY <1>1, <2>2 DEF Fits, Suspended
  <2>4. FrameCap(d)' = FrameCap(d)
    BY DEF FrameCap
  <2> QED
    BY <1>1, <2>1, <2>3, <2>4 DEF Fits, Late, Once
<1> QED
  BY <1>2, <1>3, <1>4

\* A Stream is dropped whose calls have nothing that waits: its FIN is only sent
\* if there is room.
LEMMA DropFits ==
  ASSUME TypeOK, NEW e \in Sides, Fits(e), NEW id \in StreamId,
         DropStream(e, id, frame_ch[e]), UNCHANGED <<send_pc, keep_pc>>,
         handle[e][id] # "closing",
         handle[e][id] = "syn_wait" => ~Late(frame_ch[e], FrameCap(e), Syn(id))
  PROVE  Fits(e)'
<1>0. /\ frame_ch \in [Sides -> Seq(FrameSet)] /\ FrameCap(e) \in Nat
      /\ Len(frame_ch[e]) \in Nat /\ FrameCap(e)' = FrameCap(e)
      /\ Fin(id) \in FrameSet
  BY ConfigAssumption, LenProperties, FrameType, EmptyType
     DEF TypeOK, ChanOK, FrameCap, ConfigRecord
<1>1. handle' = [handle EXCEPT ![e][id] = "dropped"]
  BY DEF DropStream
<1>2. \A g \in FrameSet : Late(frame_ch[e], FrameCap(e), g) => Suspended(e, g)'
  BY <1>1, EndsOne
<1>3. ~Late(frame_ch[e], FrameCap(e), Fin(id))
  BY NotLate
<1>4. CASE frame_ch'[e] = frame_ch[e]
  BY <1>0, <1>2, <1>4 DEF Fits, Late, Once
<1>5. CASE /\ frame_ch'[e] = Append(frame_ch[e], Fin(id)) /\ Connected(e)
           /\ Len(frame_ch[e]) < FrameCap(e)
  BY <1>0, <1>2, <1>3, <1>5, AppendFits DEF Connected
<1> QED
  BY <1>0, <1>4, <1>5 DEF DropStream

\* open_stream() sends its SYN, goes on, fails or is cancelled.
LEMMA OpenFits ==
  ASSUME TypeOK, NEW e \in Sides, NEW d \in Sides, Fits(d), NEW id \in StreamId,
         OpenStreamSyn(e, id) \/ OpenStreamResume(e, id) \/ OpenStreamCancel(e, id)
  PROVE  Fits(d)'
<1>0. /\ frame_ch \in [Sides -> Seq(FrameSet)] /\ FrameCap(d) \in Nat
      /\ Len(frame_ch[d]) \in Nat /\ FrameCap(d)' = FrameCap(d)
      /\ handle \in [Sides -> [StreamId -> Handles]]
      /\ Syn(id) \in FrameSet /\ Fin(id) \in FrameSet
  BY ConfigAssumption, LenProperties, FrameType, EmptyType
     DEF TypeOK, ChanOK, StreamOK, FrameCap, ConfigRecord
<1>1. UNCHANGED <<send_pc, keep_pc>>
  BY DEF OpenStreamSyn, OpenStreamResume, OpenStreamCancel
<1>2. CASE d # e
  <2>1. frame_ch'[d] = frame_ch[d] /\ handle'[d] = handle[d]
    BY <1>0, <1>2 DEF OpenStreamSyn, OpenStreamResume, OpenStreamCancel, DropStream
  <2> QED
    BY <1>1, <2>1, CalmFits DEF Calm
<1>3. ASSUME d = e, handle[e][id] = "opening", Connected(e),
             frame_ch' = [frame_ch EXCEPT ![e] = Append(@, Syn(id))],
             handle' = [handle EXCEPT ![e][id] =
                          IF HasRoom(e) THEN "open" ELSE "syn_wait"]
      PROVE  Fits(d)'
  <2>1. \A g \in FrameSet : Late(frame_ch[d], FrameCap(d), g) => Suspended(d, g)'
    BY <1>1, <1>3, EndsOne
  <2>2. ~Late(frame_ch[d], FrameCap(d), Syn(id))
    BY <1>3, NotLate
  <2>3. Len(frame_ch[d]) >= FrameCap(d) => handle'[d][id] = "syn_wait"
    BY <1>0, <1>3 DEF HasRoom
  <2>4. Len(frame_ch[d]) >= FrameCap(d) => Suspended(d, Syn(id))'
    BY <2>3 DEF Suspended
  <2>5. frame_ch'[d] = Append(frame_ch[d], Syn(id)) /\ send_pc'[d] # "done"
    BY <1>0, <1>1, <1>3 DEF Connected
  <2> QED
    BY <1>0, <2>1, <2>2, <2>4, <2>5, AppendFits
<1>4. ASSUME d = e, handle[e][id] = "opening", DropStream(e, id, frame_ch[e])
      PROVE  Fits(d)'
  BY <1>1, <1>4, DropFits
<1>5. CASE d = e /\ OpenStreamSyn(e, id)
  BY <1>3, <1>4, <1>5 DEF OpenStreamSyn
<1>6. ASSUME d = e, handle[e][id] = "syn_wait", ~Waits(e, Syn(id)),
             DropStream(e, id, frame_ch[e])
      PROVE  Fits(d)'
  <2>1. ~Late(frame_ch[d], FrameCap(d), Syn(id))
    BY <1>6 DEF Waits, Late
  <2> QED
    BY <1>1, <1>6, <2>1, DropFits
<1>7. ASSUME d = e, handle[e][id] = "syn_wait", ~Waits(e, Syn(id)),
             handle' = [handle EXCEPT ![e][id] = "open"], UNCHANGED frame_ch
      PROVE  Fits(d)'
  <2>1. ~Late(frame_ch[d], FrameCap(d), Syn(id))
    BY <1>7 DEF Waits, Late
  <2>2. \A g \in FrameSet : Late(frame_ch[d], FrameCap(d), g) => Suspended(d, g)'
    BY <1>1, <1>7, <2>1, EndsOne
  <2> QED
    BY <1>0, <1>1, <1>7, <2>2 DEF Fits, Late, Once
<1>8. CASE d = e /\ OpenStreamResume(e, id)
  BY <1>6, <1>7, <1>8 DEF OpenStreamResume
<1>9. ASSUME d = e, handle[e][id] = "syn_wait", Waits(e, Syn(id)),
             DropStream(e, id, Withdraw(e, Syn(id)))
      PROVE  Fits(d)'
  <2> DEFINE r == Withdraw(e, Syn(id))
  <2>1. r \in Seq(FrameSet) /\ Len(r) \in Nat /\ Len(r) >= FrameCap(e)
    BY <1>9, WithdrawnType, WithdrawFull, LenProperties
  <2>2. /\ Once(r, FrameCap(d))
        /\ \A g : Late(r, FrameCap(d), g) =>
                    Late(frame_ch[d], FrameCap(d), g) /\ g # Syn(id)
    BY <1>0, <1>9, LateWithdrawn DEF Fits
  <2> HIDE DEF r
  <2>3. frame_ch'[d] = r /\ handle' = [handle EXCEPT ![e][id] = "dropped"]
    BY <1>0, <1>9, <2>1 DEF DropStream, r
  <2>4. ASSUME NEW g \in FrameSet, Late(r, FrameCap(d), g) PROVE Suspended(d, g)'
    <3>1. Suspended(d, g) /\ g # Syn(id)
      BY <2>2, <2>4 DEF Fits
    <3>2. \A i \in StreamId : handle[d][i] # handle'[d][i] =>
                                i = id /\ handle[d][i] = "syn_wait"
      BY <1>0, <1>9, <2>3
    <3> QED
      BY <1>1, <1>9, <3>1, <3>2 DEF Suspended
  <2>5. send_pc'[d] # "done"
    <3>1. frame_ch[d] # << >>
      BY <1>9, EmptySeq DEF Waits
    <3> QED
      BY <1>1, <3>1 DEF Fits
  <2> QED
    BY <1>0, <2>2, <2>3, <2>4, <2>5 DEF Fits, Late, Once
<1>10. CASE d = e /\ OpenStreamCancel(e, id)
  BY <1>6, <1>9, <1>10 DEF OpenStreamCancel
<1> QED
  BY <1>2, <1>5, <1>8, <1>10

\* The operations of a Stream that send frames.
LEMMA StreamFits ==
  ASSUME TypeOK, NEW e \in Sides, NEW d \in Sides, Fits(d), NEW id \in StreamId,
         \/ \E n \in WriteSizes : PollWrite(e, id, n)
         \/ PollShutdown(e, id) \/ CloseStream(e, id) \/ CloseStreamResume(e, id)
         \/ CloseStreamCancel(e, id) \/ Drop(e, id)
  PROVE  Fits(d)'
<1>0. /\ frame_ch \in [Sides -> Seq(FrameSet)] /\ FrameCap(d) \in Nat
      /\ Len(frame_ch[d]) \in Nat /\ FrameCap(d)' = FrameCap(d)
      /\ handle \in [Sides -> [StreamId -> Handles]]
      /\ Fin(id) \in FrameSet
  BY ConfigAssumption, LenProperties, FrameType, EmptyType
     DEF TypeOK, ChanOK, StreamOK, FrameCap, ConfigRecord
<1>1. UNCHANGED <<send_pc, keep_pc>>
  BY DEF PollWrite, WritePsh, PollShutdown, CloseStream, CloseUnchanged,
     CloseStreamResume, CloseStreamCancel, Drop
<1>2. CASE d # e
  <2>1. frame_ch'[d] = frame_ch[d] /\ handle'[d] = handle[d]
    BY <1>0, <1>2 DEF PollWrite, WritePsh, PollShutdown, CloseStream, QueueFin,
       CloseStreamResume, CloseStreamCancel, Drop, DropStream
  <2> QED
    BY <1>1, <2>1, CalmFits DEF Calm
<1>3. ASSUME d = e, UNCHANGED <<frame_ch, handle>> PROVE Fits(d)'
  BY <1>1, <1>3, CalmFits DEF Calm
<1>4. ASSUME d = e, UNCHANGED handle, Connected(e), HasRoom(e), NEW f \in FrameSet,
             frame_ch' = [frame_ch EXCEPT ![e] = Append(@, f)]
      PROVE  Fits(d)'
  <2>1. ~Late(frame_ch[d], FrameCap(d), f)
    BY <1>0, <1>4 DEF HasRoom, Late
  <2>2. \A g \in FrameSet : Late(frame_ch[d], FrameCap(d), g) => Suspended(d, g)'
    BY <1>1, <1>4 DEF Fits, Suspended
  <2>3. /\ frame_ch'[d] = Append(frame_ch[d], f) /\ send_pc'[d] # "done"
        /\ ~(Len(frame_ch[d]) >= FrameCap(d))
    BY <1>0, <1>1, <1>4 DEF Connected, HasRoom
  <2> QED
    BY <1>4, <2>1, <2>2, <2>3, AppendFits
<1>5. ASSUME NEW n \in WriteSizes, PollWrite(e, id, n), d = e PROVE Fits(d)'
  <2>1. PICK f : /\ frame_ch' = [frame_ch EXCEPT ![e] = Append(@, f)]
                 /\ UNCHANGED handle /\ Connected(e) /\ HasRoom(e)
    BY <1>5 DEF PollWrite, WritePsh
  <2>2. f \in FrameSet
    <3>1. frame_ch'[e] = Append(frame_ch[e], f) /\ frame_ch'[e] \in Seq(FrameSet)
      BY <1>0, <1>5, <2>1, PollWriteType DEF TypeOK, ChanOK
    <3>2. Len(Append(frame_ch[e], f)) \in 1..Len(Append(frame_ch[e], f))
          /\ Append(frame_ch[e], f)[Len(Append(frame_ch[e], f))] = f
      BY <1>0, AppendProperties
    <3> QED
      BY <3>1, <3>2, ElementOfSeq
  <2> QED
    BY <1>4, <1>5, <2>1, <2>2
<1>6. CASE PollShutdown(e, id) /\ d = e
  BY <1>0, <1>3, <1>4, <1>6 DEF PollShutdown, QueueFin
<1>7. CASE CloseStream(e, id) /\ d = e
  <2>1. CASE ~Connected(e)
    BY <1>3, <1>7, <2>1 DEF CloseStream
  <2>2. CASE Connected(e)
    <3>1. /\ handle[e][id] = "open"
          /\ frame_ch' = [frame_ch EXCEPT ![e] = Append(@, Fin(id))]
          /\ handle' = [handle EXCEPT ![e][id] = IF HasRoom(e) THEN "open" ELSE "closing"]
      BY <1>7, <2>2 DEF CloseStream, QueueFin, Usable
    <3>2. \A g \in FrameSet : Late(frame_ch[d], FrameCap(d), g) => Suspended(d, g)'
      BY <1>1, <1>7, <3>1, EndsOne
    <3>3. ~Late(frame_ch[d], FrameCap(d), Fin(id))
      BY <1>7, <3>1, NotLate
    <3>4. Len(frame_ch[d]) >= FrameCap(d) => handle'[d][id] = "closing"
      BY <1>0, <1>7, <3>1 DEF HasRoom
    <3>5. Len(frame_ch[d]) >= FrameCap(d) => Suspended(d, Fin(id))'
      BY <3>4 DEF Suspended
    <3>6. frame_ch'[d] = Append(frame_ch[d], Fin(id)) /\ send_pc'[d] # "done"
      BY <1>0, <1>1, <1>7, <2>2, <3>1 DEF Connected
    <3> QED
      BY <1>0, <3>2, <3>3, <3>5, <3>6, AppendFits
  <2> QED
    BY <2>1, <2>2
<1>8. CASE CloseStreamResume(e, id) /\ d = e
  <2>1. /\ handle[e][id] = "closing" /\ UNCHANGED frame_ch
        /\ handle' = [handle EXCEPT ![e][id] = "open"]
        /\ ~Late(frame_ch[d], FrameCap(d), Fin(id))
    BY <1>8 DEF CloseStreamResume, Waits, Late
  <2>2. \A g \in FrameSet : Late(frame_ch[d], FrameCap(d), g) => Suspended(d, g)'
    BY <1>1, <1>8, <2>1, EndsOne
  <2> QED
    BY <1>0, <1>1, <2>1, <2>2 DEF Fits, Late, Once
<1>9. CASE CloseStreamCancel(e, id) /\ d = e
  <2> DEFINE r == Withdraw(e, Fin(id))
  <2>1. /\ handle[e][id] = "closing" /\ Waits(e, Fin(id))
        /\ frame_ch'[d] = r /\ handle' = [handle EXCEPT ![e][id] = "open"]
    BY <1>0, <1>9 DEF CloseStreamCancel
  <2>2. /\ Once(r, FrameCap(d))
        /\ \A g : Late(r, FrameCap(d), g) =>
                    Late(frame_ch[d], FrameCap(d), g) /\ g # Fin(id)
    BY <1>0, <1>9, <2>1, LateWithdrawn DEF Fits
  <2> HIDE DEF r
  <2>3. ASSUME NEW g \in FrameSet, Late(r, FrameCap(d), g) PROVE Suspended(d, g)'
    <3>1. Suspended(d, g) /\ g # Fin(id)
      BY <2>2, <2>3 DEF Fits
    <3>2. \A i \in StreamId : handle[d][i] # handle'[d][i] =>
                                i = id /\ handle[d][i] = "closing"
      BY <1>0, <1>9, <2>1
    <3> QED
      BY <1>1, <3>1, <3>2 DEF Suspended
  <2>4. send_pc'[d] # "done"
    <3>1. frame_ch[d] # << >>
      BY <1>9, <2>1, EmptySeq DEF Waits
    <3> QED
      BY <1>1, <3>1 DEF Fits
  <2> QED
    BY <1>0, <2>1, <2>2, <2>3, <2>4 DEF Fits, Late, Once
<1>10. CASE Drop(e, id) /\ d = e
  BY <1>1, <1>10, DropFits DEF Drop, Usable
<1> QED
  BY <1>2, <1>5, <1>6, <1>7, <1>8, <1>9, <1>10

\* Every step of two sessions of this crate.
LEMMA FitsStep ==
  ASSUME TypeOK, Origin, [Next]_vars, NEW d \in Sides, Fits(d)
  PROVE  Fits(d)'
<1>1. ASSUME NEW e \in Sides, RecvLoop(e) \/ AcceptCall(e) \/ Close(e) \/ DropSession(e)
      PROVE  Fits(d)'
  BY <1>1, CalmSteps, CalmFits
<1>2. ASSUME NEW e \in Sides, SendLoop(e) PROVE Fits(d)'
  <2>1. CASE SendStart(e) \/ SendResume(e)
    BY <2>1, CalmSteps, CalmFits
  <2>2. CASE SendFrame(e) \/ SendExit(e)
    BY <2>2, SendFits
  <2> QED
    BY <1>2, <2>1, <2>2 DEF SendLoop
<1>3. ASSUME NEW e \in Sides, KeepAliveLoop(e) PROVE Fits(d)'
  <2>1. CASE KeepStart(e) \/ KeepTimeout(e)
    BY <2>1, CalmSteps, CalmFits
  <2>2. CASE KeepPing(e) \/ KeepPingResume(e) \/ KeepExit(e)
    BY <2>2, PingFits
  <2> QED
    BY <1>3, <2>1, <2>2 DEF KeepAliveLoop
<1>4. ASSUME NEW e \in Sides, OpenCall(e) PROVE Fits(d)'
  <2>1. CASE OpenStream(e)
    BY <2>1, CalmSteps, CalmFits
  <2>2. ASSUME NEW id \in StreamId,
               OpenStreamSyn(e, id) \/ OpenStreamResume(e, id) \/ OpenStreamCancel(e, id)
        PROVE  Fits(d)'
    BY <2>2, OpenFits
  <2> QED
    BY <1>4, <2>1, <2>2 DEF OpenCall
<1>5. ASSUME NEW e \in Sides, NEW id \in StreamId, StreamStep(e, id) PROVE Fits(d)'
  <2>1. CASE \/ \E n \in ReadSizes : PollRead(e, id, n) \/ PollReadEof(e, id, n)
             \/ PollIdle(e, id)
    BY <2>1, CalmSteps, CalmFits
  <2>2. CASE \/ \E n \in WriteSizes : PollWrite(e, id, n)
             \/ PollShutdown(e, id) \/ CloseStream(e, id) \/ CloseStreamResume(e, id)
             \/ CloseStreamCancel(e, id) \/ Drop(e, id)
    BY <2>2, StreamFits
  <2> QED
    BY <1>5, <2>1, <2>2, StreamStepCases
<1>6. ASSUME UNCHANGED <<frame_ch, send_pc, keep_pc, handle>> PROVE Fits(d)'
  BY <1>6, CalmFits DEF Calm
<1>7. ASSUME NEW e \in Sides, NEW f, ForeignSend(e, f) PROVE Fits(d)'
  BY <1>6, <1>7 DEF ForeignSend
<1>8. CASE LinkFail \/ UNCHANGED vars
  BY <1>6, <1>8 DEF LinkFail
<1> QED
  BY <1>1, <1>2, <1>3, <1>4, <1>5, <1>7, <1>8 DEF Next

\* Every frame that waits for room belongs to a call of open_stream() or close(),
\* or a ping, that is suspended, and each of these waits with one frame: nothing
\* is sent for a call that was cancelled, or twice.
THEOREM NobodyWaitsInVain == NoForeign => (Spec => []WaitersAreSuspended)
<1> SUFFICES ASSUME NoForeign PROVE Spec => []WaitersAreSuspended
  OBVIOUS
<1> DEFINE I == \A d \in Sides : Fits(d)
<1>1. Init => I
  <2> SUFFICES ASSUME Init, NEW d \in Sides PROVE Fits(d)
    OBVIOUS
  <2>1. frame_ch[d] = << >> /\ Len(frame_ch[d]) = 0
    BY EmptySeq DEF Init
  <2>2. \A i \in 1..Len(frame_ch[d]) : FALSE
    BY <2>1
  <2> QED
    BY <2>1, <2>2 DEF Fits, Late, Once
<1>2. TypeOK /\ Origin /\ I /\ [Next]_vars => I'
  BY FitsStep
<1>3. ASSUME TypeOK, I PROVE WaitersAreSuspended
  <2> SUFFICES ASSUME NEW e \in Sides
               PROVE  /\ \A i \in 1..Len(frame_ch[e]) : i > FrameCap(e) =>
                           LET f == frame_ch[e][i]
                           IN  \/ f.cmd = "SYN" /\ handle[e][f.id] = "syn_wait"
                               \/ f.cmd = "FIN" /\ handle[e][f.id] = "closing"
                               \/ f.cmd = "NOP" /\ keep_pc[e] = "ping"
                      /\ Once(frame_ch[e], FrameCap(e))
    BY DEF WaitersAreSuspended, Once
  <2>1. Fits(e)
    BY <1>3
  <2>2. ASSUME NEW i \in 1..Len(frame_ch[e]), i > FrameCap(e)
        PROVE  LET f == frame_ch[e][i]
               IN  \/ f.cmd = "SYN" /\ handle[e][f.id] = "syn_wait"
                   \/ f.cmd = "FIN" /\ handle[e][f.id] = "closing"
                   \/ f.cmd = "NOP" /\ keep_pc[e] = "ping"
    <3> DEFINE f == frame_ch[e][i]
    <3>1. f \in FrameSet /\ Late(frame_ch[e], FrameCap(e), f)
      BY <1>3, <2>2, ElementOfSeq DEF Late, TypeOK, ChanOK
    <3> HIDE DEF f
    <3>2. Suspended(e, f)
      BY <2>1, <3>1 DEF Fits
    <3>3. /\ Nop.cmd = "NOP"
          /\ \A id \in StreamId : /\ Syn(id).cmd = "SYN" /\ Syn(id).id = id
                                   /\ Fin(id).cmd = "FIN" /\ Fin(id).id = id
      BY FrameFields
    <3>4. \/ f.cmd = "SYN" /\ handle[e][f.id] = "syn_wait"
          \/ f.cmd = "FIN" /\ handle[e][f.id] = "closing"
          \/ f.cmd = "NOP" /\ keep_pc[e] = "ping"
      BY <3>2, <3>3 DEF Suspended
    <3> QED
      BY <3>4 DEF f
  <2> QED
    BY <2>1, <2>2 DEF Fits
<1>4. TypeOK /\ I => WaitersAreSuspended
  BY <1>3
<1> QED
  BY <1>1, <1>2, <1>4, OriginInvariant, TypeCorrect, PTL DEF Spec
==============================================================================
