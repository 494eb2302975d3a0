------------------------- MODULE IdAllocationProofs --------------------------
(***************************************************************************)
(* Proofs about IdAllocation, for a counter of any width: until the first  *)
(* overflow error the ids are fresh and acceptable to the peer, and the    *)
(* ids of the two ends never meet.                                         *)
(***************************************************************************)
EXTENDS IdAllocation, TLAPS

\* fetch_add(2) on the counter, without the remainder: it stays in range, is
\* exact unless next_stream_id() reports an overflow, and keeps the parity.
LEMMA FetchAdd2Value ==
  ASSUME NEW id \in StreamId
  PROVE  /\ FetchAdd2(id) \in StreamId
         /\ ~Overflows(id) => FetchAdd2(id) = id + 2
         /\ FetchAdd2(id) % 2 = id % 2
<1>1. U32Max \in Nat /\ U32Max >= 3 /\ U32Max % 2 = 1 /\ id \in 0..U32Max
  BY U32MaxAssumption DEF StreamId
<1>2. CASE id + 2 <= U32Max
  <2>1. FetchAdd2(id) = id + 2
    BY <1>1, <1>2 DEF FetchAdd2
  <2>2. (id + 2) % 2 = id % 2
    BY <1>1
  <2> QED
    BY <1>1, <1>2, <2>1, <2>2 DEF StreamId
<1>3. CASE id + 2 > U32Max
  <2>1. FetchAdd2(id) = id + 1 - U32Max
    BY <1>1, <1>3 DEF FetchAdd2
  <2>2. (id + 1 - U32Max) % 2 = id % 2
    BY <1>1
  <2> QED
    BY <1>1, <1>3, <2>1, <2>2 DEF StreamId, Overflows
<1> QED
  BY <1>1, <1>2, <1>3

-----------------------------------------------------------------------------
\* The inductive invariant.  Parity holds for ever; up to the first overflow
\* the ids of an end are the arithmetic progression from its initial id.
Parity(e) ==
  /\ next_stream_id[e] % 2 = InitialId(e) % 2
  /\ \A i \in 1..Len(issued[e]) : issued[e][i] % 2 = InitialId(e) % 2

Progression(e) ==
  ~overflowed[e] =>
    /\ next_stream_id[e] = InitialId(e) + 2 * Len(issued[e])
    /\ \A i \in 1..Len(issued[e]) : issued[e][i] = InitialId(e) + 2 * (i - 1)

IndInv == TypeOK /\ \A e \in Sides : Parity(e) /\ Progression(e)

\* The counters Session::new() makes start at 1 or 2, whatever their width.
LEMMA InitialIdType ==
  ASSUME NEW e \in Sides
  PROVE  InitialId(e) \in StreamId /\ InitialId(e) \in {1, 2}
BY U32MaxAssumption DEF InitialId, StreamId, Sides

\* The invariant holds when both sessions have been created.
LEMMA InitIndInv == Init => IndInv
<1> SUFFICES ASSUME Init PROVE IndInv
  OBVIOUS
<1>1. TypeOK
  BY InitialIdType, MaxCallsAssumption DEF Init, TypeOK
<1>2. ASSUME NEW e \in Sides PROVE Parity(e) /\ Progression(e)
  <2>1. /\ next_stream_id[e] = InitialId(e) /\ InitialId(e) \in {1, 2}
        /\ issued[e] = << >> /\ Len(issued[e]) = 0
    BY InitialIdType DEF Init
  <2> QED
    BY <2>1 DEF Parity, Progression
<1> QED
  BY <1>1, <1>2 DEF IndInv

\* A call of next_stream_id() that returns Ok appends to the end's ids.
LEMMA AppendId ==
  ASSUME NEW s \in Seq(StreamId), NEW id \in StreamId
  PROVE  /\ Append(s, id) \in Seq(StreamId)
         /\ Len(Append(s, id)) = Len(s) + 1
         /\ Append(s, id)[Len(s) + 1] = id
         /\ \A i \in 1..Len(s) : Append(s, id)[i] = s[i]
         /\ Len(s) \in Nat
OBVIOUS

\* Every call preserves the invariant.
LEMMA NextIndInv == IndInv /\ [Next]_vars => IndInv'
<1> SUFFICES ASSUME IndInv, [Next]_vars PROVE IndInv'
  OBVIOUS
<1>1. CASE UNCHANGED vars
  BY <1>1 DEF vars, IndInv, TypeOK, Parity, Progression
<1>2. ASSUME NEW e \in Sides, NextStreamId(e) PROVE IndInv'
  <2> DEFINE cur == next_stream_id[e]
  <2>1. cur \in StreamId /\ issued[e] \in Seq(StreamId)
    BY DEF IndInv, TypeOK
  <2>2. /\ FetchAdd2(cur) \in StreamId
        /\ ~Overflows(cur) => FetchAdd2(cur) = cur + 2
        /\ FetchAdd2(cur) % 2 = cur % 2
    BY <2>1, FetchAdd2Value
  <2>3. /\ Append(issued[e], cur) \in Seq(StreamId)
        /\ Len(Append(issued[e], cur)) = Len(issued[e]) + 1
        /\ Append(issued[e], cur)[Len(issued[e]) + 1] = cur
        /\ \A i \in 1..Len(issued[e]) : Append(issued[e], cur)[i] = issued[e][i]
        /\ Len(issued[e]) \in Nat
    BY <2>1, AppendId
  <2>4. InitialId(e) \in {1, 2}
    BY InitialIdType
  <2>5. TypeOK'
    <3>1. next_stream_id' \in [Sides -> StreamId]
      BY <1>2, <2>2 DEF NextStreamId, IndInv, TypeOK
    <3>2. issued' \in [Sides -> Seq(StreamId)]
      BY <1>2, <2>3 DEF NextStreamId, IndInv, TypeOK
    <3>3. calls' \in [Sides -> 0..MaxCalls]
      BY <1>2, MaxCallsAssumption DEF NextStreamId, IndInv, TypeOK
    <3>4. overflowed' \in [Sides -> BOOLEAN]
      BY <1>2 DEF NextStreamId, IndInv, TypeOK
    <3> QED
      BY <3>1, <3>2, <3>3, <3>4 DEF TypeOK
  <2>6. ASSUME NEW d \in Sides, d # e PROVE Parity(d)' /\ Progression(d)'
    <3>1. /\ next_stream_id'[d] = next_stream_id[d] /\ issued'[d] = issued[d]
          /\ overflowed'[d] = overflowed[d]
      BY <1>2, <2>6 DEF NextStreamId, IndInv, TypeOK
    <3> QED
      BY <3>1 DEF IndInv, Parity, Progression
  <2>7. Parity(e)' /\ Progression(e)'
    <3>1. next_stream_id'[e] = FetchAdd2(cur)
      BY <1>2 DEF NextStreamId, IndInv, TypeOK
    <3>2. CASE Overflows(cur)
      <4>1. issued'[e] = issued[e] /\ overflowed'[e] = TRUE
        BY <1>2, <3>2 DEF NextStreamId, IndInv, TypeOK
      <4> QED
        BY <2>2, <3>1, <4>1 DEF IndInv, Parity, Progression
    <3>3. CASE ~Overflows(cur)
      <4>1. /\ issued'[e] = Append(issued[e], cur)
            /\ overflowed'[e] = overflowed[e]
        BY <1>2, <3>3 DEF NextStreamId, IndInv, TypeOK
      <4>2. Parity(e)'
        BY <2>2, <2>3, <3>1, <4>1 DEF IndInv, Parity
      <4>3. Progression(e)'
        <5> SUFFICES ASSUME ~overflowed[e]
                     PROVE  /\ next_stream_id'[e]
                                 = InitialId(e) + 2 * Len(issued'[e])
                            /\ \A i \in 1..Len(issued'[e]) :
                                 issued'[e][i] = InitialId(e) + 2 * (i - 1)
          BY <4>1 DEF Progression
        <5>1. /\ cur = InitialId(e) + 2 * Len(issued[e])
              /\ \A i \in 1..Len(issued[e]) :
                   issued[e][i] = InitialId(e) + 2 * (i - 1)
          BY DEF IndInv, Progression
        <5>2. next_stream_id'[e] = InitialId(e) + 2 * (Len(issued[e]) + 1)
          BY <2>2, <2>3, <2>4, <3>1, <3>3, <5>1
        <5>3. ASSUME NEW i \in 1..(Len(issued[e]) + 1)
              PROVE  issued'[e][i] = InitialId(e) + 2 * (i - 1)
          <6>1. CASE i \in 1..Len(issued[e])
            BY <2>3, <4>1, <5>1, <6>1
          <6>2. CASE i = Len(issued[e]) + 1
            BY <2>3, <2>4, <4>1, <5>1, <6>2
          <6> QED
            BY <2>3, <6>1, <6>2
        <5> QED
          BY <2>3, <4>1, <5>2, <5>3
      <4> QED
        BY <4>2, <4>3
    <3> QED
      BY <3>2, <3>3
  <2> QED
    BY <2>5, <2>6, <2>7 DEF IndInv
<1> QED
  BY <1>1, <1>2 DEF Next

\* The inductive invariant holds in every reachable state.
THEOREM Invariance == Spec => []IndInv
BY InitIndInv, NextIndInv, PTL DEF Spec

\* The counters and histories keep their types: the counter never leaves u32.
THEOREM TypeCorrect == Spec => []TypeOK
<1>1. IndInv => TypeOK
  BY DEF IndInv
<1> QED
  BY Invariance, <1>1, PTL

\* Before the first overflow error next_stream_id() never returns an id twice,
\* nor one that the peer's validate_peer_stream_id() would refuse.
THEOREM Freshness == Spec => []FreshUntilOverflow
<1>1. IndInv => FreshUntilOverflow
  <2> SUFFICES ASSUME IndInv, NEW e \in Sides, ~overflowed[e]
               PROVE  /\ Distinct(issued[e])
                      /\ \A i \in 1..Len(issued[e]) :
                           ValidPeerId(Peer(e), issued[e][i])
    BY DEF FreshUntilOverflow
  <2>1. /\ InitialId(e) \in {1, 2} /\ Len(issued[e]) \in Nat
        /\ \A i \in 1..Len(issued[e]) : issued[e][i] = InitialId(e) + 2 * (i - 1)
        /\ \A i \in 1..Len(issued[e]) : issued[e][i] % 2 = InitialId(e) % 2
    BY InitialIdType DEF IndInv, TypeOK, Parity, Progression
  <2>2. Distinct(issued[e])
    BY <2>1 DEF Distinct
  <2>3. ASSUME NEW i \in 1..Len(issued[e])
        PROVE  ValidPeerId(Peer(e), issued[e][i])
    <3>1. issued[e][i] # 0
      BY <2>1
    <3>2. issued[e][i] % 2 = IF Peer(e) = "client" THEN 0 ELSE 1
      <4>1. issued[e][i] % 2 = InitialId(e) % 2
        BY <2>1
      <4>2. InitialId(e) % 2 = IF Peer(e) = "client" THEN 0 ELSE 1
        <5>1. 1 % 2 = 1 /\ 2 % 2 = 0
          OBVIOUS
        <5> QED
          BY <5>1 DEF InitialId, Peer, Sides
      <4> QED
        BY <4>1, <4>2
    <3> QED
      BY <3>1, <3>2 DEF ValidPeerId
  <2> QED
    BY <2>2, <2>3
<1> QED
  BY Invariance, <1>1, PTL

\* The two ends never hand out the same id, even after their counters wrapped.
THEOREM Disjointness == Spec => []EndsDisjoint
<1>1. IndInv => EndsDisjoint
  BY DEF IndInv, Parity, EndsDisjoint, InitialId, Sides
<1> QED
  BY Invariance, <1>1, PTL
==============================================================================
