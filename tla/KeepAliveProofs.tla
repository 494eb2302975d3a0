-------------------------- MODULE KeepAliveProofs ----------------------------
(***************************************************************************)
(* Proofs about keep_alive_loop on its clock, for any intervals, timeouts, *)
(* delays and phases.                                                      *)
(***************************************************************************)
EXTENDS KeepAlive, SequenceTheorems, TLAPS

USE DEF timers, history, vars

-----------------------------------------------------------------------------
(* Types *)

Item == [kind : {"frame", "end"}, left : 0..MaxDelay]

TypeOK ==
  /\ config \in [Sides -> Configs]
  /\ keep_pc \in [Sides -> {"start", "off", "select", "ping"}]
  /\ ping_in \in [Sides -> Int] /\ timeout_in \in [Sides -> Int]
  /\ data_received \in [Sides -> BOOLEAN] /\ closed \in [Sides -> BOOLEAN]
  /\ flight \in [Sides -> Seq(Item)]
  /\ stalled \in SUBSET Sides /\ alive \in [Sides -> BOOLEAN]
  /\ silence \in [Sides -> Nat]
  /\ late \in SUBSET Sides /\ timed_out \in SUBSET Sides /\ stalls \in SUBSET Sides

-----------------------------------------------------------------------------
(* The timeout as a measure of the silence *)

\* What is known of one end: how far its timer has come, and how long it has
\* heard nothing.  With the flag set the last frame came after the last tick of
\* timeout_interval; without it, after the tick before that.
Heard(e) ==
  /\ timeout_in[e] <= Timeout(e) /\ silence[e] <= 2 * Timeout(e) + 1
  /\ keep_pc[e] = "start" => /\ silence[e] = 0 /\ timeout_in[e] = 0
                             /\ data_received[e]
  /\ config[e].enable_keep_alive => keep_pc[e] # "off"
  /\ Live(e) /\ config[e].enable_keep_alive /\ config[e].max_receive_buffer > 0 =>
       /\ data_received[e] => silence[e] <= Timeout(e) - timeout_in[e]
       /\ ~data_received[e] => silence[e] <= 2 * Timeout(e) - timeout_in[e]

\* Conversely, without the flag nothing has come since the last tick, if that
\* one was not late.
Unheard(e) ==
  (~data_received[e] /\ e \notin late /\ timeout_in[e] >= 0) =>
    silence[e] >= Timeout(e) - timeout_in[e]

-----------------------------------------------------------------------------
(* The pings of the peer *)

\* The last thing on its way is the connection's end.
Ends(q) == q # << >> /\ q[Len(q)].kind = "end"

\* While no way has been stalled, no tick is late, and an end that is closed has
\* told its peer or heard of it.
OnTime(e) ==
  /\ stalls = {} =>
       /\ stalled = {} /\ keep_pc[e] # "ping"
       /\ timeout_in[e] >= 0 /\ ping_in[e] >= 0
       /\ closed[e] => Ends(flight[e]) \/ closed[Peer(e)]
  /\ \A i \in 1..Len(flight[e]) : flight[e][i].kind = "end" => closed[e]
  /\ keep_pc[e] = "start" => ping_in[e] <= MaxSkew
  /\ keep_pc[e] # "start" => ping_in[e] <= Interval(e)

\* The time within which something arrives from d: the first thing on its way, or
\* the next ping.
Arrives(d) ==
  IF flight[d] # << >> THEN Head(flight[d]).left ELSE ping_in[d] + MaxDelay

\* Something arrives before the timer of e expires.
Awaited(e) ==
  (/\ Live(e) /\ Compatible(e) /\ alive[Peer(e)] /\ stalls = {} /\ ~data_received[e])
  => Arrives(Peer(e)) < timeout_in[e]

Inv ==
  /\ TypeOK
  /\ \A e \in Sides : Heard(e) /\ Unheard(e) /\ OnTime(e) /\ Awaited(e)
  /\ IdleStaysUp

-----------------------------------------------------------------------------
(* Types are kept *)

\* The intervals of a configuration.
LEMMA ConfigTimes ==
  ASSUME TypeOK, NEW e \in Sides
  PROVE  /\ Timeout(e) \in Nat /\ Interval(e) \in Nat
         /\ MaxLag(e) = 2 * Timeout(e)
         /\ Peer(e) \in Sides /\ Peer(Peer(e)) = e /\ Peer(e) # e
<1>1. config[e] \in Configs /\ config[e] \in ConfigRecord
  BY ConfigsAssumption DEF TypeOK
<1>2. config[e].keep_alive_timeout \in Nat /\ config[e].keep_alive_interval \in Nat
  BY <1>1 DEF ConfigRecord
<1> QED
  BY <1>1, <1>2, ConfigsAssumption DEF Timeout, Interval, MaxLag, Peer, Sides

\* The timeout of a loop that runs.
LEMMA EnabledTimeout ==
  ASSUME TypeOK, NEW e \in Sides, config[e].enable_keep_alive
  PROVE  Timeout(e) > 0
<1>1. config[e] \in Configs
  BY DEF TypeOK
<1> QED
  BY <1>1, ConfigsAssumption DEF Timeout

\* What is put on its way.
LEMMA PutType ==
  ASSUME TypeOK, NEW e \in Sides, NEW kind \in {"frame", "end"}, Put(e, kind)
  PROVE  /\ flight' \in [Sides -> Seq(Item)]
         /\ flight'[e] = Append(flight[e], [kind |-> kind, left |-> MaxDelay])
         /\ \A d \in Sides : d # e => flight'[d] = flight[d]
<1>1. [kind |-> kind, left |-> MaxDelay] \in Item
  BY TimesAssumption DEF Item
<1> QED
  BY <1>1 DEF Put, TypeOK

\* What is on its way comes nearer.
LEMMA TickFlight ==
  ASSUME TypeOK, Tick, NEW d \in Sides
  PROVE  /\ flight'[d] \in Seq(Item) /\ Len(flight'[d]) = Len(flight[d])
         /\ \A i \in 1..Len(flight[d]) :
              /\ flight'[d][i].kind = flight[d][i].kind
              /\ flight'[d][i].left = Down(flight[d][i].left, 0)
<1> DEFINE q == flight[d]
           r == [i \in DOMAIN q |-> [q[i] EXCEPT !.left = Down(@, 0)]]
<1>1. flight'[d] = r
  BY DEF Tick
<1>2. q \in Seq(Item) /\ Len(q) \in Nat /\ DOMAIN q = 1..Len(q)
  BY LenProperties DEF TypeOK
<1> HIDE DEF q
<1>3. \A i \in 1..Len(q) : q[i] \in Item
  BY <1>2, ElementOfSeq
<1>4. ASSUME NEW i \in 1..Len(q)
      PROVE  /\ r[i] \in Item
             /\ r[i].kind = q[i].kind /\ r[i].left = Down(q[i].left, 0)
  <2>1. q[i].left \in Nat /\ q[i].left <= MaxDelay /\ MaxDelay \in Nat
    BY <1>3, TimesAssumption DEF Item
  <2>2. Down(q[i].left, 0) \in 0..MaxDelay
    BY <2>1 DEF Down
  <2> QED
    BY <1>2, <1>3, <2>2 DEF Item
<1>5. r \in [1..Len(q) -> Item]
  BY <1>2, <1>4
<1> HIDE DEF r
<1>6. r \in Seq(Item) /\ Len(r) = Len(q)
  BY <1>2, <1>5
<1> QED
  BY <1>1, <1>4, <1>6 DEF q

\* Every step keeps the types.
LEMMA NextType ==
  ASSUME TypeOK, [Next]_vars
  PROVE  TypeOK'
<1>1. CASE UNCHANGED vars
  BY <1>1 DEF TypeOK
<1>2. ASSUME NEW e \in Sides, KeepStart(e) PROVE TypeOK'
  BY <1>2 DEF KeepStart, TypeOK
<1>3. ASSUME NEW e \in Sides, KeepPing(e) PROVE TypeOK'
  <2>1. Interval(e) \in Nat
    BY ConfigTimes
  <2>2. ping_in' \in [Sides -> Int]
    BY <1>3, <2>1 DEF KeepPing, TypeOK
  <2>3. flight' \in [Sides -> Seq(Item)]
    BY <1>3, PutType DEF KeepPing, TypeOK
  <2> QED
    BY <1>3, <2>2, <2>3 DEF KeepPing, TypeOK
<1>4. ASSUME NEW e \in Sides, KeepPingResume(e) PROVE TypeOK'
  BY <1>4, PutType DEF KeepPingResume, TypeOK
<1>5. ASSUME NEW e \in Sides, KeepTimeout(e) PROVE TypeOK'
  <2>1. Timeout(e) \in Nat
    BY ConfigTimes
  <2>2. timeout_in' \in [Sides -> Int]
    BY <1>5, <2>1 DEF KeepTimeout, TimeoutTick, TypeOK
  <2>3. /\ flight' \in [Sides -> Seq(Item)] /\ closed' \in [Sides -> BOOLEAN]
        /\ timed_out' \in SUBSET Sides
    BY <1>5, PutType DEF KeepTimeout, TimeoutTick, TimeoutCloses, TypeOK
  <2> QED
    BY <1>5, <2>2, <2>3 DEF KeepTimeout, TimeoutTick, TypeOK
<1>6. ASSUME NEW e \in Sides, Deliver(e) PROVE TypeOK'
  <2>1. Peer(e) \in Sides /\ flight[Peer(e)] # << >>
    BY <1>6, ConfigTimes DEF Deliver
  <2>2. Tail(flight[Peer(e)]) \in Seq(Item)
    BY <2>1, HeadTailProperties DEF TypeOK
  <2> QED
    BY <1>6, <2>1, <2>2 DEF Deliver, TypeOK
<1>7. ASSUME NEW e \in Sides, DeliverEnd(e) PROVE TypeOK'
  BY <1>7 DEF DeliverEnd, TypeOK
<1>8. ASSUME NEW e \in Sides, Stall(e) PROVE TypeOK'
  BY <1>8, PutType DEF Stall, TypeOK
<1>9. ASSUME NEW e \in Sides, Unstall(e) \/ Die(e) PROVE TypeOK'
  BY <1>9 DEF Unstall, Die, TypeOK
<1>10. CASE Tick
  <2>1. \A d \in Sides : Down(ping_in[d], -MaxLag(d)) \in Int
                        /\ Down(timeout_in[d], -MaxLag(d)) \in Int
    BY ConfigTimes DEF Down, TypeOK
  <2>2. ping_in' \in [Sides -> Int] /\ timeout_in' \in [Sides -> Int]
    BY <1>10, <2>1 DEF Tick, TypeOK
  <2>3. silence' \in [Sides -> Nat]
    BY <1>10 DEF Tick, TypeOK
  <2>4. flight' \in [Sides -> Seq(Item)]
    <3>1. \A d \in Sides : flight'[d] \in Seq(Item)
      BY <1>10, TickFlight
    <3>2. flight' = [d \in Sides |-> flight'[d]]
      BY <1>10 DEF Tick
    <3> QED
      BY <3>1, <3>2
  <2> QED
    BY <1>10, <2>2, <2>3, <2>4 DEF Tick, TypeOK
<1> QED
  BY <1>1, <1>2, <1>3, <1>4, <1>5, <1>6, <1>7, <1>8, <1>9, <1>10
     DEF Next, KeepAliveLoop

-----------------------------------------------------------------------------
(* What a step does to one end. *)

\* Its timer and its ears stay as they are; its loop may start or turn to its ping.
Rests(d) ==
  /\ timeout_in'[d] = timeout_in[d] /\ silence'[d] = silence[d]
  /\ data_received'[d] = data_received[d] /\ (d \in late') = (d \in late)
  /\ \/ keep_pc'[d] = keep_pc[d] /\ (closed[d] => closed'[d]) /\ (alive'[d] => alive[d])
     \/ /\ keep_pc[d] = "start"
        /\ keep_pc'[d] = IF config[d].enable_keep_alive THEN "select" ELSE "off"
     \/ /\ keep_pc[d] \in {"select", "ping"} /\ keep_pc'[d] \in {"select", "ping"}
        /\ Live(d)

\* It hears something.
Hears(d) ==
  /\ timeout_in'[d] = timeout_in[d] /\ silence'[d] = 0 /\ data_received'[d]
  /\ keep_pc'[d] = keep_pc[d] /\ Live(d)

\* timeout_interval ticks, and perhaps closes it.
Looks(d) ==
  /\ Live(d) /\ keep_pc[d] = "select" /\ timeout_in[d] <= 0
  /\ timeout_in'[d] = timeout_in[d] + Timeout(d) /\ silence'[d] = silence[d]
  /\ ~data_received'[d] /\ keep_pc'[d] = keep_pc[d]
  /\ (d \in late') <=> (timeout_in[d] < 0)
  /\ (~data_received[d] /\ config[d].max_receive_buffer > 0) => closed'[d]

\* Time passes.
Waits(d) ==
  /\ ~(Live(d) /\ keep_pc[d] = "select" /\ timeout_in[d] <= 0)
  /\ timeout_in'[d] = IF Live(d) /\ keep_pc[d] # "off"
                        THEN Down(timeout_in[d], -MaxLag(d)) ELSE timeout_in[d]
  /\ silence'[d] = IF Live(d) /\ silence[d] <= 2 * Timeout(d)
                     THEN silence[d] + 1 ELSE silence[d]
  /\ UNCHANGED <<keep_pc, data_received, late, closed, alive>>

\* Every step is one of these for each end.
LEMMA EndSteps ==
  ASSUME TypeOK, [Next]_vars, NEW d \in Sides
  PROVE  config' = config /\ (Rests(d) \/ Hears(d) \/ Looks(d) \/ Waits(d))
<1>1. CASE UNCHANGED vars
  BY <1>1 DEF Rests
<1>2. ASSUME NEW e \in Sides, KeepStart(e) PROVE config' = config /\ Rests(d)
  BY <1>2 DEF KeepStart, Rests, TypeOK
<1>3. ASSUME NEW e \in Sides, KeepPing(e) \/ KeepPingResume(e)
      PROVE  config' = config /\ Rests(d)
  BY <1>3 DEF KeepPing, KeepPingResume, Rests, TypeOK
<1>4. ASSUME NEW e \in Sides, KeepTimeout(e)
      PROVE  config' = config /\ (Rests(d) \/ Looks(d))
  <2>0. /\ timeout_in \in [Sides -> Int] /\ Timeout(e) \in Nat
        /\ closed \in [Sides -> BOOLEAN] /\ data_received \in [Sides -> BOOLEAN]
    BY ConfigTimes DEF TypeOK
  <2>1. CASE d = e
    <3>1. /\ Live(d) /\ keep_pc[d] = "select" /\ timeout_in[d] <= 0
          /\ UNCHANGED <<config, silence, keep_pc>>
          /\ timeout_in'[d] = timeout_in[d] + Timeout(d)
          /\ ~data_received'[d]
          /\ (d \in late') <=> (timeout_in[d] < 0)
      BY <1>4, <2>0, <2>1 DEF KeepTimeout, TimeoutTick
    <3>2. (~data_received[d] /\ config[d].max_receive_buffer > 0) => closed'[d]
      BY <1>4, <2>0, <2>1 DEF KeepTimeout, TimeoutTick, TimedOut, TimeoutCloses
    <3> QED
      BY <3>1, <3>2 DEF Looks
  <2>2. CASE d # e
    BY <1>4, <2>0, <2>2 DEF KeepTimeout, TimeoutTick, TimeoutCloses, Rests
  <2> QED
    BY <2>1, <2>2
<1>5. ASSUME NEW e \in Sides, Deliver(e)
      PROVE  config' = config /\ (Rests(d) \/ Hears(d))
  BY <1>5 DEF Deliver, Rests, Hears, TypeOK
<1>6. ASSUME NEW e \in Sides, DeliverEnd(e) PROVE config' = config /\ Rests(d)
  BY <1>6 DEF DeliverEnd, Rests, TypeOK
<1>7. ASSUME NEW e \in Sides, Stall(e) \/ Unstall(e) \/ Die(e)
      PROVE  config' = config /\ Rests(d)
  BY <1>7 DEF Stall, Unstall, Die, Rests, TypeOK
<1>8. ASSUME Tick PROVE config' = config /\ Waits(d)
  <2>1. ~TaskReady(d)
    BY <1>8 DEF Tick
  <2> QED
    BY <1>8, <2>1 DEF Tick, Waits, TaskReady
<1> QED
  BY <1>1, <1>2, <1>3, <1>4, <1>5, <1>6, <1>7, <1>8 DEF Next, KeepAliveLoop

\* The measure of the silence is kept.
LEMMA HeardStep ==
  ASSUME TypeOK, TypeOK', [Next]_vars, NEW d \in Sides, Heard(d), Unheard(d)
  PROVE  Heard(d)' /\ Unheard(d)'
<1>0. /\ Timeout(d) \in Nat /\ MaxLag(d) = 2 * Timeout(d)
      /\ timeout_in[d] \in Int /\ silence[d] \in Nat
      /\ timeout_in'[d] \in Int /\ silence'[d] \in Nat
      /\ data_received[d] \in BOOLEAN /\ data_received'[d] \in BOOLEAN
  BY ConfigTimes DEF TypeOK
<1>1. config' = config /\ Timeout(d)' = Timeout(d)
  BY EndSteps DEF Timeout
<1> USE DEF Live
<1>2. CASE Rests(d)
  <2>1. Live(d)' => Live(d) \/ keep_pc[d] = "start"
    BY <1>2 DEF Rests
  <2> QED
    BY <1>0, <1>1, <1>2, <2>1 DEF Rests, Heard, Unheard
<1>3. CASE Hears(d)
  BY <1>0, <1>1, <1>3 DEF Hears, Heard, Unheard
<1>4. CASE Looks(d)
  BY <1>0, <1>1, <1>4 DEF Looks, Heard, Unheard
<1>5. CASE Waits(d)
  <2>1. CASE Live(d) /\ keep_pc[d] # "off"
    <3>1. config[d].enable_keep_alive => Timeout(d) > 0
      BY EnabledTimeout
    <3> QED
      BY <1>0, <1>1, <1>5, <2>1, <3>1 DEF Waits, Heard, Unheard, Down
  <2>2. CASE ~(Live(d) /\ keep_pc[d] # "off")
    BY <1>0, <1>1, <1>5, <2>2 DEF Waits, Heard, Unheard
  <2> QED
    BY <2>1, <2>2
<1> QED
  BY <1>2, <1>3, <1>4, <1>5, EndSteps

\* At the start.
LEMMA InitInv == Init => Inv
<1> SUFFICES ASSUME Init PROVE Inv
  OBVIOUS
<1>0. PICK first \in Sides, skew \in 0..MaxSkew :
        ping_in = [e \in Sides |-> IF e = first THEN 0 ELSE skew]
  BY DEF Init
<1>1. MaxSkew \in Nat /\ skew \in Nat /\ skew <= MaxSkew
  BY TimesAssumption
<1>2. TypeOK
  BY <1>0, <1>1 DEF Init, InitialFlag, TypeOK
<1>3. ASSUME NEW e \in Sides PROVE Heard(e) /\ Unheard(e) /\ OnTime(e) /\ Awaited(e)
  <2>1. Timeout(e) \in Nat
    BY <1>2, ConfigTimes
  <2>2. /\ keep_pc[e] = "start" /\ data_received[e] /\ silence[e] = 0 /\ timeout_in[e] = 0
        /\ flight[e] = << >> /\ ~closed[e] /\ stalled = {}
        /\ ping_in[e] \in Nat /\ ping_in[e] <= MaxSkew
    BY <1>0, <1>1 DEF Init, InitialFlag
  <2> QED
    BY <2>1, <2>2 DEF Heard, Unheard, OnTime, Awaited, Live
<1>4. IdleStaysUp
  BY DEF Init, IdleStaysUp
<1> QED
  BY <1>2, <1>3, <1>4 DEF Inv

\* Whatever the phases of the timers, the delays, stalls and deaths, a session
\* that hears nothing closes within twice keep_alive_timeout, unless its own
\* ping waits for room.
THEOREM NoticesSilence == Spec => []SilenceIsNoticed
<1> DEFINE I == TypeOK /\ \A e \in Sides : Heard(e) /\ Unheard(e)
<1>1. Init => I
  BY InitInv DEF Inv
<1>2. I /\ [Next]_vars => I'
  BY NextType, HeardStep
<1>3. ASSUME I PROVE SilenceIsNoticed
  <2> SUFFICES ASSUME NEW e \in Sides, Live(e), config[e].enable_keep_alive,
                      config[e].max_receive_buffer > 0, timeout_in[e] > 0
               PROVE  silence[e] <= 2 * Timeout(e)
    BY <1>3 DEF SilenceIsNoticed, TypeOK
  <2>1. /\ Timeout(e) \in Nat /\ timeout_in[e] \in Int /\ silence[e] \in Nat
        /\ data_received[e] \in BOOLEAN
    BY <1>3, ConfigTimes DEF TypeOK
  <2> QED
    BY <1>3, <2>1 DEF Heard
<1>4. I => SilenceIsNoticed
  BY <1>3
<1> QED
  BY <1>1, <1>2, <1>4, PTL DEF Spec

\* keep_alive_loop closes a session only after keep_alive_timeout of silence,
\* unless a tick came late because a ping had to wait for room.
THEOREM OnlySilenceTimesOut == Spec => TimeoutIsSilence
<1> DEFINE I == TypeOK /\ \A e \in Sides : Heard(e) /\ Unheard(e)
<1>1. Init => I
  BY InitInv DEF Inv
<1>2. I /\ [Next]_vars => I'
  BY NextType, HeardStep
<1>3. I /\ [Next]_vars =>
        [\A e \in timed_out' \ timed_out :
           silence[e] >= Timeout(e) \/ e \in late \/ timeout_in[e] < 0]_vars
  <2> SUFFICES ASSUME I, Next, NEW e \in timed_out' \ timed_out
               PROVE  silence[e] >= Timeout(e) \/ e \in late \/ timeout_in[e] < 0
    BY DEF TypeOK
  <2>1. ASSUME NEW d \in Sides, KeepTimeout(d), e \in timed_out' \ timed_out
        PROVE  e = d /\ TimedOut(d) /\ timeout_in[d] <= 0
    BY <2>1 DEF KeepTimeout, TimeoutTick, TimeoutCloses
  <2>2. e \in Sides /\ TimedOut(e) /\ timeout_in[e] <= 0
    <3>1. ASSUME UNCHANGED timed_out PROVE FALSE
      BY <3>1
    <3> QED
      BY <2>1, <3>1 DEF Next, KeepAliveLoop, KeepStart, KeepPing, KeepPingResume,
         Deliver, DeliverEnd, Stall, Unstall, Die, Tick
  <2>3. Timeout(e) \in Nat /\ timeout_in[e] \in Int /\ silence[e] \in Nat
    BY <2>2, ConfigTimes DEF TypeOK
  <2>4. Unheard(e)
    BY <2>2
  <2> QED
    BY <2>2, <2>3, <2>4 DEF Unheard, TimedOut
<1> QED
  BY <1>1, <1>2, <1>3, PTL DEF Spec, TimeoutIsSilence

-----------------------------------------------------------------------------
(* An idle session stays up. *)

\* The first thing on its way.
LEMMA FirstOf ==
  ASSUME TypeOK, NEW d \in Sides, flight[d] # << >>
  PROVE  /\ flight[d] \in Seq(Item) /\ Head(flight[d]) = flight[d][1]
         /\ 1 \in 1..Len(flight[d]) /\ Head(flight[d]) \in Item
         /\ Head(flight[d]).left \in Nat /\ Head(flight[d]).left <= MaxDelay
<1> DEFINE q == flight[d]
<1>1. q \in Seq(Item)
  BY DEF TypeOK
<1> HIDE DEF q
<1>2. q # << >>
  BY DEF q
<1>3. Head(q) = q[1] /\ 1 \in 1..Len(q) /\ Head(q) \in Item
  BY <1>1, <1>2, HeadTailProperties, LenProperties, EmptySeq
<1>4. Head(q).left \in Nat /\ Head(q).left <= MaxDelay
  BY <1>3, TimesAssumption DEF Item
<1> QED
  BY <1>1, <1>3, <1>4 DEF q

\* What becomes of the way from d when something is put on it.
LEMMA PutStep ==
  ASSUME TypeOK, NEW d \in Sides, NEW kind \in {"frame", "end"}, Put(d, kind)
  PROVE  /\ flight'[d] # << >>
         /\ flight[d] # << >> => Head(flight'[d]) = Head(flight[d])
         /\ flight[d] = << >> => Head(flight'[d]).left = MaxDelay
         /\ flight'[d][Len(flight'[d])].kind = kind
         /\ \A i \in 1..Len(flight'[d]) :
              flight'[d][i].kind = kind
              \/ (i \in 1..Len(flight[d]) /\ flight'[d][i] = flight[d][i])
<1> DEFINE q == flight[d]
           x == [kind |-> kind, left |-> MaxDelay]
           r == Append(q, x)
<1>0. x.kind = kind /\ x.left = MaxDelay
  OBVIOUS
<1>1. q \in Seq(Item)
  BY DEF TypeOK
<1>2. x \in Item
  BY TimesAssumption DEF Item
<1>10. flight'[d] = r
  BY PutType
<1> HIDE DEF q, x
<1>3. /\ r \in Seq(Item) /\ Len(r) = Len(q) + 1 /\ r[Len(q) + 1] = x
      /\ \A i \in 1..Len(q) : r[i] = q[i]
  BY <1>1, <1>2, AppendProperties
<1>4. Len(q) \in Nat /\ (q = << >> <=> Len(q) = 0)
  BY <1>1, LenProperties, EmptySeq
<1> HIDE DEF r
<1>5. r # << >> /\ Head(r) = r[1]
  BY <1>3, <1>4, EmptySeq, HeadTailProperties
<1>6. q # << >> => Head(q) = q[1] /\ 1 \in 1..Len(q)
  BY <1>1, <1>4, HeadTailProperties
<1>7. q # << >> => Head(r) = Head(q)
  BY <1>3, <1>5, <1>6
<1>8. q = << >> => Head(r) = x
  BY <1>3, <1>4, <1>5
<1>9. \A i \in 1..Len(r) : i = Len(q) + 1 \/ i \in 1..Len(q)
  BY <1>3, <1>4
<1> QED
  BY <1>0, <1>10, <1>3, <1>5, <1>7, <1>8, <1>9 DEF q

\* What becomes of it when the first thing is taken from it.
LEMMA TakeStep ==
  ASSUME TypeOK, NEW d \in Sides, flight[d] # << >>,
         flight'[d] = Tail(flight[d])
  PROVE  /\ \A i \in 1..Len(flight'[d]) :
              i + 1 \in 1..Len(flight[d]) /\ flight'[d][i] = flight[d][i + 1]
         /\ Ends(flight[d]) /\ Head(flight[d]).kind # "end" => Ends(flight'[d])
<1> DEFINE q == flight[d]
           r == Tail(q)
<1>1. q \in Seq(Item) /\ q # << >>
  BY DEF TypeOK
<1>2. /\ r \in Seq(Item) /\ Len(r) = Len(q) - 1 /\ Head(q) = q[1]
      /\ \A i \in 1..Len(r) : r[i] = q[i + 1]
  BY <1>1, HeadTailProperties
<1> HIDE DEF q, r
<1>3. Len(q) \in Nat /\ Len(q) # 0
  BY <1>1, LenProperties, EmptySeq
<1>4. \A i \in 1..Len(r) : i + 1 \in 1..Len(q)
  BY <1>2, <1>3
<1>5. ASSUME q[Len(q)].kind = "end", Head(q).kind # "end"
      PROVE  r # << >> /\ r[Len(r)].kind = "end"
  <2>1. Len(q) # 1
    BY <1>2, <1>5
  <2>2. Len(r) \in 1..Len(r) /\ Len(r) + 1 = Len(q)
    BY <1>2, <1>3, <2>1
  <2>3. r[Len(r)] = q[Len(r) + 1]
    BY <1>2, <2>2
  <2>4. r # << >>
    BY <1>2, <2>2, EmptySeq
  <2> QED
    BY <1>5, <2>2, <2>3, <2>4
<1> QED
  BY <1>2, <1>4, <1>5 DEF q, r, Ends

\* What becomes of it while time passes.
LEMMA TickStep ==
  ASSUME TypeOK, Tick, NEW d \in Sides
  PROVE  /\ (flight'[d] = << >>) <=> (flight[d] = << >>)
         /\ Ends(flight[d]) => Ends(flight'[d])
         /\ flight[d] # << >> => Head(flight'[d]).left = Down(Head(flight[d]).left, 0)
         /\ \A i \in 1..Len(flight'[d]) :
              i \in 1..Len(flight[d]) /\ flight'[d][i].kind = flight[d][i].kind
<1> DEFINE q == flight[d]
           r == flight'[d]
<1>1. /\ q \in Seq(Item) /\ r \in Seq(Item) /\ Len(r) = Len(q)
      /\ \A i \in 1..Len(q) : /\ r[i].kind = q[i].kind
                              /\ r[i].left = Down(q[i].left, 0)
  BY TickFlight DEF TypeOK
<1> HIDE DEF q, r
<1>2. Len(q) \in Nat /\ (q = << >> <=> Len(q) = 0) /\ (r = << >> <=> Len(r) = 0)
  BY <1>1, LenProperties, EmptySeq
<1>3. q # << >> => /\ Len(q) \in 1..Len(q) /\ 1 \in 1..Len(q)
                   /\ Head(q) = q[1] /\ Head(r) = r[1]
  BY <1>1, <1>2, HeadTailProperties
<1>4. Ends(q) => Ends(r)
  BY <1>1, <1>2, <1>3 DEF Ends
<1>5. q # << >> => Head(r).left = Down(Head(q).left, 0)
  BY <1>1, <1>3
<1> QED
  BY <1>1, <1>2, <1>4, <1>5 DEF q, r

\* No step makes a tick late, or loses the end of the connection, as long as no
\* way is stalled.
LEMMA OnTimeStep ==
  ASSUME TypeOK, [Next]_vars, \A e \in Sides : OnTime(e), NEW d \in Sides
  PROVE  OnTime(d)'
<1> DEFINE p == Peer(d)
<1>0. /\ p \in Sides /\ Peer(p) = d /\ p # d /\ \A e \in Sides : e = d \/ e = p
      /\ Timeout(d) \in Nat /\ Interval(d) \in Nat
      /\ MaxLag(d) = 2 * Timeout(d) /\ MaxSkew \in Nat
      /\ timeout_in[d] \in Int /\ ping_in[d] \in Int
  BY ConfigTimes, TimesAssumption DEF TypeOK, Sides
<1>1. OnTime(d) /\ OnTime(p)
  BY <1>0
<1>2. /\ config \in [Sides -> Configs]
      /\ keep_pc \in [Sides -> {"start", "off", "select", "ping"}]
      /\ ping_in \in [Sides -> Int] /\ timeout_in \in [Sides -> Int]
      /\ closed \in [Sides -> BOOLEAN] /\ flight \in [Sides -> Seq(Item)]
  BY DEF TypeOK
<1>3. config' = config /\ Interval(d)' = Interval(d)
  BY EndSteps DEF Interval
<1> HIDE DEF p
<1>4. ASSUME UNCHANGED <<keep_pc, ping_in, timeout_in, flight, closed>>,
             stalled' \subseteq stalled, UNCHANGED stalls
      PROVE  OnTime(d)'
  BY <1>0, <1>1, <1>3, <1>4 DEF OnTime
<1>5. ASSUME NEW e \in Sides, KeepStart(e) PROVE OnTime(d)'
  <2>1. /\ UNCHANGED <<timeout_in, ping_in, flight, closed, stalled, stalls>>
        /\ \/ keep_pc'[d] = keep_pc[d]
           \/ ping_in[d] = 0 /\ keep_pc'[d] \in {"select", "off"}
    BY <1>2, <1>5 DEF KeepStart
  <2> QED
    BY <1>0, <1>1, <1>3, <2>1 DEF OnTime
<1>6. ASSUME NEW e \in Sides, KeepPing(e) \/ KeepPingResume(e) PROVE OnTime(d)'
  <2>1. UNCHANGED <<timeout_in, closed, stalled, stalls>>
    BY <1>6 DEF KeepPing, KeepPingResume
  <2>2. stalls = {} => (keep_pc'[d] # "ping")
    BY <1>0, <1>1, <1>2, <1>6 DEF KeepPing, KeepPingResume, OnTime
  <2>3. \/ ping_in'[d] = ping_in[d]
        \/ ping_in[d] <= 0 /\ ping_in'[d] = ping_in[d] + Interval(d)
    BY <1>2, <1>6 DEF KeepPing, KeepPingResume
  <2>4. (keep_pc'[d] = "start") <=> (keep_pc[d] = "start")
    BY <1>2, <1>6 DEF KeepPing, KeepPingResume
  <2>5. keep_pc[d] = "start" => ping_in'[d] = ping_in[d]
    BY <1>2, <1>6 DEF KeepPing, KeepPingResume
  <2>6. flight'[d] = flight[d] \/ (d = e /\ Put(e, "frame") /\ Live(e))
    <3>1. UNCHANGED flight \/ (Put(e, "frame") /\ Live(e))
      BY <1>6 DEF KeepPing, KeepPingResume
    <3> QED
      BY <3>1, PutType
  <2>7. \A i \in 1..Len(flight'[d]) : flight'[d][i].kind = "end" => closed[d]
    <3>1. CASE flight'[d] = flight[d]
      BY <1>1, <3>1 DEF OnTime
    <3>2. CASE d = e /\ Put(e, "frame")
      BY <1>1, <3>2, PutStep DEF OnTime
    <3> QED
      BY <2>6, <3>1, <3>2
  <2>8. closed[d] => flight'[d] = flight[d]
    BY <2>6 DEF Live
  <2> QED
    BY <1>0, <1>1, <1>3, <2>1, <2>2, <2>3, <2>4, <2>5, <2>7, <2>8 DEF OnTime, p
<1>7. ASSUME NEW e \in Sides, KeepTimeout(e) PROVE OnTime(d)'
  <2>1. UNCHANGED <<keep_pc, ping_in, stalled, stalls>> /\ Live(e)
    BY <1>7 DEF KeepTimeout, TimeoutTick
  <2>2. \/ timeout_in'[d] = timeout_in[d]
        \/ timeout_in'[d] = timeout_in[d] + Timeout(d)
    BY <1>2, <1>7 DEF KeepTimeout, TimeoutTick
  <2>3. \/ UNCHANGED <<closed, flight>>
        \/ /\ closed' = [closed EXCEPT ![e] = TRUE]
           /\ e \in stalled /\ UNCHANGED flight
        \/ /\ closed' = [closed EXCEPT ![e] = TRUE]
           /\ Put(e, "end")
    BY <1>7 DEF KeepTimeout, TimeoutTick, TimeoutCloses
  <2>4. \A i \in 1..Len(flight'[d]) : flight'[d][i].kind = "end" => closed'[d]
    <3>1. CASE flight'[d] = flight[d]
      BY <1>1, <1>2, <2>3, <3>1 DEF OnTime
    <3>2. CASE d = e /\ closed' = [closed EXCEPT ![e] = TRUE]
      BY <1>2, <3>2
    <3> QED
      BY <2>3, <3>1, <3>2, PutType
  <2>5. stalls = {} /\ closed'[d] => Ends(flight'[d]) \/ closed'[p]
    <3>1. CASE UNCHANGED <<closed, flight>>
      BY <1>1, <3>1 DEF OnTime, p
    <3>2. CASE e \in stalled
      BY <1>1, <3>2 DEF OnTime
    <3>3. CASE d = e /\ Put(e, "end")
      BY <3>3, PutStep DEF Ends
    <3>4. CASE d # e /\ closed' = [closed EXCEPT ![e] = TRUE]
      BY <1>0, <1>2, <3>4
    <3> QED
      BY <2>3, <3>1, <3>2, <3>3, <3>4
  <2> QED
    BY <1>0, <1>1, <1>3, <2>1, <2>2, <2>4, <2>5 DEF OnTime, p
<1>8. ASSUME NEW e \in Sides, Deliver(e) PROVE OnTime(d)'
  <2>1. /\ UNCHANGED <<keep_pc, ping_in, timeout_in, closed, stalled, stalls>>
        /\ ~closed[e] /\ flight[Peer(e)] # << >> /\ Head(flight[Peer(e)]).kind # "end"
        /\ flight' = [flight EXCEPT ![Peer(e)] = Tail(flight[Peer(e)])]
    BY <1>8 DEF Deliver, Live
  <2>2. CASE flight'[d] = flight[d]
    BY <1>0, <1>1, <1>3, <2>1, <2>2 DEF OnTime
  <2>3. CASE d = Peer(e)
    <3>1. flight[d] # << >> /\ flight'[d] = Tail(flight[d])
      BY <1>2, <2>1, <2>3
    <3>2. /\ \A i \in 1..Len(flight'[d]) :
               i + 1 \in 1..Len(flight[d]) /\ flight'[d][i] = flight[d][i + 1]
          /\ Ends(flight[d]) => Ends(flight'[d])
      BY <2>1, <2>3, <3>1, TakeStep
    <3>3. \A i \in 1..Len(flight'[d]) : flight'[d][i].kind = "end" => closed[d]
      BY <1>1, <3>2 DEF OnTime
    <3> QED
      BY <1>0, <1>1, <1>3, <2>1, <3>2, <3>3 DEF OnTime
  <2> QED
    BY <1>2, <2>1, <2>2, <2>3
<1>9. ASSUME NEW e \in Sides, DeliverEnd(e) PROVE OnTime(d)'
  <2>1. /\ UNCHANGED <<keep_pc, ping_in, timeout_in, flight, stalled, stalls>>
        /\ flight[Peer(e)] # << >> /\ Head(flight[Peer(e)]).kind = "end"
        /\ closed' = [closed EXCEPT ![e] = TRUE]
    BY <1>9 DEF DeliverEnd
  <2>2. closed[Peer(e)]
    <3>1. Peer(e) \in Sides
      BY ConfigTimes
    <3>2. Head(flight[Peer(e)]) = flight[Peer(e)][1] /\ 1 \in 1..Len(flight[Peer(e)])
      BY <2>1, <3>1, FirstOf
    <3> QED
      BY <2>1, <3>1, <3>2 DEF OnTime
  <2>3. closed'[d] => closed[d] \/ closed'[p]
    BY <1>0, <1>2, <2>1, <2>2 DEF p
  <2>4. (closed[p] => closed'[p]) /\ (closed[d] => closed'[d])
    BY <1>0, <1>2, <2>1
  <2> QED
    BY <1>0, <1>1, <1>3, <2>1, <2>3, <2>4 DEF OnTime, p
<1>10. ASSUME NEW e \in Sides, Stall(e) PROVE OnTime(d)'
  <2>1. /\ UNCHANGED <<keep_pc, ping_in, timeout_in, closed>> /\ stalls' # {}
        /\ Put(e, "frame")
    BY <1>10 DEF Stall
  <2>2. flight'[d] = flight[d] \/ (d = e)
    BY <2>1, PutType
  <2>3. \A i \in 1..Len(flight'[d]) : flight'[d][i].kind = "end" => closed[d]
    <3>1. CASE flight'[d] = flight[d]
      BY <1>1, <3>1 DEF OnTime
    <3>2. CASE d = e
      BY <1>1, <2>1, <3>2, PutStep DEF OnTime
    <3> QED
      BY <2>2, <3>1, <3>2
  <2> QED
    BY <1>0, <1>1, <1>3, <2>1, <2>3 DEF OnTime
<1>11. ASSUME NEW e \in Sides, Unstall(e) \/ Die(e) PROVE OnTime(d)'
  BY <1>4, <1>11 DEF Unstall, Die
<1>12. ASSUME Tick PROVE OnTime(d)'
  <2>1. UNCHANGED <<keep_pc, closed, stalled, stalls, alive>>
    BY <1>12 DEF Tick
  <2>2. ~TaskReady(d)
    BY <1>12 DEF Tick
  <2>3. ping_in'[d] <= ping_in[d] /\ (stalls = {} => ping_in'[d] >= 0)
    <3>1. ping_in'[d] = IF keep_pc[d] = "off" \/ ~alive[d] \/ closed[d]
                          THEN ping_in[d] ELSE Down(ping_in[d], -MaxLag(d))
      BY <1>12 DEF Tick
    <3>2. \/ ping_in'[d] = ping_in[d]
          \/ /\ ping_in'[d] = ping_in[d] - 1
             /\ keep_pc[d] # "off" /\ alive[d] /\ ~closed[d]
      BY <1>0, <3>1 DEF Down
    <3>3. ASSUME stalls = {}, keep_pc[d] # "off", alive[d], ~closed[d]
          PROVE  ping_in[d] > 0
      <4>1. ping_in[d] >= 0 /\ keep_pc[d] \in {"start", "select"}
        BY <1>1, <1>2, <3>3 DEF OnTime
      <4> QED
        BY <1>0, <2>2, <3>3, <4>1 DEF TaskReady, Live
    <3> QED
      BY <1>0, <1>1, <3>2, <3>3 DEF OnTime
  <2>4. stalls = {} => timeout_in'[d] >= 0
    <3>1. timeout_in'[d] = IF Live(d) /\ keep_pc[d] # "off"
                             THEN Down(timeout_in[d], -MaxLag(d)) ELSE timeout_in[d]
      BY <1>12 DEF Tick
    <3>2. ASSUME stalls = {}, Live(d), keep_pc[d] # "off" PROVE timeout_in[d] > 0
      <4>1. keep_pc[d] = "select"
        BY <1>1, <1>2, <3>2 DEF OnTime, Live
      <4> QED
        BY <1>0, <2>2, <3>2, <4>1 DEF TaskReady
    <3> QED
      BY <1>0, <1>1, <3>1, <3>2 DEF OnTime, Down
  <2>5. ping_in'[d] \in Int
    BY <1>0, <1>12 DEF Tick, Down
  <2>6. \A i \in 1..Len(flight'[d]) :
          i \in 1..Len(flight[d]) /\ flight'[d][i].kind = flight[d][i].kind
    BY <1>12, TickStep
  <2>7. Ends(flight[d]) => Ends(flight'[d])
    BY <1>12, TickStep
  <2>8. \A i \in 1..Len(flight'[d]) : flight'[d][i].kind = "end" => closed[d]
    BY <1>1, <2>6 DEF OnTime
  <2>9. /\ keep_pc[d] = "start" => ping_in'[d] <= MaxSkew
        /\ keep_pc[d] # "start" => ping_in'[d] <= Interval(d)
    BY <1>0, <1>1, <2>3, <2>5 DEF OnTime
  <2>10. stalls = {} => /\ stalled = {} /\ keep_pc[d] # "ping"
                        /\ closed[d] => Ends(flight'[d]) \/ closed[Peer(d)]
    BY <1>1, <2>7 DEF OnTime
  <2> QED
    BY <1>3, <2>1, <2>3, <2>4, <2>8, <2>9, <2>10 DEF OnTime
<1>13. CASE UNCHANGED vars
  BY <1>4, <1>13
<1> QED
  BY <1>5, <1>6, <1>7, <1>8, <1>9, <1>10, <1>11, <1>12, <1>13 DEF Next, KeepAliveLoop

\* Something of a live peer arrives within the bound that Compatible sets.
LEMMA ArrivesSoon ==
  ASSUME TypeOK, NEW d \in Sides, OnTime(Peer(d))
  PROVE  /\ Arrives(Peer(d)) \in Int /\ Timeout(d) \in Int
         /\ Compatible(d) => Arrives(Peer(d)) < Timeout(d)
         /\ stalls = {} => Arrives(Peer(d)) >= 0
<1> DEFINE p == Peer(d)
<1>0. /\ p \in Sides /\ Timeout(d) \in Nat /\ Interval(p) \in Nat
      /\ MaxDelay \in Nat /\ MaxSkew \in Nat /\ ping_in[p] \in Int
  BY ConfigTimes, TimesAssumption DEF TypeOK
<1>1. /\ ping_in[p] <= MaxSkew \/ ping_in[p] <= Interval(p)
      /\ stalls = {} => ping_in[p] >= 0
  BY DEF OnTime
<1>2. Compatible(d) => /\ Interval(p) + MaxDelay < Timeout(d)
                       /\ MaxSkew + MaxDelay < Timeout(d)
  BY DEF Compatible, Interval
<1> HIDE DEF p
<1>3. CASE flight[p] # << >>
  <2>1. Arrives(p) \in Nat /\ Arrives(p) <= MaxDelay
    BY <1>0, <1>3, FirstOf DEF Arrives
  <2> QED
    BY <1>0, <1>2, <2>1 DEF p
<1>4. CASE flight[p] = << >>
  <2>1. Arrives(p) = ping_in[p] + MaxDelay
    BY <1>4 DEF Arrives
  <2> QED
    BY <1>0, <1>1, <1>2, <2>1 DEF p
<1> QED
  BY <1>3, <1>4

\* While it has heard nothing since its last look, an end with a compatible peer
\* that lives has something coming before its next look.
LEMMA AwaitedStep ==
  ASSUME TypeOK, TypeOK', [Next]_vars, NEW d \in Sides,
         \A e \in Sides : Heard(e) /\ OnTime(e), Awaited(d)
  PROVE  Awaited(d)'
<1> DEFINE p == Peer(d)
<1>0. /\ p \in Sides /\ Peer(p) = d /\ p # d /\ \A e \in Sides : e = d \/ e = p
      /\ timeout_in[d] \in Int /\ timeout_in'[d] \in Int
      /\ ping_in[p] \in Int /\ MaxDelay \in Nat
  BY ConfigTimes, TimesAssumption DEF TypeOK, Sides
<1>1. /\ Arrives(p) \in Int /\ Timeout(d) \in Int
      /\ Compatible(d) => Arrives(p) < Timeout(d)
      /\ stalls = {} => Arrives(p) >= 0
  BY <1>0, ArrivesSoon
<1>2. config' = config /\ (Compatible(d)' <=> Compatible(d))
  BY EndSteps DEF Compatible, Timeout
<1>3. /\ keep_pc \in [Sides -> {"start", "off", "select", "ping"}]
      /\ ping_in \in [Sides -> Int] /\ timeout_in \in [Sides -> Int]
      /\ data_received \in [Sides -> BOOLEAN] /\ closed \in [Sides -> BOOLEAN]
      /\ flight \in [Sides -> Seq(Item)] /\ alive \in [Sides -> BOOLEAN]
  BY DEF TypeOK
<1>4. Awaited(d) <=>
        ((Live(d) /\ Compatible(d) /\ alive[p] /\ stalls = {} /\ ~data_received[d])
          => Arrives(p) < timeout_in[d])
  BY DEF Awaited
<1>5. Awaited(d)' <=>
        ((/\ Live(d)' /\ Compatible(d)' /\ alive'[p] /\ stalls' = {}
          /\ ~data_received'[d])
          => Arrives(p)' < timeout_in'[d])
  BY DEF Awaited
<1>6. OnTime(d) /\ OnTime(p) /\ Heard(d) /\ Heard(p)
  BY <1>0
<1> HIDE DEF p
<1> SUFFICES ASSUME Live(d)', Compatible(d), alive'[p], stalls' = {}, ~data_received'[d]
             PROVE  Arrives(p)' < timeout_in'[d]
  BY <1>2, <1>5
<1>7. ASSUME UNCHANGED <<timeout_in, data_received, stalls>>, Live(d), alive[p],
             Arrives(p)' \in Int, Arrives(p)' <= Arrives(p)
      PROVE  Arrives(p)' < timeout_in'[d]
  BY <1>0, <1>1, <1>4, <1>7
<1>8. ASSUME UNCHANGED <<timeout_in, data_received, ping_in, stalls>>,
             flight'[p] = flight[p], Live(d), alive[p]
      PROVE  Arrives(p)' < timeout_in'[d]
  <2>1. Arrives(p)' = Arrives(p)
    BY <1>8 DEF Arrives
  <2> QED
    BY <1>1, <1>7, <1>8, <2>1
<1>9. CASE UNCHANGED vars
  BY <1>8, <1>9 DEF Live
<1>10. ASSUME NEW e \in Sides, KeepStart(e) PROVE Arrives(p)' < timeout_in'[d]
  <2>1. UNCHANGED <<timeout_in, data_received, ping_in, stalls, flight, closed, alive>>
    BY <1>10 DEF KeepStart
  <2>2. keep_pc[d] # "start"
    BY <1>6, <2>1 DEF Heard
  <2> QED
    BY <1>8, <2>1, <2>2 DEF Live
<1>11. ASSUME NEW e \in Sides, KeepPing(e) PROVE Arrives(p)' < timeout_in'[d]
  <2>1. /\ UNCHANGED <<timeout_in, data_received, stalls, closed, alive, stalled>>
        /\ Live(e) /\ ping_in[e] <= 0
        /\ ping_in' = [ping_in EXCEPT ![e] = @ + Interval(e)]
    BY <1>11 DEF KeepPing
  <2>2. stalled = {} /\ ping_in[p] >= 0
    BY <1>6, <2>1 DEF OnTime
  <2>3. Put(e, "frame") /\ keep_pc' = keep_pc
    BY <1>11, <2>2 DEF KeepPing
  <2>4. Live(d) /\ alive[p]
    BY <2>1, <2>3 DEF Live
  <2>5. CASE e = d
    <3>1. flight'[p] = flight[p] /\ ping_in'[p] = ping_in[p]
      BY <1>0, <1>3, <2>1, <2>3, <2>5, PutType
    <3>2. Arrives(p)' = Arrives(p)
      BY <3>1 DEF Arrives
    <3> QED
      BY <1>1, <1>7, <2>1, <2>4, <3>2
  <2>6. CASE e = p
    <3>1. /\ flight'[p] # << >>
          /\ flight[p] # << >> => Head(flight'[p]) = Head(flight[p])
          /\ flight[p] = << >> => Head(flight'[p]).left = MaxDelay
      BY <1>0, <2>3, <2>6, PutStep
    <3>2. ping_in[p] + MaxDelay = MaxDelay
      BY <1>0, <2>1, <2>2, <2>6
    <3>3. Arrives(p)' = Arrives(p)
      BY <3>1, <3>2 DEF Arrives
    <3> QED
      BY <1>1, <1>7, <2>1, <2>4, <3>3
  <2> QED
    BY <1>0, <2>5, <2>6
<1>12. ASSUME NEW e \in Sides, KeepPingResume(e) PROVE FALSE
  <2>1. stalls = {} /\ keep_pc[e] = "ping"
    BY <1>12 DEF KeepPingResume
  <2> QED
    BY <2>1 DEF OnTime
<1>13. ASSUME NEW e \in Sides, KeepTimeout(e) PROVE Arrives(p)' < timeout_in'[d]
  <2>1. /\ UNCHANGED <<ping_in, stalls, keep_pc, alive, stalled>> /\ Live(e)
        /\ timeout_in' = [timeout_in EXCEPT ![e] = @ + Timeout(e)]
        /\ data_received' = [data_received EXCEPT ![e] = FALSE]
        /\ \/ UNCHANGED <<closed, flight>>
           \/ closed' = [closed EXCEPT ![e] = TRUE] /\ (UNCHANGED flight \/ Put(e, "end"))
    BY <1>13 DEF KeepTimeout, TimeoutTick, TimeoutCloses
  <2>2. CASE e = d
    <3>1. UNCHANGED flight
      BY <1>3, <2>1, <2>2 DEF Live
    <3>2. Arrives(p)' = Arrives(p)
      BY <2>1, <3>1 DEF Arrives
    <3>3. timeout_in[d] >= 0 /\ timeout_in'[d] = timeout_in[d] + Timeout(d)
      BY <1>3, <1>6, <2>1, <2>2 DEF OnTime
    <3> QED
      BY <1>0, <1>1, <3>2, <3>3
  <2>3. CASE e = p
    <3>1. timeout_in'[d] = timeout_in[d] /\ data_received'[d] = data_received[d]
      BY <1>0, <1>3, <2>1, <2>3
    <3>2. Live(d) /\ alive[p]
      BY <1>0, <1>3, <2>1, <2>3 DEF Live
    <3>3. Arrives(p) < timeout_in[d]
      BY <1>4, <2>1, <3>1, <3>2
    <3>4. CASE UNCHANGED flight
      BY <2>1, <3>1, <3>3, <3>4 DEF Arrives
    <3>5. CASE Put(p, "end")
      <4>1. /\ flight'[p] # << >>
            /\ flight[p] # << >> => Head(flight'[p]) = Head(flight[p])
            /\ flight[p] = << >> => Head(flight'[p]).left = MaxDelay
        BY <1>0, <3>5, PutStep
      <4>2. ping_in[p] >= 0
        BY <1>6, <2>1 DEF OnTime
      <4>3. CASE flight[p] # << >>
        BY <3>1, <3>3, <4>1, <4>3 DEF Arrives
      <4>4. CASE flight[p] = << >>
        <5>1. Arrives(p)' = MaxDelay /\ Arrives(p) = ping_in[p] + MaxDelay
          BY <4>1, <4>4 DEF Arrives
        <5> QED
          BY <1>0, <3>1, <3>3, <4>2, <5>1
      <4> QED
        BY <4>3, <4>4
    <3> QED
      BY <2>1, <2>3, <3>4, <3>5
  <2> QED
    BY <1>0, <2>2, <2>3
<1>14. ASSUME NEW e \in Sides, Deliver(e) PROVE Arrives(p)' < timeout_in'[d]
  <2>1. /\ UNCHANGED <<timeout_in, ping_in, stalls, keep_pc, closed, alive>>
        /\ flight' = [flight EXCEPT ![Peer(e)] = Tail(@)]
        /\ data_received' = [data_received EXCEPT ![e] = TRUE]
    BY <1>14 DEF Deliver
  <2>2. e = p
    BY <1>0, <1>3, <2>1
  <2>3. /\ flight'[p] = flight[p] /\ data_received'[d] = data_received[d]
        /\ ping_in' = ping_in
    BY <1>0, <1>3, <2>1, <2>2
  <2>4. Live(d) /\ alive[p]
    BY <2>1 DEF Live
  <2>5. Arrives(p)' = Arrives(p)
    BY <2>3 DEF Arrives
  <2> QED
    BY <1>4, <2>1, <2>3, <2>4, <2>5
<1>15. ASSUME NEW e \in Sides, DeliverEnd(e) PROVE Arrives(p)' < timeout_in'[d]
  <2>1. /\ UNCHANGED <<timeout_in, data_received, ping_in, stalls, keep_pc, flight,
                       alive>>
        /\ closed' = [closed EXCEPT ![e] = TRUE]
    BY <1>15 DEF DeliverEnd
  <2>2. Live(d)
    BY <1>3, <2>1 DEF Live
  <2> QED
    BY <1>8, <2>1, <2>2
<1>16. ASSUME NEW e \in Sides, Stall(e) PROVE FALSE
  BY <1>16 DEF Stall
<1>17. ASSUME NEW e \in Sides, Unstall(e) \/ Die(e) PROVE Arrives(p)' < timeout_in'[d]
  <2>1. UNCHANGED <<timeout_in, data_received, ping_in, stalls, keep_pc, closed, flight>>
    BY <1>17 DEF Unstall, Die
  <2>2. UNCHANGED alive \/ alive' = [alive EXCEPT ![e] = FALSE]
    BY <1>17 DEF Unstall, Die
  <2>3. Live(d) /\ alive[p]
    BY <1>0, <1>3, <2>1, <2>2 DEF Live
  <2> QED
    BY <1>8, <2>1, <2>3
<1>18. ASSUME Tick PROVE Arrives(p)' < timeout_in'[d]
  <2>1. UNCHANGED <<config, keep_pc, data_received, closed, stalled, alive, stalls>>
    BY <1>18 DEF Tick
  <2>2. ~TaskReady(p) /\ ~FrameDue(d)
    BY <1>0, <1>18 DEF Tick
  <2>3. Live(d) /\ alive[p] /\ stalls = {} /\ ~data_received[d] /\ stalled = {}
    BY <1>6, <2>1 DEF Live, OnTime
  <2>4. Arrives(p) < timeout_in[d]
    BY <1>4, <2>3
  <2>5. timeout_in'[d] >= timeout_in[d] - 1
    <3>1. timeout_in'[d] = IF Live(d) /\ keep_pc[d] # "off"
                             THEN Down(timeout_in[d], -MaxLag(d)) ELSE timeout_in[d]
      BY <1>18 DEF Tick
    <3> QED
      BY <1>0, <3>1 DEF Down
  <2>6. CASE flight[p] # << >>
    <3>1. Head(flight[p]).left \in Nat /\ Head(flight[p]).left # 0
      BY <1>0, <2>2, <2>3, <2>6, FirstOf DEF FrameDue, p
    <3>2. flight'[p] # << >> /\ Head(flight'[p]).left = Down(Head(flight[p]).left, 0)
      BY <1>0, <1>18, <2>6, TickStep
    <3>3. Arrives(p) = Head(flight[p]).left /\ Arrives(p)' = Head(flight'[p]).left
      BY <2>6, <3>2 DEF Arrives
    <3> QED
      BY <1>0, <2>4, <2>5, <3>1, <3>2, <3>3 DEF Down
  <2>7. CASE flight[p] = << >>
    <3>1. ~closed[p] /\ keep_pc[p] # "ping" /\ ping_in[p] >= 0
      BY <1>0, <1>6, <2>3, <2>7 DEF OnTime, Ends, Live
    <3>2. keep_pc[p] # "off"
      BY <1>6 DEF Heard, Compatible, p
    <3>3. ping_in[p] > 0
      BY <1>0, <1>3, <2>2, <2>3, <3>1, <3>2 DEF TaskReady, Live
    <3>4. ping_in'[p] = Down(ping_in[p], -MaxLag(p))
      BY <1>0, <1>18, <2>3, <3>1, <3>2 DEF Tick
    <3>5. MaxLag(p) \in Nat
      BY <1>0, ConfigTimes
    <3>6. ping_in'[p] = ping_in[p] - 1
      BY <1>0, <3>3, <3>4, <3>5 DEF Down
    <3>7. flight'[p] = << >>
      BY <1>0, <1>18, <2>7, TickStep
    <3>8. Arrives(p) = ping_in[p] + MaxDelay /\ Arrives(p)' = ping_in'[p] + MaxDelay
      BY <2>7, <3>7 DEF Arrives
    <3> QED
      BY <1>0, <2>4, <2>5, <3>6, <3>8
  <2> QED
    BY <2>6, <2>7
<1> QED
  BY <1>9, <1>10, <1>11, <1>12, <1>13, <1>14, <1>15, <1>16, <1>17, <1>18
     DEF Next, KeepAliveLoop

\* Hosts that died stay dead, and stalls are not forgotten.
LEMMA Losses ==
  ASSUME TypeOK, [Next]_vars
  PROVE  /\ config' = config /\ stalls \subseteq stalls'
         /\ \A e \in Sides : alive'[e] => alive[e]
         /\ \A e \in timed_out' \ timed_out :
              Live(e) /\ ~data_received[e] /\ timeout_in[e] <= 0
<1>1. ASSUME NEW e \in Sides, KeepTimeout(e)
      PROVE  /\ UNCHANGED <<config, stalls, alive>>
             /\ \A d \in timed_out' \ timed_out :
                  Live(d) /\ ~data_received[d] /\ timeout_in[d] <= 0
  BY <1>1 DEF KeepTimeout, TimeoutTick, TimeoutCloses, TimedOut
<1>2. ASSUME NEW e \in Sides, Die(e)
      PROVE  /\ UNCHANGED <<config, stalls, timed_out>>
             /\ \A d \in Sides : alive'[d] => alive[d]
  BY <1>2 DEF Die, TypeOK
<1>3. ASSUME NEW e \in Sides, Stall(e)
      PROVE  UNCHANGED <<config, alive, timed_out>> /\ stalls \subseteq stalls'
  BY <1>3 DEF Stall
<1>4. ASSUME NEW e \in Sides,
             \/ KeepStart(e) \/ KeepPing(e) \/ KeepPingResume(e)
             \/ Deliver(e) \/ DeliverEnd(e) \/ Unstall(e)
      PROVE  UNCHANGED <<config, alive, timed_out, stalls>>
  BY <1>4 DEF KeepStart, KeepPing, KeepPingResume, Deliver, DeliverEnd, Unstall
<1>5. ASSUME Tick PROVE UNCHANGED <<config, alive, timed_out, stalls>>
  BY <1>5 DEF Tick
<1> QED
  BY <1>1, <1>2, <1>3, <1>4, <1>5 DEF Next, KeepAliveLoop

\* Only sessions whose peer is dead, or does not ping often enough, or whose
\* pings were held up, time out.
LEMMA IdleStep ==
  ASSUME TypeOK, [Next]_vars, IdleStaysUp,
         \A e \in Sides : OnTime(e) /\ Awaited(e)
  PROVE  IdleStaysUp'
<1> SUFFICES ASSUME NEW e \in timed_out', Compatible(e)', alive'[Peer(e)], stalls' = {}
             PROVE  FALSE
  BY DEF IdleStaysUp
<1>1. Compatible(e) /\ stalls = {}
  BY Losses DEF Compatible, Timeout
<1>2. CASE e \in timed_out
  <2>1. e \in Sides /\ Peer(e) \in Sides
    BY <1>2, ConfigTimes DEF TypeOK
  <2>2. alive[Peer(e)]
    BY <2>1, Losses
  <2> QED
    BY <1>1, <1>2, <2>2 DEF IdleStaysUp
<1>3. CASE e \notin timed_out
  <2>1. Live(e) /\ ~data_received[e] /\ timeout_in[e] <= 0
    BY <1>3, Losses
  <2>2. e \in Sides
    BY <1>3, NextType DEF TypeOK
  <2>3. Peer(e) \in Sides /\ timeout_in[e] \in Int
    BY <2>2, ConfigTimes DEF TypeOK
  <2>4. alive[Peer(e)]
    BY <2>3, Losses
  <2>5. Arrives(Peer(e)) < timeout_in[e]
    BY <1>1, <2>1, <2>2, <2>4 DEF Awaited
  <2>6. Arrives(Peer(e)) \in Int /\ Arrives(Peer(e)) >= 0
    BY <1>1, <2>2, <2>3, ArrivesSoon
  <2> QED
    BY <2>1, <2>3, <2>5, <2>6
<1> QED
  BY <1>2, <1>3

\* An idle session whose peer lives, is not held up and pings often enough is
\* never closed for a timeout, for all intervals, timeouts, delays and phases.
THEOREM IdleSessionsStay == Spec => []IdleStaysUp
<1>1. Init => Inv
  BY InitInv
<1>2. Inv /\ [Next]_vars => Inv'
  <2> SUFFICES ASSUME Inv, [Next]_vars PROVE Inv'
    OBVIOUS
  <2>1. TypeOK'
    BY NextType DEF Inv
  <2>2. ASSUME NEW e \in Sides PROVE (Heard(e) /\ Unheard(e) /\ OnTime(e) /\ Awaited(e))'
    BY <2>1, HeardStep, OnTimeStep, AwaitedStep DEF Inv
  <2>3. IdleStaysUp'
    BY IdleStep DEF Inv
  <2> QED
    BY <2>1, <2>2, <2>3 DEF Inv
<1>3. Inv => IdleStaysUp
  BY DEF Inv
<1> QED
  BY <1>1, <1>2, <1>3, PTL DEF Spec
==============================================================================
