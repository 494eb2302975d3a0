----------------------------- MODULE KeepAlive -------------------------------
(***************************************************************************)
(* keep_alive_loop (session.rs) of the two ends of a connection, in time.  *)
(* Session.tla has the same loop with ticks at any moment; here the two    *)
(* intervals run on a clock that advances when no task is ready, frames    *)
(* take up to MaxDelay, a direction of the transport may stop taking       *)
(* frames for any time, and a host may die without a sign.                 *)
(*                                                                         *)
(* tokio's interval(p) ticks at once, and then p after each deadline; the  *)
(* ticks missed while nobody polls it come one after the other as soon as  *)
(* it is polled again (MissedTickBehavior::Burst, the default).            *)
(***************************************************************************)
EXTENDS Config, Sequences

CONSTANTS
  Configs,    \* configurations the ends may have
  MaxDelay,   \* the transport delivers a frame within this time
  MaxSkew,    \* the second session is created at most so much later
  MayStall,   \* ends whose way to the peer may be held up, once
  MayDie      \* ends whose host may die

\* A loop whose interval is 0 panics when it starts.
ASSUME ConfigsAssumption ==
  /\ Configs \subseteq ConfigRecord
  /\ \A c \in Configs : c.enable_keep_alive =>
       c.keep_alive_interval > 0 /\ c.keep_alive_timeout > 0
ASSUME TimesAssumption == MaxDelay \in Nat /\ MaxSkew \in Nat

Sides == {"client", "server"}
Peer(e) == IF e = "client" THEN "server" ELSE "client"

VARIABLES
  config,         \* SessionInner::config, by end
  keep_pc,        \* "start" before the session exists, "off", "select", "ping"
  ping_in,        \* time to the deadline of ping_interval; below 0: overdue
  timeout_in,     \* the same of timeout_interval
  data_received,  \* SessionState::data_received
  closed,         \* SessionState::closed
  flight,         \* frames on their way from an end, with the time they have left
  stalled,        \* the ends whose frame channel is full, nobody taking from it
  alive,          \* the ends whose host lives
  silence,        \* history: time since the last frame, or since the start
  late,           \* history: the last tick of timeout_interval was late
  timed_out,      \* history: the ends that closed for a timeout
  stalls          \* history: the ends that have been stalled

timers == <<ping_in, timeout_in>>
history == <<silence, late, timed_out, stalls>>
vars == <<config, keep_pc, timers, data_received, closed, flight, stalled, alive,
          history>>

Interval(e) == config[e].keep_alive_interval
Timeout(e)  == config[e].keep_alive_timeout
MaxLag(e)   == 2 * Timeout(e)      \* bound: how far behind a timer is counted

Live(e) == alive[e] /\ ~closed[e] /\ keep_pc[e] # "start"

-----------------------------------------------------------------------------
(* The transport.  An element of flight is a frame or the connection's end.   *)

Put(e, kind) ==
  flight' = [flight EXCEPT ![e] = Append(@, [kind |-> kind, left |-> MaxDelay])]

\* Mutant: NOP frames do not count as a sign of life.
DeliverUnmarked(e) ==
  /\ Live(e)
  /\ flight[Peer(e)] # << >> /\ Peer(e) \notin stalled
  /\ Head(flight[Peer(e)]).kind = "frame"
  /\ flight' = [flight EXCEPT ![Peer(e)] = Tail(@)]
  /\ silence' = [silence EXCEPT ![e] = 0]
  /\ UNCHANGED <<config, keep_pc, timers, data_received, closed, stalled, alive,
                 late, timed_out, stalls>>

\* recv_loop of e gets a frame: mark_data_received().
Deliver(e) ==
  /\ Live(e)
  /\ flight[Peer(e)] # << >> /\ Peer(e) \notin stalled
  /\ Head(flight[Peer(e)]).kind = "frame"
  /\ flight' = [flight EXCEPT ![Peer(e)] = Tail(@)]
  /\ data_received' = [data_received EXCEPT ![e] = TRUE]
  /\ silence' = [silence EXCEPT ![e] = 0]
  /\ UNCHANGED <<config, keep_pc, timers, closed, stalled, alive, late,
                 timed_out, stalls>>

\* The peer has closed its session and dropped the transport: recv_loop closes.
DeliverEnd(e) ==
  /\ Live(e)
  /\ flight[Peer(e)] # << >> /\ Peer(e) \notin stalled
  /\ Head(flight[Peer(e)]).kind = "end"
  /\ closed' = [closed EXCEPT ![e] = TRUE]
  /\ UNCHANGED <<config, keep_pc, timers, data_received, flight, stalled, alive,
                 history>>

\* The application fills the channel while the transport takes nothing.
Stall(e) ==
  /\ e \in MayStall \ stalls
  /\ Live(e)
  /\ stalled' = stalled \cup {e} /\ stalls' = stalls \cup {e}
  /\ Put(e, "frame")
  /\ UNCHANGED <<config, keep_pc, timers, data_received, closed, alive, silence,
                 late, timed_out>>

Unstall(e) ==
  /\ e \in stalled /\ alive[Peer(e)]
  /\ stalled' = stalled \ {e}
  /\ UNCHANGED <<config, keep_pc, timers, data_received, closed, flight, alive,
                 history>>

Die(e) ==
  /\ e \in MayDie /\ Live(e)
  /\ alive' = [alive EXCEPT ![e] = FALSE]
  /\ UNCHANGED <<config, keep_pc, timers, data_received, closed, flight, stalled,
                 history>>

-----------------------------------------------------------------------------
(* keep_alive_loop *)

\* Session::new, and the first poll of the task: both intervals tick at once.
KeepStart(e) ==
  /\ keep_pc[e] = "start" /\ ping_in[e] = 0
  /\ keep_pc' = [keep_pc EXCEPT ![e] = IF config[e].enable_keep_alive
                                         THEN "select" ELSE "off"]
  /\ UNCHANGED <<config, timers, data_received, closed, flight, stalled, alive,
                 history>>

\* ping_interval ticks: a NOP is sent, or has to wait for room in the channel.
KeepPing(e) ==
  /\ Live(e) /\ keep_pc[e] = "select"
  /\ ping_in[e] <= 0
  /\ ping_in' = [ping_in EXCEPT ![e] = @ + Interval(e)]
  /\ \/ e \notin stalled /\ Put(e, "frame") /\ UNCHANGED keep_pc
     \/ /\ e \in stalled
        /\ keep_pc' = [keep_pc EXCEPT ![e] = "ping"]
        /\ UNCHANGED flight
  /\ UNCHANGED <<config, timeout_in, data_received, closed, stalled, alive,
                 history>>

KeepPingResume(e) ==
  /\ Live(e) /\ keep_pc[e] = "ping"
  /\ e \notin stalled
  /\ Put(e, "frame")
  /\ keep_pc' = [keep_pc EXCEPT ![e] = "select"]
  /\ UNCHANGED <<config, timers, data_received, closed, stalled, alive, history>>

\* Tokens are there unless the receive buffer is 0 (NeverThrottled in
\* SessionProofs, NobodyReturnsTokens in SessionProperties).
TimedOut(e) == ~data_received[e] /\ config[e].max_receive_buffer > 0

\* What a timeout does.  send_loop, if it is stuck, does not drop the transport.
TimeoutCloses(e) ==
  /\ closed' = [closed EXCEPT ![e] = TRUE]
  /\ timed_out' = timed_out \cup {e}
  /\ IF e \in stalled THEN UNCHANGED flight ELSE Put(e, "end")

TimeoutTick(e) ==
  /\ Live(e) /\ keep_pc[e] = "select"
  /\ timeout_in[e] <= 0
  /\ timeout_in' = [timeout_in EXCEPT ![e] = @ + Timeout(e)]
  /\ late' = IF timeout_in[e] < 0 THEN late \cup {e} ELSE late \ {e}
  /\ \/ TimedOut(e) /\ TimeoutCloses(e)
     \/ ~TimedOut(e) /\ UNCHANGED <<closed, timed_out, flight>>
  /\ UNCHANGED <<config, keep_pc, ping_in, stalled, alive, silence, stalls>>

\* Mutant: the flag is read and not reset.
KeepTimeoutNoReset(e) == TimeoutTick(e) /\ UNCHANGED data_received

\* timeout_interval ticks: check_and_reset_data_received().
KeepTimeout(e) ==
  TimeoutTick(e) /\ data_received' = [data_received EXCEPT ![e] = FALSE]

-----------------------------------------------------------------------------
(* Time passes when nothing is due. *)

TaskReady(e) ==
  \/ keep_pc[e] = "start" /\ ping_in[e] = 0
  \/ Live(e) /\ keep_pc[e] = "select" /\ (ping_in[e] <= 0 \/ timeout_in[e] <= 0)
  \/ Live(e) /\ keep_pc[e] = "ping" /\ e \notin stalled

FrameDue(e) ==
  /\ Live(e) /\ flight[Peer(e)] # << >> /\ Peer(e) \notin stalled
  /\ Head(flight[Peer(e)]).left = 0

Down(t, floor) == IF t > floor THEN t - 1 ELSE t

Tick ==
  /\ \A e \in Sides : ~TaskReady(e) /\ ~FrameDue(e)
  /\ \E e \in Sides : Live(e)
  /\ ping_in' = [e \in Sides |-> IF keep_pc[e] = "off" \/ ~alive[e] \/ closed[e]
                                   THEN ping_in[e] ELSE Down(ping_in[e], -MaxLag(e))]
  /\ timeout_in' = [e \in Sides |-> IF Live(e) /\ keep_pc[e] # "off"
                                      THEN Down(timeout_in[e], -MaxLag(e))
                                      ELSE timeout_in[e]]
  /\ flight' = [e \in Sides |-> [i \in DOMAIN flight[e] |->
                  [flight[e][i] EXCEPT !.left = Down(@, 0)]]]
  /\ silence' = [e \in Sides |-> IF Live(e) /\ silence[e] <= 2 * Timeout(e)
                                   THEN silence[e] + 1 ELSE silence[e]]
  /\ UNCHANGED <<config, keep_pc, data_received, closed, stalled, alive, late,
                 timed_out, stalls>>

-----------------------------------------------------------------------------
\* Mutant: data_received starts false.
InitFlag == FALSE

\* SessionState::new: "Start with true to avoid immediate timeout".
InitialFlag == TRUE

Init ==
  /\ config \in [Sides -> Configs]
  /\ keep_pc = [e \in Sides |-> "start"]
  /\ ping_in \in {[e \in Sides |-> IF e = first THEN 0 ELSE skew] :
                    first \in Sides, skew \in 0..MaxSkew}
  /\ timeout_in = [e \in Sides |-> 0]
  /\ data_received = [e \in Sides |-> InitialFlag]
  /\ closed = [e \in Sides |-> FALSE]
  /\ flight = [e \in Sides |-> << >>]
  /\ stalled = {} /\ alive = [e \in Sides |-> TRUE]
  /\ silence = [e \in Sides |-> 0]
  /\ late = {} /\ timed_out = {} /\ stalls = {}

KeepAliveLoop(e) ==
  KeepStart(e) \/ KeepPing(e) \/ KeepPingResume(e) \/ KeepTimeout(e)

Next ==
  \/ \E e \in Sides :
       \/ KeepAliveLoop(e) \/ Deliver(e) \/ DeliverEnd(e)
       \/ Stall(e) \/ Unstall(e) \/ Die(e)
  \/ Tick

Spec == Init /\ [][Next]_vars

-----------------------------------------------------------------------------
(* Properties *)

\* A session that closes for a timeout has heard nothing for at least
\* keep_alive_timeout, unless this tick of timeout_interval or the one before
\* came late, because a ping had to wait for room: then the ticks are closer
\* together, and the frames between them fewer, than the timeout says.
TimeoutIsSilence ==
  [][\A e \in timed_out' \ timed_out :
       silence[e] >= Timeout(e) \/ e \in late \/ timeout_in[e] < 0]_vars

\* A session that hears nothing closes within twice keep_alive_timeout, unless
\* its own ping is waiting for room, which keeps it from looking.
SilenceIsNoticed ==
  \A e \in Sides :
    (Live(e) /\ config[e].enable_keep_alive /\ config[e].max_receive_buffer > 0) =>
      silence[e] <= 2 * Timeout(e) \/ keep_pc[e] = "ping" \/ timeout_in[e] <= 0

\* The pings of the peer are frequent enough for the timeout of e.
Compatible(e) ==
  /\ config[Peer(e)].enable_keep_alive
  /\ config[Peer(e)].keep_alive_interval + MaxDelay < Timeout(e)
  /\ MaxSkew + MaxDelay < Timeout(e)

\* An idle session whose peer lives and pings often enough is never closed for
\* a timeout, whatever the phases of the four intervals and the delays.
IdleStaysUp ==
  \A e \in timed_out : Compatible(e) => ~alive[Peer(e)] \/ stalls # {}

\* specs/005-session.md, Keep-Alive: "If no frames (of any kind) are received
\* from the peer within `config.keep_alive_timeout`, the session will be
\* closed. This ensures that dead connections are detected and cleaned up."
\* Here with twice that time.
DeadPeerDetected ==
  \A e \in Sides :
    (Live(e) /\ config[e].enable_keep_alive) => silence[e] <= 2 * Timeout(e)
==============================================================================
