---------------------------- MODULE IdAllocation -----------------------------
(***************************************************************************)
(* SessionInner::next_stream_id as a component of its own: the counter of  *)
(* each end, and the ids its open_stream calls were given.  The counter is *)
(* advanced before the overflow test and is never stopped, so calls made   *)
(* after an overflow error are part of the model.                          *)
(***************************************************************************)
EXTENDS StreamIds, Sequences

CONSTANT MaxCalls  \* bound: calls of next_stream_id per end

ASSUME MaxCallsAssumption == MaxCalls \in Nat

VARIABLES
  next_stream_id,  \* the AtomicU32 of each end
  issued,          \* history: the ids returned with Ok, in order
  calls,           \* history: the number of calls made
  overflowed       \* history: some call returned the overflow error

vars == <<next_stream_id, issued, calls, overflowed>>

Init ==
  /\ next_stream_id = [e \in Sides |-> InitialId(e)]
  /\ issued = [e \in Sides |-> << >>]
  /\ calls = [e \in Sides |-> 0]
  /\ overflowed = [e \in Sides |-> FALSE]

\* Mutant: the counter advances by one, as if the ends did not share the ids.
NextStreamIdByOne(e) ==
  /\ calls[e] < MaxCalls
  /\ calls' = [calls EXCEPT ![e] = @ + 1]
  /\ next_stream_id' = [next_stream_id EXCEPT ![e] = (@ + 1) % (U32Max + 1)]
  /\ issued' = [issued EXCEPT ![e] = Append(@, next_stream_id[e])]
  /\ UNCHANGED overflowed

\* Mutant: the overflow test is missing.
NextStreamIdUnchecked(e) ==
  /\ calls[e] < MaxCalls
  /\ calls' = [calls EXCEPT ![e] = @ + 1]
  /\ next_stream_id' = [next_stream_id EXCEPT ![e] = FetchAdd2(@)]
  /\ issued' = [issued EXCEPT ![e] = Append(@, next_stream_id[e])]
  /\ UNCHANGED overflowed

\* next_stream_id(): take the counter's old value, then test it.
NextStreamId(e) ==
  /\ calls[e] < MaxCalls
  /\ calls' = [calls EXCEPT ![e] = @ + 1]
  /\ next_stream_id' = [next_stream_id EXCEPT ![e] = FetchAdd2(@)]
  /\ IF Overflows(next_stream_id[e])
       THEN /\ overflowed' = [overflowed EXCEPT ![e] = TRUE]
            /\ UNCHANGED issued
       ELSE /\ issued' = [issued EXCEPT ![e] = Append(@, next_stream_id[e])]
            /\ UNCHANGED overflowed

Next == \E e \in Sides : NextStreamId(e)

Spec == Init /\ [][Next]_vars

-----------------------------------------------------------------------------
TypeOK ==
  /\ next_stream_id \in [Sides -> StreamId]
  /\ issued \in [Sides -> Seq(StreamId)]
  /\ calls \in [Sides -> 0..MaxCalls]
  /\ overflowed \in [Sides -> BOOLEAN]

\* The ids an end has handed out: no two calls share one.
Distinct(s) == \A i, j \in 1..Len(s) : s[i] = s[j] => i = j

\* Until next_stream_id() first reports an overflow, every id it returned is
\* new and is one the other end's validate_peer_stream_id() accepts: neither
\* a reused id nor id 0 can be in a SYN.
FreshUntilOverflow ==
  \A e \in Sides : ~overflowed[e] =>
    /\ Distinct(issued[e])
    /\ \A i \in 1..Len(issued[e]) : ValidPeerId(Peer(e), issued[e][i])

\* The two ends never allocate the same id, not even once their counters have
\* wrapped around: fetch_add(2) keeps the parity across the wrap.
EndsDisjoint ==
  \A i \in 1..Len(issued["client"]), j \in 1..Len(issued["server"]) :
    issued["client"][i] # issued["server"][j]
==============================================================================
