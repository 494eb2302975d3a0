------------------------------ MODULE FrameFifo ------------------------------
(* What a direction of a session takes its transport to be: frames arrive     *)
(* whole, once and in the order they were sent, as far as they arrive.        *)
EXTENDS Naturals, Sequences

CONSTANT Message
VARIABLES sent, delivered

Init == sent = << >> /\ delivered = << >>

Send ==
  /\ \E m \in Message : sent' = Append(sent, m)
  /\ UNCHANGED delivered

Deliver ==
  /\ Len(delivered) < Len(sent)
  /\ delivered' = Append(delivered, sent[Len(delivered) + 1])
  /\ UNCHANGED sent

Next == Send \/ Deliver

Spec == Init /\ [][Next]_<<sent, delivered>>
==============================================================================
