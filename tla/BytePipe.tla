------------------------------ MODULE BytePipe -------------------------------
(***************************************************************************)
(* What a Stream promises (specs/006-stream.md: an "ordered, reliable,     *)
(* bidirectional byte stream"): two pipes of bytes per stream, one per     *)
(* writing end, each of which can be finished by its writer and only then, *)
(* and only once drained, ends for its reader.  Bytes are the positions at *)
(* which they were written.  A pipe may stop at any time: sessions close   *)
(* and connections break.                                                  *)
(***************************************************************************)
EXTENDS Naturals, Sequences

CONSTANTS Writers, Ids

VARIABLES
  written,    \* number of bytes accepted from the writer
  finished,   \* the pipes closed by their writers
  delivered,  \* the bytes handed to the reader
  ended       \* the pipes on which the reader has seen the end

vars == <<written, finished, delivered, ended>>

FirstBytes(n) == [k \in 1..n |-> k]

Init ==
  /\ written = [w \in Writers |-> [id \in Ids |-> 0]]
  /\ finished = [w \in Writers |-> {}]
  /\ delivered = [w \in Writers |-> [id \in Ids |-> << >>]]
  /\ ended = [w \in Writers |-> {}]

Write(w, id) ==
  /\ id \notin finished[w]
  /\ written' = [written EXCEPT ![w][id] = written'[w][id]]
  /\ written'[w][id] > written[w][id]
  /\ UNCHANGED <<finished, delivered, ended>>

Finish(w, id) ==
  /\ finished' = [finished EXCEPT ![w] = @ \cup {id}]
  /\ UNCHANGED <<written, delivered, ended>>

Deliver(w, id) ==
  /\ id \notin ended[w]
  /\ \E n \in (Len(delivered[w][id]) + 1)..written[w][id] :
       delivered' = [delivered EXCEPT ![w][id] = FirstBytes(n)]
  /\ UNCHANGED <<written, finished, ended>>

End(w, id) ==
  /\ id \in finished[w]
  /\ Len(delivered[w][id]) = written[w][id]
  /\ ended' = [ended EXCEPT ![w] = @ \cup {id}]
  /\ UNCHANGED <<written, finished, delivered>>

Next ==
  \E w \in Writers, id \in Ids :
    Write(w, id) \/ Finish(w, id) \/ Deliver(w, id) \/ End(w, id)

Spec == Init /\ [][Next]_vars
==============================================================================
