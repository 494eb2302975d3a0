------------------------------ MODULE StreamIds ------------------------------
(***************************************************************************)
(* Stream identifiers (session.rs): the parity convention of the two ends  *)
(* of a connection, the AtomicU32 counter and the check a session makes on *)
(* the id of an incoming SYN.                                              *)
(***************************************************************************)
EXTENDS Integers

CONSTANT U32Max  \* u32::MAX; smaller in a model, but still 2^w - 1

\* A counter of width w >= 2: its maximum is odd, its modulus even.
ASSUME U32MaxAssumption == U32Max \in Nat /\ U32Max >= 3 /\ U32Max % 2 = 1

Sides == {"client", "server"}
Peer(e) == IF e = "client" THEN "server" ELSE "client"

StreamId == 0..U32Max

\* Session::new: clients count from 1, servers from 2.
InitialId(e) == IF e = "client" THEN 1 ELSE 2

\* Mutant: a counter that does not wrap.
FetchAdd2Unwrapped(id) == id + 2

\* fetch_add(2) on an AtomicU32 wraps around.
FetchAdd2(id) == (id + 2) % (U32Max + 1)

\* next_stream_id() reports "Stream ID overflow" for this counter value.
Overflows(id) == id > U32Max - 2

\* Mutant: only id 0 is refused.
ValidPeerIdAnyParity(e, id) == id # 0

\* validate_peer_stream_id(): session e accepts a SYN with this id.
ValidPeerId(e, id) == id # 0 /\ id % 2 = (IF e = "client" THEN 0 ELSE 1)
==============================================================================
