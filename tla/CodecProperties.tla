--------------------------- MODULE CodecProperties ---------------------------
(* What the model of Codec.tla is checked for. *)
EXTENDS Codec

\* In whatever pieces the bytes arrive, the frames recv_loop gets are those
\* that were encoded, in their order and complete with version, id, data and
\* UPD numbers; nothing behind a malformed frame is taken for a frame.
FF == INSTANCE FrameFifo WITH
  Message <- {NotAFrame} \cup UNION {FramesOf(c.version) : c \in Configs},
  sent <- written, delivered <- decoded
ImplementsFrameFifo == FF!Spec

\* The same of the frames alone: those decoded are the first of those encoded.
DecodedInOrder ==
  Len(decoded) <= Len(written) /\ decoded = SubSeq(written, 1, Len(decoded))

\* decode() takes exactly the bytes of the frames it returns, so it never loses
\* the frame boundary; the end of the connection is an end to recv_loop only
\* on a boundary, and an error inside a frame.
OnBoundary ==
  /\ receiver # "failed" =>
       consumed = (IF decoded = << >> THEN 0 ELSE ends[Len(decoded)])
  /\ receiver = "ended" => consumed = Len(bytes)

\* decode() fails at the first frame that deserves it and at no other: one of
\* a foreign peer, one above the reader's own max_frame_size (the ends need not
\* agree on it), or one cut short by the end of the connection.
FailureHasCause ==
  receiver = "failed" =>
    LET k == Len(decoded) + 1
    IN  /\ k <= Len(written)
        /\ \/ written[k] = NotAFrame
           \/ HEADER_SIZE + Len(Payload(written[k])) > dec.max_frame_size
           \/ ends[k] > Len(bytes)

\* Every frame that was encoded is decoded, in however many pieces it arrives,
\* unless the decoder fails or the connection ends before its last byte.
EventuallyDecoded ==
  <>[](\/ decoded = written
       \/ receiver = "failed"
       \/ ends[Len(decoded) + 1] > Len(bytes))
==============================================================================
