------------------------------- MODULE MCCodec -------------------------------
(* CodecProperties with small constants. *)
EXTENDS CodecProperties

SizeVersion(size, version) ==
  SetField(SetField(BuilderNew, "max_frame_size", size), "version", version)

\* Too small for a header; for an UPD; just enough for the longest frame below.
SmallConfigs ==
  Build({SizeVersion(7, 2), SizeVersion(15, 1), SizeVersion(17, 2)})

TwoIds == {0, 258}
ShortPayloads == {<<2, 0, 255>>, [i \in 1..9 |-> i]}
OneUpdate == {[consumed |-> 65537, window |-> 300]}

\* An unknown command, a length above every limit, version 0, a SYN with data,
\* a NOP with an id, and UPDs of version 1 and with 7 bytes.
Malformed ==
  {<<1, 5, 0, 0, 1, 0, 0, 0>>, <<1, 2, 0, 1, 1, 0, 0, 0>>,
   <<0, 0, 0, 0, 1, 0, 0, 0>>, <<1, 0, 1, 0, 1, 0, 0, 0, 9>>,
   <<1, 3, 0, 0, 1, 0, 0, 0>>, <<1, 4, 1, 0, 1, 0, 0, 0, 9>>,
   <<2, 4, 7, 0, 1, 0, 0, 0, 1, 2, 3, 4, 5, 6, 7>>}

\* A payload one byte longer than the u16 length field can say.
LargeConfigs == Build({SizeVersion(70000, 1)})
LargePayloads == {[i \in 1..65536 |-> 7]}
OneId == {1}
==============================================================================
