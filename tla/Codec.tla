-------------------------------- MODULE Codec --------------------------------
(***************************************************************************)
(* The codec (codec.rs, command.rs, frame.rs) between the byte stream of   *)
(* the transport and the frames of send_loop and recv_loop, in one         *)
(* direction.  The encoder appends the bytes of a frame; the transport     *)
(* hands them to the decoder's buffer in pieces of any length, and the     *)
(* decoder takes frames from it.  Bytes and widths are the real ones.      *)
(***************************************************************************)
EXTENDS Config, Sequences

CONSTANTS
  Configs,       \* configurations the two ends may have
  Ids,           \* stream ids in the frames the writer is given
  Payloads,      \* payloads of its PSH frames, as sequences of bytes
  Updates,       \* consumed and window of its UPD frames
  ForeignItems,  \* bytes of malformed frames another implementation may write
  PieceSizes,    \* how many bytes one read of the transport brings
  MayHangup,     \* whether the connection may end
  MaxFrames      \* bound: frames written

\* The types the code gives them: u8 versions and bytes, u32 ids and UPD
\* numbers (four bytes); a read that brings nothing is ReadEof.
IsU32(n) == n \in Nat /\ n \div 16777216 <= 255
ASSUME IdsAssumption == \A id \in Ids : IsU32(id)
ASSUME ConfigsAssumption == Configs \subseteq ConfigRecord
ASSUME PayloadsAssumption == Payloads \subseteq Seq(0..255)
ASSUME UpdatesAssumption ==
  /\ Updates \subseteq [consumed : Nat, window : Nat]
  /\ \A u \in Updates : IsU32(u.consumed) /\ IsU32(u.window)
ASSUME ForeignAssumption == ForeignItems \subseteq Seq(0..255)
ASSUME PiecesAssumption == PieceSizes \subseteq Nat \ {0}

VARIABLES
  enc, dec,      \* Codec::config of the writing and of the reading end
  bytes,         \* all bytes the transport carries
  arrived,       \* how many of them have been read into the decoder's buffer
  consumed,      \* how many of those the decoder has taken out of it
  is_readable,   \* FramedRead: the buffer may hold a frame
  sender,        \* "open", or "closed": nothing more is written
  receiver,      \* recv_loop: "open", "ended" (None), "failed" (Some(Err))
  written,       \* history: the frames encoded, NotAFrame for a foreign item
  ends,          \* history: where in bytes each of them ends
  decoded        \* history: the frames handed to recv_loop

vars == <<enc, dec, bytes, arrived, consumed, is_readable, sender, receiver,
          written, ends, decoded>>

-----------------------------------------------------------------------------
(* Commands and frames *)

HEADER_SIZE == 8

to_byte == [SYN |-> 0, FIN |-> 1, PSH |-> 2, NOP |-> 3, UPD |-> 4]
Commands == DOMAIN to_byte
from_byte(b) == CHOOSE cmd \in Commands : to_byte[cmd] = b
KnownByte(b) == \E cmd \in Commands : to_byte[cmd] = b

is_control(cmd) == cmd \in {"SYN", "FIN", "NOP", "UPD"}
requires_v2(cmd) == cmd = "UPD"

Frame(version, cmd, stream_id, data, upd) ==
  [version |-> version, cmd |-> cmd, stream_id |-> stream_id, data |-> data,
   upd |-> upd]
NoUpd == [consumed |-> 0, window |-> 0]
new_syn(v, id)       == Frame(v, "SYN", id, << >>, NoUpd)
new_fin(v, id)       == Frame(v, "FIN", id, << >>, NoUpd)
new_psh(v, id, data) == Frame(v, "PSH", id, data, NoUpd)
new_nop(v)           == Frame(v, "NOP", 0, << >>, NoUpd)
new_upd(v, id, upd)  == Frame(v, "UPD", id, << >>, upd)

total_size(f) == HEADER_SIZE + Len(f.data)

validate_stream_id(f) == (f.cmd = "NOP") <=> (f.stream_id = 0)

validate(f, config) ==
  /\ f.version # 0
  /\ requires_v2(f.cmd) => f.version >= 2
  /\ total_size(f) <= config.max_frame_size
  /\ is_control(f.cmd) => f.data = << >>
  /\ validate_stream_id(f)

-----------------------------------------------------------------------------
(* Encoding *)

put_u16_le(n) == <<n % 256, (n \div 256) % 256>>
put_u32_le(n) == <<n % 256, (n \div 256) % 256, (n \div 65536) % 256,
                   (n \div 16777216) % 256>>

encode_upd_data(upd) == put_u32_le(upd.consumed) \o put_u32_le(upd.window)

\* The data part on the wire; a UPD frame carries its two numbers there.
Payload(f) ==
  IF f.cmd = "UPD" /\ f.version >= 2 THEN encode_upd_data(f.upd) ELSE f.data

\* `as u16`: the length field is the low 16 bits of the length.
Length(f) == Len(Payload(f)) % 65536

encode_header(f) ==
  <<f.version, to_byte[f.cmd]>> \o put_u16_le(Length(f)) \o put_u32_le(f.stream_id)

Encoded(f) == encode_header(f) \o Payload(f)

\* encode() returns Ok.
Encodable(f, config) ==
  /\ validate(f, config)
  /\ HEADER_SIZE + Length(f) <= config.max_frame_size

-----------------------------------------------------------------------------
(* Decoding: what decode() makes of the bytes src of its buffer *)

get_u16_le(b, i) == b[i] + 256 * b[i + 1]
get_u32_le(b, i) ==
  b[i] + 256 * b[i + 1] + 65536 * b[i + 2] + 16777216 * b[i + 3]

decode_header(src) ==
  [version |-> src[1], byte |-> src[2], length |-> get_u16_le(src, 3),
   stream_id |-> get_u32_le(src, 5)]

FrameSize(src) == HEADER_SIZE + decode_header(src).length

\* Mutant: the size limit is off by one.
HeaderRefusedAtLimit(src, config) ==
  /\ Len(src) >= HEADER_SIZE
  /\ \/ ~KnownByte(decode_header(src).byte)
     \/ FrameSize(src) >= config.max_frame_size

\* The header is judged as soon as it is there.
HeaderRefused(src, config) ==
  /\ Len(src) >= HEADER_SIZE
  /\ \/ ~KnownByte(decode_header(src).byte)
     \/ FrameSize(src) > config.max_frame_size

\* Mutant: a frame is waited for although its last byte is there.
CompleteAndMore(src) == Len(src) >= HEADER_SIZE /\ Len(src) > FrameSize(src)

Complete(src) == Len(src) >= HEADER_SIZE /\ Len(src) >= FrameSize(src)

Data(src) == SubSeq(src, HEADER_SIZE + 1, FrameSize(src))

\* Mutant: the two numbers of an UPD are taken in the wrong order.
decode_upd_swapped(data) ==
  [consumed |-> get_u32_le(data, 5), window |-> get_u32_le(data, 1)]

decode_upd_data(data) ==
  [consumed |-> get_u32_le(data, 1), window |-> get_u32_le(data, 5)]

\* An UPD of version 2 needs exactly 8 bytes of data.
UpdRefused(src) ==
  LET h == decode_header(src)
  IN  from_byte(h.byte) = "UPD" /\ h.version >= 2 /\ h.length # 8

\* The frame at the head of src; an UPD keeps its numbers and no data.
Decoded(src) ==
  LET h == decode_header(src)
      cmd == from_byte(h.byte)
  IN  Frame(h.version, cmd, h.stream_id,
            IF cmd = "UPD" THEN << >> ELSE Data(src),
            IF cmd = "UPD" /\ h.version >= 2 THEN decode_upd_data(Data(src))
                                             ELSE NoUpd)

\* decode() returns a frame; or an error; or it wants more bytes.
Decodable(src, config) ==
  /\ ~HeaderRefused(src, config) /\ Complete(src)
  /\ ~UpdRefused(src)
  /\ validate(Decoded(src), config)

Refused(src, config) ==
  HeaderRefused(src, config) \/ (Complete(src) /\ ~Decodable(src, config))

-----------------------------------------------------------------------------
(* The writing end *)

NotAFrame == Frame(0, "NOP", 0, << >>, NoUpd)

\* The frames of a session with version v: a Stream writes 1 into its PSH and
\* FIN frames whatever the version is.
FramesOf(v) ==
  {new_syn(v, id) : id \in Ids} \cup {new_fin(1, id) : id \in Ids}
    \cup {new_psh(1, id, data) : id \in Ids, data \in Payloads}
    \cup {new_upd(v, id, upd) : id \in Ids, upd \in Updates}
    \cup {new_nop(v)}

Write(item, frame) ==
  /\ bytes' = bytes \o item
  /\ written' = Append(written, frame)
  /\ ends' = Append(ends, Len(bytes'))
  /\ UNCHANGED sender

\* sink.send(frame): the encoder's error ends send_loop.
Encode(f) ==
  /\ sender = "open" /\ Len(written) < MaxFrames
  /\ \/ Encodable(f, enc) /\ Write(Encoded(f), f)
     \/ /\ ~Encodable(f, enc)
        /\ sender' = "closed"
        /\ UNCHANGED <<bytes, written, ends>>
  /\ UNCHANGED <<enc, dec, arrived, consumed, is_readable, receiver, decoded>>

ForeignWrite(item) ==
  /\ sender = "open" /\ Len(written) < MaxFrames
  /\ Write(item, NotAFrame)
  /\ UNCHANGED <<enc, dec, arrived, consumed, is_readable, receiver, decoded>>

\* The writer is gone, and with it what it had not flushed: the bytes after n.
Hangup(n) ==
  /\ sender' = "closed"
  /\ sender = "open"
  /\ bytes' = SubSeq(bytes, 1, n)
  /\ UNCHANGED <<enc, dec, arrived, consumed, is_readable, receiver, written,
                 ends, decoded>>

-----------------------------------------------------------------------------
(* The reading end: stream.next() of recv_loop, until it returns None or an   *)
(* error.  FramedRead decodes until decode() wants more, then reads.          *)

Src == SubSeq(bytes, consumed + 1, arrived)

\* Mutant: the data of an UPD stays in the buffer.
TakenWithoutUpd(src) ==
  IF from_byte(decode_header(src).byte) = "UPD" THEN HEADER_SIZE ELSE FrameSize(src)

\* decode() takes the header and the data out of the buffer.
Taken(src) == FrameSize(src)

Decode ==
  /\ receiver = "open" /\ is_readable
  /\ \/ /\ ~HeaderRefused(Src, dec) /\ ~Complete(Src) \* Ok(None)
        /\ is_readable' = FALSE
        /\ UNCHANGED <<consumed, decoded, receiver>>
     \/ /\ Decodable(Src, dec) \* Ok(Some(frame))
        /\ decoded' = Append(decoded, Decoded(Src))
        /\ consumed' = consumed + Taken(Src)
        /\ UNCHANGED <<is_readable, receiver>>
     \/ /\ Refused(Src, dec) \* Err: recv_loop ends
        /\ receiver' = "failed"
        /\ consumed' = IF HeaderRefused(Src, dec) THEN consumed
                                                  ELSE consumed + Taken(Src)
        /\ UNCHANGED <<decoded, is_readable>>
  /\ UNCHANGED <<enc, dec, bytes, arrived, sender, written, ends>>

\* The transport has n more bytes, or fewer.
Read(n) ==
  /\ receiver = "open" /\ ~is_readable
  /\ arrived < Len(bytes)
  /\ arrived' = IF arrived + n < Len(bytes) THEN arrived + n ELSE Len(bytes)
  /\ is_readable' = TRUE
  /\ UNCHANGED <<enc, dec, bytes, consumed, sender, receiver, written, ends,
                 decoded>>

\* decode_eof(): bytes that are left over are an error.
ReadEof ==
  /\ receiver = "open" /\ ~is_readable
  /\ sender = "closed" /\ arrived = Len(bytes)
  /\ receiver' = IF consumed = arrived THEN "ended" ELSE "failed"
  /\ UNCHANGED <<enc, dec, bytes, arrived, consumed, is_readable, sender,
                 written, ends, decoded>>

-----------------------------------------------------------------------------
\* Codec::new for both ends, on a new connection.
Init ==
  /\ enc \in Configs /\ dec \in Configs
  /\ bytes = << >> /\ arrived = 0 /\ consumed = 0
  /\ is_readable = FALSE
  /\ sender = "open" /\ receiver = "open"
  /\ written = << >> /\ ends = << >> /\ decoded = << >>

Receive == Decode \/ (\E n \in PieceSizes : Read(n)) \/ ReadEof

Next ==
  \/ \E f \in FramesOf(enc.version) : Encode(f)
  \/ \E item \in ForeignItems : ForeignWrite(item)
  \/ MayHangup /\ \E n \in arrived..Len(bytes) : Hangup(n)
  \/ Receive

Spec == Init /\ [][Next]_vars

\* recv_loop goes on polling stream.next().
FairSpec == Spec /\ WF_vars(Receive)
==============================================================================
