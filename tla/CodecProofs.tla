----------------------------- MODULE CodecProofs -----------------------------
(***************************************************************************)
(* Theorems about Codec.tla, for any configurations of the two ends, any   *)
(* frames, any malformed items, any pieces and any end of the connection.  *)
(*                                                                         *)
(* The argument: an encoded frame decodes to itself (FrameRoundTrip), and  *)
(* decode() judges its buffer by the item at its head alone (JudgedByItem).*)
(* The invariant CodecInv says that the bytes are the items one behind the *)
(* other, as far as the connection carried them, and that the decoder      *)
(* stands at the beginning of the first item it has not decoded; so what   *)
(* it does next depends on that item and on nothing else (HeadItem).       *)
(***************************************************************************)
EXTENDS CodecProperties, SequenceTheorems, TLAPS

Byte == 0..255

\* The hypotheses of the theorems.  The length of every payload that passes
\* the size limit fits in the u16 of the header: where it does not, the frames
\* that are decoded are not the frames that were encoded.
LengthsFit ==
  \A c \in Configs : \A data \in Payloads :
    HEADER_SIZE + Len(data) <= c.max_frame_size => Len(data) < 65536

\* A foreign item is malformed to every reader: decode() refuses it.
ForeignMalformed == \A item \in ForeignItems : \A c \in Configs : Refused(item, c)

Message == {NotAFrame} \cup UNION {FramesOf(c.version) : c \in Configs}

(* The inductive invariant *)

TypeOK ==
  /\ enc \in Configs /\ dec \in Configs
  /\ bytes \in Seq(Byte)
  /\ arrived \in 0..Len(bytes) /\ consumed \in Nat
  /\ is_readable \in BOOLEAN
  /\ sender \in {"open", "closed"}
  /\ receiver \in {"open", "ended", "failed"}
  /\ written \in Seq(Message) /\ decoded \in Seq(Message)
  /\ ends \in Seq(Nat) /\ Len(ends) = Len(written)

\* Where the k-th item ends; the first one begins at 0.
End(k) == IF k = 0 THEN 0 ELSE ends[k]

\* The bytes an entry of written stands for.
IsItem(t, f) ==
  \/ f = NotAFrame /\ t \in ForeignItems
  \/ f \in FramesOf(enc.version) /\ Encodable(f, enc) /\ t = Encoded(f)

\* The k-th item lies between the end of the one before it and its own, as far
\* as the connection carried it.
LaidOut(k, t) ==
  /\ IsItem(t, written[k])
  /\ ends[k] = End(k - 1) + Len(t)
  /\ \A i \in 1..Len(t) :
       End(k - 1) + i <= Len(bytes) => bytes[End(k - 1) + i] = t[i]

ItemsLaidOut ==
  \A k \in 1..Len(written) :
    \E t \in ForeignItems \cup {Encoded(written[k])} : LaidOut(k, t)

\* There are no bytes behind the items, and while the connection is up none is
\* missing.
NothingBehind ==
  /\ Len(bytes) <= End(Len(written))
  /\ sender = "open" =>
       /\ Len(bytes) = End(Len(written))
       /\ \A k \in 1..Len(ends) : ends[k] <= Len(bytes)

InOrder ==
  /\ Len(decoded) <= Len(written)
  /\ \A i \in 1..Len(decoded) : decoded[i] = written[i]

\* The decoder stands where the last frame it returned ends.
AtBoundary ==
  receiver # "failed" => consumed = End(Len(decoded)) /\ consumed <= arrived

\* FramedRead reads only when decode() can make nothing of its buffer.
WaitsForMore ==
  receiver = "open" /\ ~is_readable =>
    ~HeaderRefused(Src, dec) /\ ~Complete(Src)

EndedAtEnd == receiver = "ended" => sender = "closed" /\ consumed = Len(bytes)

CodecInv ==
  /\ TypeOK /\ ItemsLaidOut /\ NothingBehind /\ InOrder
  /\ AtBoundary /\ WaitsForMore /\ EndedAtEnd /\ FailureHasCause

-----------------------------------------------------------------------------
(* Numbers and bytes *)

LEMMA U16RoundTrip ==
  ASSUME NEW n \in Nat
  PROVE  /\ n % 256 \in Byte
         /\ (n \div 256) % 256 \in Byte
         /\ n < 65536 => (n % 256) + 256 * ((n \div 256) % 256) = n
  BY SMT DEF Byte

LEMMA U32Bytes ==
  ASSUME NEW n \in Nat
  PROVE  /\ n % 256 \in Byte
         /\ (n \div 256) % 256 \in Byte
         /\ (n \div 65536) % 256 \in Byte
         /\ (n \div 16777216) % 256 \in Byte
  BY SMT DEF Byte

LEMMA U32RoundTrip ==
  ASSUME NEW n, IsU32(n)
  PROVE  (n % 256) + 256 * ((n \div 256) % 256) + 65536 * ((n \div 65536) % 256)
           + 16777216 * ((n \div 16777216) % 256) = n
  BY SMT DEF IsU32

LEMMA CommandSet == Commands = {"SYN", "FIN", "PSH", "NOP", "UPD"}
  BY DEF Commands, to_byte

\* command.rs: from_byte() is the inverse of to_byte().
LEMMA CommandRoundTrip ==
  ASSUME NEW cmd \in Commands
  PROVE  /\ to_byte[cmd] \in Byte
         /\ KnownByte(to_byte[cmd])
         /\ from_byte(to_byte[cmd]) = cmd
<1>1. \A a, b \in Commands : to_byte[a] = to_byte[b] => a = b
  BY CommandSet DEF to_byte
<1>2. to_byte[cmd] \in Byte
  BY CommandSet DEF to_byte, Byte
<1>3. from_byte(to_byte[cmd]) = cmd
  BY <1>1 DEF from_byte
<1> QED
  BY <1>2, <1>3 DEF KnownByte

\* What a frame of a session looks like.
IsFrame(f) ==
  /\ f = Frame(f.version, f.cmd, f.stream_id, f.data, f.upd)
  /\ f.version \in Byte /\ f.cmd \in Commands
  /\ IsU32(f.stream_id)
  /\ f.data \in Seq(Byte)
  /\ f.upd \in [consumed : Nat, window : Nat]
  /\ IsU32(f.upd.consumed) /\ IsU32(f.upd.window)
  /\ f.cmd # "UPD" => f.upd = NoUpd
  /\ f.cmd = "PSH" => f.data \in Payloads
  /\ f.cmd # "PSH" => f.data = << >>

LEMMA FramesOfType ==
  ASSUME NEW c \in Configs, NEW f \in FramesOf(c.version)
  PROVE  IsFrame(f)
<1>1. c.version \in Byte
  BY ConfigsAssumption DEF ConfigRecord, Byte
<1>2. NoUpd \in [consumed : Nat, window : Nat] /\ IsU32(NoUpd.consumed)
      /\ IsU32(NoUpd.window)
  BY SMT DEF NoUpd, IsU32
<1>3. << >> \in Seq(Byte) /\ 1 \in Byte /\ 0 \in Byte /\ IsU32(0)
  BY SMT DEF Byte, IsU32
<1>4. \A id \in Ids : IsU32(id)
  BY IdsAssumption
<1>5. \A u \in Updates : /\ u \in [consumed : Nat, window : Nat]
                         /\ IsU32(u.consumed) /\ IsU32(u.window)
  BY UpdatesAssumption
<1>6. CASE \E id \in Ids : f = new_syn(c.version, id)
  BY <1>1, <1>2, <1>3, <1>4, <1>6, CommandSet DEF IsFrame, new_syn, Frame
<1>7. CASE \E id \in Ids : f = new_fin(1, id)
  BY <1>1, <1>2, <1>3, <1>4, <1>7, CommandSet DEF IsFrame, new_fin, Frame
<1>8. CASE \E id \in Ids, data \in Payloads : f = new_psh(1, id, data)
  <2>1. \A p \in Payloads : p \in Seq(Byte)
    BY PayloadsAssumption DEF Byte
  <2> QED
    BY <1>1, <1>2, <1>3, <1>4, <1>8, <2>1, CommandSet DEF IsFrame, new_psh, Frame
<1>9. CASE \E id \in Ids, upd \in Updates : f = new_upd(c.version, id, upd)
  BY <1>1, <1>3, <1>4, <1>5, <1>9, CommandSet DEF IsFrame, new_upd, Frame
<1>10. CASE f = new_nop(c.version)
  BY <1>1, <1>2, <1>3, <1>10, CommandSet DEF IsFrame, new_nop, Frame
<1> QED
  BY <1>6, <1>7, <1>8, <1>9, <1>10 DEF FramesOf

\* The bytes of two pieces put together.
LEMMA TwoWords ==
  ASSUME NEW p \in Seq(Byte), Len(p) = 4, NEW q \in Seq(Byte), Len(q) = 4
  PROVE  /\ p \o q \in Seq(Byte) /\ Len(p \o q) = 8
         /\ (p \o q)[1] = p[1] /\ (p \o q)[2] = p[2]
         /\ (p \o q)[3] = p[3] /\ (p \o q)[4] = p[4]
         /\ (p \o q)[5] = q[1] /\ (p \o q)[6] = q[2]
         /\ (p \o q)[7] = q[3] /\ (p \o q)[8] = q[4]
<1> DEFINE d == p \o q
<1>1. /\ d \in Seq(Byte) /\ Len(d) = Len(p) + Len(q)
      /\ \A i \in 1..Len(p) + Len(q) :
           d[i] = IF i <= Len(p) THEN p[i] ELSE q[i - Len(p)]
  BY ConcatProperties, Zenon
<1> HIDE DEF d
<1>2. /\ d \in Seq(Byte) /\ Len(d) = 8
      /\ \A i \in 1..8 : d[i] = IF i <= 4 THEN p[i] ELSE q[i - 4]
  BY <1>1
<1>3. /\ d[1] = p[1] /\ d[2] = p[2] /\ d[3] = p[3] /\ d[4] = p[4]
  BY <1>2
<1>4. /\ d[5] = q[1] /\ d[6] = q[2] /\ d[7] = q[3] /\ d[8] = q[4]
  BY <1>2
<1> QED
  BY <1>2, <1>3, <1>4 DEF d

\* codec.rs, encode_upd_data: eight bytes, from which the numbers come back.
LEMMA UpdRoundTrip ==
  ASSUME NEW u \in [consumed : Nat, window : Nat],
         IsU32(u.consumed), IsU32(u.window)
  PROVE  /\ encode_upd_data(u) \in Seq(Byte)
         /\ Len(encode_upd_data(u)) = 8
         /\ decode_upd_data(encode_upd_data(u)) = u
<1> DEFINE a == u.consumed
           b == u.window
           p == put_u32_le(a)
           q == put_u32_le(b)
           d == p \o q
<1>1. a \in Nat /\ b \in Nat /\ u = [consumed |-> a, window |-> b]
  OBVIOUS
<1>2. p \in Seq(Byte) /\ Len(p) = 4
  BY <1>1, U32Bytes, SMT DEF put_u32_le
<1>3. /\ p[1] = a % 256 /\ p[2] = (a \div 256) % 256
      /\ p[3] = (a \div 65536) % 256 /\ p[4] = (a \div 16777216) % 256
  BY SMT DEF put_u32_le
<1>4. q \in Seq(Byte) /\ Len(q) = 4
  BY <1>1, U32Bytes, SMT DEF put_u32_le
<1>5. /\ q[1] = b % 256 /\ q[2] = (b \div 256) % 256
      /\ q[3] = (b \div 65536) % 256 /\ q[4] = (b \div 16777216) % 256
  BY SMT DEF put_u32_le
<1> HIDE DEF p, q
<1>6. d \in Seq(Byte) /\ Len(d) = 8
  BY <1>2, <1>4, TwoWords, Zenon
<1>7. /\ d[1] = p[1] /\ d[2] = p[2] /\ d[3] = p[3] /\ d[4] = p[4]
      /\ d[5] = q[1] /\ d[6] = q[2] /\ d[7] = q[3] /\ d[8] = q[4]
  BY <1>2, <1>4, TwoWords, Zenon
<1> HIDE DEF d
<1>8. d[1] + 256 * d[2] + 65536 * d[3] + 16777216 * d[4] = a
  BY <1>1, <1>3, <1>7, U32RoundTrip, SMT
<1>9. d[5] + 256 * d[6] + 65536 * d[7] + 16777216 * d[8] = b
  BY <1>1, <1>5, <1>7, U32RoundTrip, SMT
<1>10. get_u32_le(d, 1) = a /\ get_u32_le(d, 5) = b
  BY <1>8, <1>9, SMT DEF get_u32_le
<1>11. decode_upd_data(d) = u
  BY <1>1, <1>10 DEF decode_upd_data
<1>12. encode_upd_data(u) = d
  BY DEF encode_upd_data, d, p, q
<1> QED
  BY <1>6, <1>11, <1>12

-----------------------------------------------------------------------------
(* What the decoder makes of an encoded frame *)

LEMMA EightBytes ==
  ASSUME NEW b1 \in Byte, NEW b2 \in Byte, NEW b3 \in Byte, NEW b4 \in Byte,
         NEW b5 \in Byte, NEW b6 \in Byte, NEW b7 \in Byte, NEW b8 \in Byte,
         NEW s, s = <<b1, b2>> \o <<b3, b4>> \o <<b5, b6, b7, b8>>
  PROVE  /\ s \in Seq(Byte) /\ Len(s) = 8
         /\ s[1] = b1 /\ s[2] = b2 /\ s[3] = b3 /\ s[4] = b4
         /\ s[5] = b5 /\ s[6] = b6 /\ s[7] = b7 /\ s[8] = b8
  OBVIOUS

LEMMA PayloadType ==
  ASSUME NEW f, IsFrame(f)
  PROVE  /\ Payload(f) \in Seq(Byte) /\ Len(Payload(f)) \in Nat
         /\ f.cmd = "UPD" /\ f.version >= 2 =>
              Len(Payload(f)) = 8 /\ decode_upd_data(Payload(f)) = f.upd
         /\ f.cmd # "UPD" => Payload(f) = f.data
<1>1. /\ encode_upd_data(f.upd) \in Seq(Byte) /\ Len(encode_upd_data(f.upd)) = 8
      /\ decode_upd_data(encode_upd_data(f.upd)) = f.upd
  BY UpdRoundTrip, Zenon DEF IsFrame
<1>2. f.data \in Seq(Byte)
  BY DEF IsFrame
<1>3. Payload(f) \in Seq(Byte)
  BY <1>1, <1>2, Zenon DEF Payload
<1>4. Len(Payload(f)) \in Nat
  BY <1>3, LenProperties, Zenon
<1> QED
  BY <1>1, <1>3, <1>4, Zenon DEF Payload

\* codec.rs, encode_header and decode_header: the fields come back.
LEMMA HeaderRoundTrip ==
  ASSUME NEW f, IsFrame(f)
  PROVE  /\ encode_header(f) \in Seq(Byte) /\ Len(encode_header(f)) = 8
         /\ decode_header(encode_header(f)) =
              [version |-> f.version, byte |-> to_byte[f.cmd],
               length |-> Length(f), stream_id |-> f.stream_id]
<1> DEFINE n == Length(f)
           id == f.stream_id
           h == encode_header(f)
<1>1. Len(Payload(f)) \in Nat
  BY PayloadType, Zenon
<1>2. n \in Nat /\ n < 65536
  BY <1>1, SMT DEF Length
<1>3. IsU32(id) /\ f.version \in Byte /\ to_byte[f.cmd] \in Byte
  BY CommandRoundTrip, Zenon DEF IsFrame
<1>4. id \in Nat
  BY <1>3, SMT DEF IsU32
<1>5. h = <<f.version, to_byte[f.cmd]>> \o <<n % 256, (n \div 256) % 256>>
            \o <<id % 256, (id \div 256) % 256, (id \div 65536) % 256,
                 (id \div 16777216) % 256>>
  BY SMT DEF encode_header, put_u16_le, put_u32_le
<1>6. n % 256 \in Byte /\ (n \div 256) % 256 \in Byte
  BY <1>2, U16RoundTrip, SMT
<1>7. /\ id % 256 \in Byte /\ (id \div 256) % 256 \in Byte
      /\ (id \div 65536) % 256 \in Byte /\ (id \div 16777216) % 256 \in Byte
  BY <1>4, U32Bytes, SMT
<1> HIDE DEF n, id, h
<1>8. /\ h \in Seq(Byte) /\ Len(h) = 8
      /\ h[1] = f.version /\ h[2] = to_byte[f.cmd]
      /\ h[3] = n % 256 /\ h[4] = (n \div 256) % 256
      /\ h[5] = id % 256 /\ h[6] = (id \div 256) % 256
      /\ h[7] = (id \div 65536) % 256 /\ h[8] = (id \div 16777216) % 256
  BY <1>3, <1>5, <1>6, <1>7, EightBytes, SMT
<1>9. get_u16_le(h, 3) = n
  <2>1. (n % 256) + 256 * ((n \div 256) % 256) = n
    BY <1>2, U16RoundTrip, SMT
  <2>2. h[3] = n % 256 /\ h[4] = (n \div 256) % 256
    BY <1>8, SMT
  <2>3. \A x, y \in Byte : x = n % 256 /\ y = (n \div 256) % 256 => x + 256 * y = n
    BY <1>2, <2>1, SMT DEF Byte
  <2>4. h[3] \in Byte /\ h[4] \in Byte
    BY <1>6, <2>2, SMT
  <2>5. h[3] + 256 * h[4] = n
    BY <2>2, <2>3, <2>4, SMT
  <2> QED
    BY <2>5, SMT DEF get_u16_le
<1>10. get_u32_le(h, 5) = id
  BY <1>3, <1>8, U32RoundTrip, SMT DEF get_u32_le
<1>11. h \in Seq(Byte) /\ Len(h) = 8 /\ h[1] = f.version /\ h[2] = to_byte[f.cmd]
  BY <1>8, SMT
<1>12. decode_header(h) = [version |-> f.version, byte |-> to_byte[f.cmd],
                           length |-> n, stream_id |-> id]
  BY <1>9, <1>10, <1>11, Zenon DEF decode_header
<1> QED
  BY <1>11, <1>12, Zenon DEF n, id, h

\* A header and what follows it.
LEMMA SplitAtEight ==
  ASSUME NEW h \in Seq(Byte), Len(h) = 8, NEW p \in Seq(Byte)
  PROVE  /\ h \o p \in Seq(Byte) /\ Len(h \o p) = 8 + Len(p)
         /\ \A i \in 1..8 : (h \o p)[i] = h[i]
         /\ SubSeq(h \o p, 9, 8 + Len(p)) = p
<1> DEFINE t == h \o p
           d == SubSeq(t, 9, 8 + Len(p))
<1>1. Len(p) \in Nat
  BY LenProperties
<1>2. /\ t \in Seq(Byte) /\ Len(t) = Len(h) + Len(p)
      /\ \A i \in 1..Len(h) + Len(p) :
           t[i] = IF i <= Len(h) THEN h[i] ELSE p[i - Len(h)]
  BY ConcatProperties, Zenon
<1> HIDE DEF t
<1>3. Len(t) = 8 + Len(p) /\ \A i \in 1..8 : t[i] = h[i]
  BY <1>1, <1>2
<1>4. \A i \in 1..Len(p) : t[8 + i] = p[i]
  BY <1>1, <1>2
<1>5. \A i \in 9..8 + Len(p) : t[i] \in Byte
  BY <1>1, <1>2, <1>3, ElementOfSeq
<1>6. /\ d \in Seq(Byte)
      /\ Len(d) = IF 9 <= 8 + Len(p) THEN (8 + Len(p)) - 9 + 1 ELSE 0
      /\ \A i \in 1..(8 + Len(p)) - 9 + 1 : d[i] = t[9 + i - 1]
  BY <1>1, <1>5, SubSeqProperties
<1> HIDE DEF d
<1>7. Len(d) = Len(p) /\ \A i \in 1..Len(d) : d[i] = t[8 + i]
  BY <1>1, <1>6
<1>8. \A i \in 1..Len(d) : d[i] = p[i]
  BY <1>4, <1>7
<1>9. d = p
  BY <1>6, <1>7, <1>8, SeqEqual
<1> QED
  BY <1>2, <1>3, <1>9 DEF t, d

\* The size check of encode() keeps every length in the u16 of the header.
LEMMA LengthExact ==
  ASSUME LengthsFit, NEW c \in Configs, NEW f, IsFrame(f), Encodable(f, c)
  PROVE  Length(f) = Len(Payload(f))
<1>1. /\ HEADER_SIZE + Len(f.data) <= c.max_frame_size
      /\ f.cmd = "UPD" => f.version >= 2
  BY Zenon DEF Encodable, validate, total_size, requires_v2
<1>2. Len(Payload(f)) \in Nat
  BY PayloadType, Zenon
<1>3. CASE f.cmd = "UPD"
  <2>1. Len(Payload(f)) = 8
    BY <1>1, <1>3, PayloadType, Zenon
  <2> QED
    BY <2>1, SMT DEF Length
<1>4. CASE f.cmd = "PSH"
  <2>1. Payload(f) = f.data /\ f.data \in Payloads
    BY <1>4, PayloadType DEF IsFrame
  <2>2. Len(f.data) < 65536
    BY <1>1, <2>1, SMT DEF LengthsFit
  <2> QED
    <3>1. Len(Payload(f)) < 65536
      BY <2>1, <2>2, SMT
    <3>2. \A m \in Nat : m < 65536 => m % 65536 = m
      BY SMT
    <3> QED
      BY <1>2, <3>1, <3>2, SMT DEF Length
<1>5. CASE f.cmd # "UPD" /\ f.cmd # "PSH"
  <2>1. Payload(f) = << >>
    BY <1>5, PayloadType DEF IsFrame
  <2> QED
    BY <2>1, SMT DEF Length
<1> QED
  BY <1>3, <1>4, <1>5

\* decode(encode(f)) = f: what encode() writes for a frame of any session is one
\* complete item, and decode() makes the same frame of it, with its version,
\* command, stream id, data and UPD numbers.
THEOREM FrameRoundTrip ==
  ASSUME LengthsFit, NEW c \in Configs, NEW f \in FramesOf(c.version),
         Encodable(f, c)
  PROVE  /\ Encoded(f) \in Seq(Byte)
         /\ Len(Encoded(f)) = HEADER_SIZE + Len(Payload(f))
         /\ Len(Payload(f)) \in Nat
         /\ FrameSize(Encoded(f)) = Len(Encoded(f))
         /\ KnownByte(decode_header(Encoded(f)).byte)
         /\ ~UpdRefused(Encoded(f))
         /\ Decoded(Encoded(f)) = f
<1> DEFINE h == encode_header(f)
           p == Payload(f)
           t == h \o p
<1>1. IsFrame(f)
  BY FramesOfType
<1>2. Length(f) = Len(p)
  BY <1>1, LengthExact, Zenon
<1>3. p \in Seq(Byte) /\ Len(p) \in Nat
  BY <1>1, PayloadType, Zenon
<1>4. /\ h \in Seq(Byte) /\ Len(h) = 8
      /\ decode_header(h) = [version |-> f.version, byte |-> to_byte[f.cmd],
                             length |-> Len(p), stream_id |-> f.stream_id]
  BY <1>1, <1>2, HeaderRoundTrip, Zenon
<1> HIDE DEF h, p
<1>5. /\ t \in Seq(Byte) /\ Len(t) = 8 + Len(p)
      /\ \A i \in 1..8 : t[i] = h[i]
      /\ SubSeq(t, 9, 8 + Len(p)) = p
  BY <1>3, <1>4, SplitAtEight, Zenon
<1> HIDE DEF t
<1>6. /\ t[1] = h[1] /\ t[2] = h[2] /\ t[3] = h[3] /\ t[4] = h[4]
      /\ t[5] = h[5] /\ t[6] = h[6] /\ t[7] = h[7] /\ t[8] = h[8]
  BY <1>5
<1>7. decode_header(t) = decode_header(h)
  <2>1. get_u16_le(t, 3) = get_u16_le(h, 3)
    BY <1>6, SMT DEF get_u16_le
  <2>2. get_u32_le(t, 5) = get_u32_le(h, 5)
    BY <1>6, SMT DEF get_u32_le
  <2> QED
    BY <1>6, <2>1, <2>2, Zenon DEF decode_header
<1>8. /\ decode_header(t).version = f.version
      /\ decode_header(t).byte = to_byte[f.cmd]
      /\ decode_header(t).length = Len(p)
      /\ decode_header(t).stream_id = f.stream_id
  BY <1>4, <1>7
<1>9. FrameSize(t) = 8 + Len(p) /\ FrameSize(t) = Len(t)
  BY <1>5, <1>8 DEF FrameSize, HEADER_SIZE
<1>10. Data(t) = p
  BY <1>5, <1>9 DEF Data, HEADER_SIZE
<1>11. f.cmd \in Commands
  BY <1>1 DEF IsFrame
<1>12. KnownByte(decode_header(t).byte) /\ from_byte(decode_header(t).byte) = f.cmd
  BY <1>8, <1>11, CommandRoundTrip
<1>13. f.cmd = "UPD" => f.version >= 2
  BY Zenon DEF Encodable, validate, requires_v2
<1>14. f.cmd = "UPD" => Len(p) = 8 /\ decode_upd_data(p) = f.upd
  BY <1>1, <1>13, PayloadType, Zenon DEF p
<1>15. ~UpdRefused(t)
  BY <1>8, <1>12, <1>14, Zenon DEF UpdRefused
<1>16. /\ f.cmd # "UPD" => p = f.data /\ f.upd = NoUpd
       /\ f.cmd = "UPD" => f.data = << >>
       /\ f = Frame(f.version, f.cmd, f.stream_id, f.data, f.upd)
  BY <1>1, PayloadType DEF p, IsFrame
<1>17. Decoded(t) =
         Frame(f.version, f.cmd, f.stream_id,
               IF f.cmd = "UPD" THEN << >> ELSE p,
               IF f.cmd = "UPD" /\ f.version >= 2 THEN decode_upd_data(p)
                                                  ELSE NoUpd)
  BY <1>8, <1>10, <1>12, Zenon DEF Decoded
<1>18. Decoded(t) = f
  <2>1. CASE f.cmd = "UPD"
    <3>1. Decoded(t) = Frame(f.version, f.cmd, f.stream_id, << >>, decode_upd_data(p))
      BY <1>17, <1>13, <2>1, Zenon
    <3> QED
      BY <3>1, <2>1, <1>14, <1>16, Zenon
  <2>2. CASE f.cmd # "UPD"
    <3>1. Decoded(t) = Frame(f.version, f.cmd, f.stream_id, p, NoUpd)
      BY <1>17, <2>2, Zenon
    <3> QED
      BY <3>1, <2>2, <1>16, Zenon
  <2> QED
    BY <2>1, <2>2, Zenon
<1>19. Encoded(f) = t
  BY DEF Encoded, h, p, t
<1> QED
  BY <1>3, <1>5, <1>9, <1>12, <1>15, <1>18, <1>19 DEF HEADER_SIZE, p

\* The reader takes the whole frame, or refuses its header when the frame is
\* above its own limit.
LEMMA FrameJudged ==
  ASSUME LengthsFit, NEW c \in Configs, NEW f \in FramesOf(c.version),
         Encodable(f, c), NEW r \in Configs
  PROVE  /\ Complete(Encoded(f))
         /\ Len(Encoded(f)) <= r.max_frame_size => Decodable(Encoded(f), r)
         /\ Len(Encoded(f)) > r.max_frame_size => HeaderRefused(Encoded(f), r)
<1> DEFINE t == Encoded(f)
<1>1. /\ t \in Seq(Byte) /\ Len(t) = 8 + Len(Payload(f)) /\ Len(Payload(f)) \in Nat
      /\ FrameSize(t) = Len(t) /\ KnownByte(decode_header(t).byte)
      /\ ~UpdRefused(t) /\ Decoded(t) = f
  BY FrameRoundTrip, Zenon DEF HEADER_SIZE
<1>2. IsFrame(f)
  BY FramesOfType
<1>3. r.max_frame_size \in Nat
  BY ConfigsAssumption DEF ConfigRecord
<1>4. Len(f.data) \in Nat /\ Len(f.data) <= Len(Payload(f))
  <2>1. Len(f.data) \in Nat
    BY <1>2, LenProperties DEF IsFrame
  <2>2. CASE f.cmd = "UPD"
    BY <1>1, <1>2, <2>1, <2>2 DEF IsFrame
  <2>3. CASE f.cmd # "UPD"
    BY <1>1, <1>2, <2>1, <2>3, PayloadType
  <2> QED
    BY <2>2, <2>3
<1> HIDE DEF t
<1>5. Complete(t)
  BY <1>1 DEF Complete, HEADER_SIZE
<1>6. ASSUME Len(t) <= r.max_frame_size
      PROVE  Decodable(t, r)
  <2>1. ~HeaderRefused(t, r)
    BY <1>1, <1>3, <1>6 DEF HeaderRefused
  <2>2. total_size(f) <= r.max_frame_size
    BY <1>1, <1>3, <1>4, <1>6 DEF total_size, HEADER_SIZE
  <2>3. validate(f, r)
    BY <2>2, Zenon DEF Encodable, validate
  <2> QED
    BY <1>1, <1>5, <2>1, <2>3 DEF Decodable
<1>7. ASSUME Len(t) > r.max_frame_size
      PROVE  HeaderRefused(t, r)
  BY <1>1, <1>7 DEF HeaderRefused, HEADER_SIZE
<1> QED
  BY <1>5, <1>6, <1>7 DEF t

-----------------------------------------------------------------------------
(* decode() judges a buffer by the item at its head alone *)

\* s and t are the same as far as both go.
Agree(s, t) == \A i \in 1..Len(s) : i <= Len(t) => s[i] = t[i]

LEMMA U16Type ==
  ASSUME NEW s, s[3] \in Byte, s[4] \in Byte
  PROVE  get_u16_le(s, 3) \in Nat
<1>1. \A a, b \in Byte : a + 256 * b \in Nat
  BY SMT DEF Byte
<1>2. get_u16_le(s, 3) = s[3] + 256 * s[4]
  BY SMT DEF get_u16_le
<1> QED
  BY <1>1, <1>2, SMT

LEMMA FrameSizeType ==
  ASSUME NEW s \in Seq(Byte), Len(s) >= 8
  PROVE  FrameSize(s) \in Nat /\ FrameSize(s) >= 8
<1>1. 3 \in 1..Len(s) /\ 4 \in 1..Len(s)
  BY LenProperties
<1>2. s[3] \in Byte /\ s[4] \in Byte
  BY <1>1, ElementOfSeq, Zenon
<1>3. decode_header(s).length = get_u16_le(s, 3)
  BY Zenon DEF decode_header
<1>4. get_u16_le(s, 3) \in Nat
  BY <1>2, U16Type
<1>5. FrameSize(s) = 8 + get_u16_le(s, 3)
  BY <1>3 DEF FrameSize, HEADER_SIZE
<1> QED
  BY <1>4, <1>5

LEMMA SameHeader ==
  ASSUME NEW s \in Seq(Byte), NEW t \in Seq(Byte), Agree(s, t),
         Len(s) >= 8, Len(t) >= 8
  PROVE  decode_header(s) = decode_header(t) /\ FrameSize(s) = FrameSize(t)
<1>1. Len(s) \in Nat /\ Len(t) \in Nat
  BY LenProperties
<1>2. \A i \in 1..8 : s[i] = t[i]
  BY <1>1 DEF Agree
<1>3. /\ s[1] = t[1] /\ s[2] = t[2] /\ s[3] = t[3] /\ s[4] = t[4]
      /\ s[5] = t[5] /\ s[6] = t[6] /\ s[7] = t[7] /\ s[8] = t[8]
  BY <1>2
<1>4. get_u16_le(s, 3) = get_u16_le(t, 3)
  BY <1>3, SMT DEF get_u16_le
<1>5. get_u32_le(s, 5) = get_u32_le(t, 5)
  BY <1>3, SMT DEF get_u32_le
<1>6. decode_header(s) = decode_header(t)
  BY <1>3, <1>4, <1>5, Zenon DEF decode_header
<1> QED
  BY <1>6 DEF FrameSize

LEMMA SameSubSeq ==
  ASSUME NEW s \in Seq(Byte), NEW t \in Seq(Byte), NEW m \in Nat \ {0}, NEW n \in Nat,
         n <= Len(s), n <= Len(t), \A i \in m..n : s[i] = t[i]
  PROVE  SubSeq(s, m, n) = SubSeq(t, m, n)
<1> DEFINE a == SubSeq(s, m, n)
           b == SubSeq(t, m, n)
<1>1. Len(s) \in Nat /\ Len(t) \in Nat
  BY LenProperties
<1>2. \A i \in m..n : s[i] \in Byte /\ t[i] \in Byte
  BY <1>1, ElementOfSeq
<1>3. /\ a \in Seq(Byte) /\ Len(a) = (IF m <= n THEN n - m + 1 ELSE 0)
      /\ \A i \in 1..n - m + 1 : a[i] = s[m + i - 1]
  BY <1>2, SubSeqProperties
<1>4. /\ b \in Seq(Byte) /\ Len(b) = (IF m <= n THEN n - m + 1 ELSE 0)
      /\ \A i \in 1..n - m + 1 : b[i] = t[m + i - 1]
  BY <1>2, SubSeqProperties
<1> HIDE DEF a, b
<1>5. Len(a) = Len(b)
  BY <1>3, <1>4
<1>6. ASSUME NEW i \in 1..Len(a)
      PROVE  a[i] = b[i]
  <2>1. Len(a) = 0 \/ (m <= n /\ Len(a) = n - m + 1)
    BY <1>3
  <2>2. i \in 1..n - m + 1 /\ m + i - 1 \in m..n
    BY <2>1
  <2>3. a[i] = s[m + i - 1] /\ b[i] = t[m + i - 1]
    BY <1>3, <1>4, <2>2, Zenon
  <2> QED
    BY <2>2, <2>3, Zenon
<1>7. a = b
  BY <1>3, <1>4, <1>5, <1>6, SeqEqual
<1> QED
  BY <1>7 DEF a, b

LEMMA SameData ==
  ASSUME NEW s \in Seq(Byte), NEW t \in Seq(Byte), Agree(s, t),
         Complete(s), Complete(t)
  PROVE  Data(s) = Data(t)
<1> DEFINE n == FrameSize(s)
<1>1. Len(s) \in Nat /\ Len(t) \in Nat /\ Len(s) >= 8 /\ Len(t) >= 8
  BY LenProperties DEF Complete, HEADER_SIZE
<1>2. n = FrameSize(t) /\ n \in Nat /\ n >= 8 /\ n <= Len(s) /\ n <= Len(t)
  BY <1>1, SameHeader, FrameSizeType DEF Complete
<1>3. Data(s) = SubSeq(s, 9, n) /\ Data(t) = SubSeq(t, 9, n)
  BY <1>2 DEF Data, HEADER_SIZE
<1> HIDE DEF n
<1>4. \A i \in 9..n : s[i] \in Byte /\ t[i] \in Byte /\ s[i] = t[i]
  BY <1>1, <1>2, ElementOfSeq DEF Agree
<1>5. SubSeq(s, 9, n) = SubSeq(t, 9, n)
  BY <1>1, <1>2, <1>4, SameSubSeq
<1> QED
  BY <1>3, <1>5

LEMMA JudgedByItem ==
  ASSUME NEW s \in Seq(Byte), NEW t \in Seq(Byte), Agree(s, t), NEW c,
         Len(t) >= 8, Complete(t) \/ HeaderRefused(t, c)
  PROVE  /\ HeaderRefused(s, c) => HeaderRefused(t, c)
         /\ Decodable(s, c) =>
              Decodable(t, c) /\ Decoded(s) = Decoded(t)
                /\ FrameSize(s) = FrameSize(t)
         /\ Refused(s, c) => Refused(t, c)
<1>1. Len(s) >= 8 => /\ decode_header(s) = decode_header(t)
                     /\ FrameSize(s) = FrameSize(t)
  BY SameHeader
<1>2. Len(s) >= 8 => (HeaderRefused(s, c) <=> HeaderRefused(t, c))
  BY <1>1 DEF HeaderRefused, HEADER_SIZE
<1>3. HeaderRefused(s, c) => Len(s) >= 8
  BY DEF HeaderRefused, HEADER_SIZE
<1>4. Complete(s) => Len(s) >= 8
  BY DEF Complete, HEADER_SIZE
<1>5. ASSUME Complete(s), ~HeaderRefused(t, c)
      PROVE  /\ Complete(t) /\ UpdRefused(s) = UpdRefused(t)
             /\ Decoded(s) = Decoded(t)
  <2>1. Complete(t)
    BY <1>5
  <2>2. Data(s) = Data(t)
    BY <1>5, <2>1, SameData
  <2>3. decode_header(s) = decode_header(t)
    BY <1>1, <1>4, <1>5
  <2>4. Decoded(s) = Decoded(t)
    BY <2>2, <2>3, Zenon DEF Decoded
  <2>5. UpdRefused(s) = UpdRefused(t)
    BY <2>3, Zenon DEF UpdRefused
  <2> QED
    BY <2>1, <2>4, <2>5
<1>6. ASSUME Complete(s), ~HeaderRefused(t, c)
      PROVE  Decodable(s, c) <=> Decodable(t, c)
  BY <1>2, <1>4, <1>5, <1>6, Zenon DEF Decodable
<1>7. Decodable(s, c) => Complete(s) /\ ~HeaderRefused(s, c)
  BY DEF Decodable
<1>8. Refused(s, c) => Refused(t, c)
  <2>1. CASE HeaderRefused(s, c)
    BY <1>2, <1>3, <2>1 DEF Refused
  <2>2. CASE ~HeaderRefused(s, c) /\ Complete(s) /\ ~Decodable(s, c)
    BY <1>2, <1>4, <1>5, <1>6, <2>2 DEF Refused
  <2> QED
    BY <2>1, <2>2 DEF Refused
<1> QED
  BY <1>1, <1>2, <1>3, <1>4, <1>5, <1>6, <1>7, <1>8

-----------------------------------------------------------------------------
(* The item at the head of the decoder's buffer *)

LEMMA ItemJudged ==
  ASSUME LengthsFit, ForeignMalformed, enc \in Configs, NEW r \in Configs,
         NEW t, NEW f, IsItem(t, f)
  PROVE  /\ t \in Seq(Byte) /\ Len(t) \in Nat /\ Len(t) >= 8
         /\ Complete(t) \/ HeaderRefused(t, r)
         /\ Decodable(t, r) => Decoded(t) = f /\ FrameSize(t) = Len(t)
         /\ Refused(t, r) =>
              f = NotAFrame \/ HEADER_SIZE + Len(Payload(f)) > r.max_frame_size
         /\ f # NotAFrame => FrameSize(t) = Len(t)
<1>1. ~(Decodable(t, r) /\ Refused(t, r))
  BY DEF Refused, Decodable
<1>2. CASE f = NotAFrame /\ t \in ForeignItems
  <2>1. t \in Seq(Byte) /\ Refused(t, r)
    BY <1>2, ForeignAssumption DEF Byte, ForeignMalformed
  <2>2. Len(t) \in Nat
    BY <2>1, LenProperties
  <2>3. Len(t) >= 8
    BY <2>1 DEF Refused, HeaderRefused, Complete, HEADER_SIZE
  <2>4. Complete(t) \/ HeaderRefused(t, r)
    BY <2>1 DEF Refused
  <2> QED
    BY <1>1, <1>2, <2>1, <2>2, <2>3, <2>4, Zenon
<1>3. CASE f \in FramesOf(enc.version) /\ Encodable(f, enc) /\ t = Encoded(f)
  <2>1. /\ t \in Seq(Byte) /\ Len(t) = 8 + Len(Payload(f))
        /\ Len(Payload(f)) \in Nat /\ FrameSize(t) = Len(t) /\ Decoded(t) = f
    BY <1>3, FrameRoundTrip, Zenon DEF HEADER_SIZE
  <2>2. /\ Complete(t)
        /\ Len(t) <= r.max_frame_size => Decodable(t, r)
        /\ Len(t) > r.max_frame_size => HeaderRefused(t, r)
    BY <1>3, FrameJudged, Zenon
  <2>3. r.max_frame_size \in Nat
    BY ConfigsAssumption DEF ConfigRecord
  <2>4. Len(t) \in Nat /\ Len(t) >= 8
    BY <2>1
  <2>5. Refused(t, r) => HEADER_SIZE + Len(Payload(f)) > r.max_frame_size
    BY <1>1, <2>1, <2>2, <2>3 DEF HEADER_SIZE
  <2> QED
    BY <2>1, <2>2, <2>4, <2>5, Zenon
<1> QED
  BY <1>2, <1>3 DEF IsItem

LEMMA SrcBytes ==
  ASSUME TypeOK, consumed <= arrived
  PROVE  /\ Src \in Seq(Byte) /\ Len(Src) = arrived - consumed
         /\ \A i \in 1..Len(Src) : Src[i] = bytes[consumed + i]
<1>1. /\ bytes \in Seq(Byte) /\ Len(bytes) \in Nat /\ arrived \in Nat
      /\ arrived <= Len(bytes) /\ consumed \in Nat
  BY LenProperties DEF TypeOK
<1>2. \A i \in consumed + 1..arrived : bytes[i] \in Byte
  BY <1>1, ElementOfSeq
<1> DEFINE s == SubSeq(bytes, consumed + 1, arrived)
<1>3. /\ s \in Seq(Byte)
      /\ Len(s) = IF consumed + 1 <= arrived THEN arrived - (consumed + 1) + 1 ELSE 0
      /\ \A i \in 1..arrived - (consumed + 1) + 1 :
           s[i] = bytes[(consumed + 1) + i - 1]
  BY <1>1, <1>2, SubSeqProperties
<1> HIDE DEF s
<1>4. Len(s) = arrived - consumed
  BY <1>1, <1>3
<1>5. \A i \in 1..Len(s) : s[i] = bytes[consumed + i]
  BY <1>1, <1>3, <1>4
<1> QED
  BY <1>3, <1>4, <1>5 DEF s, Src

\* While bytes are left, the decoder's buffer begins with the first item that
\* has not been decoded, as far as it has arrived.
LEMMA HeadItem ==
  ASSUME CodecInv, receiver = "open", consumed < Len(bytes)
  PROVE  /\ Len(decoded) \in Nat /\ Len(decoded) + 1 \in 1..Len(written)
         /\ \E t : /\ IsItem(t, written[Len(decoded) + 1])
                   /\ ends[Len(decoded) + 1] = consumed + Len(t)
                   /\ Agree(Src, t)
<1> DEFINE k == Len(decoded) + 1
<1>1. /\ Len(decoded) \in Nat /\ Len(written) \in Nat
      /\ arrived \in Nat /\ consumed \in Nat /\ arrived <= Len(bytes)
      /\ Len(bytes) \in Nat
  BY LenProperties DEF CodecInv, TypeOK
<1>2. consumed = End(Len(decoded)) /\ consumed <= arrived
  BY DEF CodecInv, AtBoundary
<1>3. Len(decoded) <= Len(written) /\ Len(bytes) <= End(Len(written))
  BY DEF CodecInv, InOrder, NothingBehind
<1>4. Len(decoded) # Len(written)
  <2>1. SUFFICES ASSUME Len(decoded) = Len(written) PROVE FALSE
    OBVIOUS
  <2>2. Len(bytes) <= consumed
    BY <1>2, <1>3, <2>1
  <2> QED
    BY <1>1, <2>2
<1>5. k \in 1..Len(written)
  BY <1>1, <1>3, <1>4
<1>6. PICK t : LaidOut(k, t)
  BY <1>5 DEF CodecInv, ItemsLaidOut
<1>7. End(k - 1) = consumed
  <2>1. k - 1 = Len(decoded)
    BY <1>1
  <2> QED
    BY <1>2, <2>1
<1>8. /\ IsItem(t, written[k]) /\ ends[k] = consumed + Len(t)
      /\ \A i \in 1..Len(t) :
           consumed + i <= Len(bytes) => bytes[consumed + i] = t[i]
  BY <1>6, <1>7 DEF LaidOut
<1>9. Len(Src) = arrived - consumed /\ \A i \in 1..Len(Src) : Src[i] = bytes[consumed + i]
  BY <1>2, SrcBytes DEF CodecInv
<1>10. Agree(Src, t)
  <2> SUFFICES ASSUME NEW i \in 1..Len(Src), i <= Len(t) PROVE Src[i] = t[i]
    BY DEF Agree
  <2>1. i \in Nat /\ i >= 1 /\ consumed + i <= Len(bytes)
    BY <1>1, <1>2, <1>9
  <2>2. i \in 1..Len(t)
    BY <2>1
  <2> QED
    BY <1>8, <1>9, <2>1, <2>2
<1> QED
  BY <1>1, <1>5, <1>8, <1>10

-----------------------------------------------------------------------------
(* The invariant, action by action *)

LEMMA CodecInvInit ==
  ASSUME Init PROVE CodecInv
<1>1. TypeOK
  <2>1. Len(bytes) = 0 /\ Len(ends) = 0 /\ Len(written) = 0
    BY DEF Init
  <2>2. bytes \in Seq(Byte) /\ ends \in Seq(Nat)
    BY EmptySeq DEF Init
  <2>3. written \in Seq(Message) /\ decoded \in Seq(Message)
    BY EmptySeq, Zenon DEF Init
  <2>4. arrived \in 0..Len(bytes) /\ consumed \in Nat /\ Len(ends) = Len(written)
    BY <2>1 DEF Init
  <2> QED
    BY <2>2, <2>3, <2>4, Zenon DEF Init, TypeOK
<1>2. ItemsLaidOut /\ InOrder /\ EndedAtEnd /\ FailureHasCause
  BY DEF Init, ItemsLaidOut, InOrder, EndedAtEnd, FailureHasCause
<1>3. NothingBehind /\ AtBoundary
  BY DEF Init, NothingBehind, AtBoundary, End
<1>4. WaitsForMore
  <2>1. Len(Src) = 0
    BY <1>1, SrcBytes DEF Init
  <2> QED
    BY <2>1 DEF WaitsForMore, HeaderRefused, Complete, HEADER_SIZE
<1> QED
  BY <1>1, <1>2, <1>3, <1>4 DEF CodecInv

\* Bytes that are added or cut off behind what has arrived leave the decoder's
\* buffer as it is.
LEMMA SrcUnchanged ==
  ASSUME TypeOK, TypeOK', UNCHANGED <<arrived, consumed>>,
         \A i \in 1..arrived : bytes'[i] = bytes[i]
  PROVE  Src' = Src
<1>1. /\ bytes \in Seq(Byte) /\ bytes' \in Seq(Byte)
      /\ arrived \in Nat /\ consumed \in Nat
      /\ arrived <= Len(bytes) /\ arrived <= Len(bytes')
  BY LenProperties DEF TypeOK
<1>2. SubSeq(bytes', consumed + 1, arrived) = SubSeq(bytes, consumed + 1, arrived)
  <2>1. \A i \in consumed + 1..arrived : bytes'[i] = bytes[i]
    BY <1>1
  <2> QED
    BY <1>1, <2>1, SameSubSeq
<1> QED
  BY <1>2 DEF Src

LEMMA ItemsUnchanged ==
  ASSUME ItemsLaidOut, UNCHANGED <<enc, bytes, written, ends>>
  PROVE  ItemsLaidOut'
<1> SUFFICES ASSUME NEW k \in 1..Len(written)
             PROVE  \E t \in ForeignItems \cup {Encoded(written[k])} : LaidOut(k, t)'
  BY DEF ItemsLaidOut
<1>1. PICK t \in ForeignItems \cup {Encoded(written[k])} : LaidOut(k, t)
  BY DEF ItemsLaidOut
<1>2. IsItem(t, written[k])' <=> IsItem(t, written[k])
  BY DEF IsItem
<1>3. End(k - 1)' = End(k - 1)
  BY DEF End
<1>4. LaidOut(k, t)'
  BY <1>1, <1>2, <1>3 DEF LaidOut
<1> QED
  BY <1>4

LEMMA WriteKeepsInv ==
  ASSUME LengthsFit, ForeignMalformed, CodecInv, sender = "open",
         NEW t, NEW f \in Message, IsItem(t, f), Write(t, f),
         UNCHANGED <<enc, dec, arrived, consumed, is_readable, receiver, decoded>>
  PROVE  CodecInv'
<1> DEFINE n == Len(written)
<1>1. /\ bytes \in Seq(Byte) /\ Len(bytes) \in Nat
      /\ written \in Seq(Message) /\ n \in Nat
      /\ ends \in Seq(Nat) /\ Len(ends) = n /\ Len(decoded) \in Nat
      /\ arrived \in 0..Len(bytes) /\ consumed \in Nat
      /\ enc \in Configs /\ dec \in Configs
  BY LenProperties DEF CodecInv, TypeOK
<1>2. t \in Seq(Byte) /\ Len(t) \in Nat
  BY <1>1, ItemJudged
<1>3. /\ bytes' \in Seq(Byte) /\ Len(bytes') = Len(bytes) + Len(t)
      /\ \A i \in 1..Len(bytes) : bytes'[i] = bytes[i]
      /\ \A i \in 1..Len(t) : bytes'[Len(bytes) + i] = t[i]
  <2>1. /\ bytes' \in Seq(Byte) /\ Len(bytes') = Len(bytes) + Len(t)
        /\ \A i \in 1..Len(bytes) + Len(t) :
             bytes'[i] = IF i <= Len(bytes) THEN bytes[i] ELSE t[i - Len(bytes)]
    <3>1. bytes' = bytes \o t
      BY DEF Write
    <3> QED
      BY <1>1, <1>2, <3>1, ConcatProperties, ZenonT(30)
  <2>2. \A i \in 1..Len(bytes) : bytes'[i] = bytes[i]
    BY <1>1, <1>2, <2>1
  <2>3. ASSUME NEW i \in 1..Len(t)
        PROVE  bytes'[Len(bytes) + i] = t[i]
    <3>1. /\ Len(bytes) + i \in 1..Len(bytes) + Len(t)
          /\ ~(Len(bytes) + i <= Len(bytes)) /\ (Len(bytes) + i) - Len(bytes) = i
      BY <1>1, <1>2
    <3> QED
      BY <2>1, <3>1
  <2> QED
    BY <2>1, <2>2, <2>3
<1>4. /\ written' \in Seq(Message) /\ Len(written') = n + 1
      /\ \A i \in 1..n : written'[i] = written[i]
      /\ written'[n + 1] = f
  BY <1>1, AppendProperties DEF Write
<1>5. /\ ends' \in Seq(Nat) /\ Len(ends') = n + 1
      /\ \A i \in 1..n : ends'[i] = ends[i]
      /\ ends'[n + 1] = Len(bytes) + Len(t)
  <2>1. Len(bytes') \in Nat /\ ends' = Append(ends, Len(bytes'))
    BY <1>1, <1>2, <1>3 DEF Write
  <2> QED
    BY <1>1, <1>3, <2>1, AppendProperties
<1> HIDE DEF n
<1>6. /\ Len(bytes) = End(n)
      /\ \A k \in 1..n : ends[k] <= Len(bytes)
  BY <1>1 DEF CodecInv, NothingBehind, n
<1>7. \A k \in 0..n : End(k)' = End(k)
  BY <1>1, <1>5 DEF End
<1>8. \A k \in 0..n : End(k) \in Nat
  BY <1>1, ElementOfSeq DEF End
<1>9. \A u, g : IsItem(u, g)' <=> IsItem(u, g)
  BY DEF IsItem
<1>10. TypeOK'
  <2>1. arrived' \in 0..Len(bytes')
    BY <1>1, <1>2, <1>3
  <2> QED
    BY <1>1, <1>3, <1>4, <1>5, <2>1 DEF CodecInv, TypeOK, Write
<1>11. ItemsLaidOut'
  <2> SUFFICES ASSUME NEW k \in 1..n + 1
               PROVE  \E u \in ForeignItems \cup {Encoded(written'[k])} : LaidOut(k, u)'
    BY <1>4 DEF ItemsLaidOut
  <2>1. CASE k \in 1..n
    <3>1. PICK u \in ForeignItems \cup {Encoded(written[k])} : LaidOut(k, u)
      BY <2>1 DEF CodecInv, ItemsLaidOut, n
    <3>2. written'[k] = written[k] /\ ends'[k] = ends[k] /\ k - 1 \in 0..n
      <4>1. k - 1 \in 0..n
        BY <1>1, <2>1
      <4> QED
        BY <1>4, <1>5, <2>1, <4>1
    <3>3. IsItem(u, written[k]) /\ ends[k] = End(k - 1) + Len(u)
      BY <3>1 DEF LaidOut
    <3>4. End(k - 1)' = End(k - 1) /\ End(k - 1) \in Nat /\ ends[k] <= Len(bytes)
      BY <1>6, <1>7, <1>8, <2>1, <3>2
    <3>5. u \in Seq(Byte) /\ Len(u) \in Nat
      BY <1>1, <3>3, ItemJudged
    <3>6. ASSUME NEW i \in 1..Len(u)
          PROVE  bytes'[End(k - 1) + i] = u[i]
      <4>1. End(k - 1) + i \in 1..Len(bytes)
        BY <1>1, <3>3, <3>4, <3>5, SMTT(30)
      <4>2. bytes[End(k - 1) + i] = u[i]
        BY <1>1, <3>1, <4>1 DEF LaidOut
      <4> QED
        BY <1>3, <4>1, <4>2
    <3>7. LaidOut(k, u)'
      <4>1. IsItem(u, written[k])' /\ ends'[k] = End(k - 1)' + Len(u)
        BY <1>9, <3>2, <3>3, <3>4
      <4>2. \A i \in 1..Len(u) : bytes'[End(k - 1)' + i] = u[i]
        BY <3>4, <3>6
      <4> QED
        BY <4>1, <4>2 DEF LaidOut
    <3> QED
      BY <3>1, <3>2, <3>7
  <2>2. CASE k = n + 1
    <3>1. written'[k] = f /\ ends'[k] = Len(bytes) + Len(t)
      BY <1>4, <1>5, <2>2
    <3>2. End(k - 1)' = Len(bytes)
      <4>1. k - 1 = n /\ n \in 0..n
        BY <1>1, <2>2
      <4> QED
        BY <4>1, <1>6, <1>7
    <3>3. LaidOut(k, t)'
      <4>1. IsItem(t, written[k])' /\ ends'[k] = End(k - 1)' + Len(t)
        BY <1>9, <3>1, <3>2
      <4>2. \A i \in 1..Len(t) : bytes'[End(k - 1)' + i] = t[i]
        BY <1>3, <3>2
      <4> QED
        BY <4>1, <4>2 DEF LaidOut
    <3>4. t \in ForeignItems \cup {Encoded(written'[k])}
      BY <3>1 DEF IsItem
    <3> QED
      BY <3>3, <3>4
  <2> QED
    BY <1>1, <2>1, <2>2
<1>12. NothingBehind'
  <2>1. End(Len(written))' = Len(bytes')
    BY <1>1, <1>3, <1>4, <1>5 DEF End
  <2>2. \A k \in 1..n + 1 : ends'[k] <= Len(bytes')
    <3> SUFFICES ASSUME NEW k \in 1..n + 1 PROVE ends'[k] <= Len(bytes')
      OBVIOUS
    <3>1. CASE k \in 1..n
      <4>1. ends[k] \in Nat /\ ends[k] <= Len(bytes) /\ ends'[k] = ends[k]
        BY <1>1, <1>5, <1>6, <3>1, ElementOfSeq
      <4> QED
        BY <1>1, <1>2, <1>3, <4>1
    <3>2. CASE k = n + 1
      BY <1>1, <1>2, <1>3, <1>5, <3>2
    <3> QED
      BY <1>1, <3>1, <3>2
  <2>3. Len(bytes') \in Nat
    BY <1>1, <1>2, <1>3
  <2> QED
    BY <1>5, <2>1, <2>2, <2>3 DEF NothingBehind
<1>13. InOrder'
  BY <1>1, <1>4 DEF CodecInv, InOrder, n
<1>14. AtBoundary'
  <2>1. Len(decoded) \in 0..n
    BY <1>1 DEF CodecInv, InOrder, n
  <2>2. End(Len(decoded))' = End(Len(decoded))
    BY <1>7, <2>1
  <2> QED
    BY <2>2 DEF CodecInv, AtBoundary
<1>15. WaitsForMore'
  <2>1. Src' = Src
    <3>1. \A i \in 1..arrived : bytes'[i] = bytes[i]
      BY <1>1, <1>3
    <3> QED
      BY <1>10, <3>1, SrcUnchanged DEF CodecInv
  <2> QED
    BY <2>1 DEF CodecInv, WaitsForMore
<1>16. EndedAtEnd'
  BY DEF CodecInv, EndedAtEnd, Write
<1>17. FailureHasCause'
  <2> SUFFICES ASSUME receiver = "failed"
               PROVE  /\ Len(decoded) + 1 <= Len(written')
                      /\ \/ written'[Len(decoded) + 1] = NotAFrame
                         \/ HEADER_SIZE + Len(Payload(written'[Len(decoded) + 1]))
                              > dec.max_frame_size
    BY DEF FailureHasCause
  <2>1. Len(decoded) + 1 \in 1..n
    BY <1>1 DEF CodecInv, FailureHasCause, n
  <2>2. ~(ends[Len(decoded) + 1] > Len(bytes))
    BY <1>1, <1>6, <2>1, ElementOfSeq
  <2>3. \/ written[Len(decoded) + 1] = NotAFrame
        \/ HEADER_SIZE + Len(Payload(written[Len(decoded) + 1])) > dec.max_frame_size
    BY <2>2 DEF CodecInv, FailureHasCause
  <2>4. written'[Len(decoded) + 1] = written[Len(decoded) + 1]
    BY <1>4, <2>1
  <2> QED
    BY <1>1, <1>4, <2>1, <2>3, <2>4
<1> QED
  BY <1>10, <1>11, <1>12, <1>13, <1>14, <1>15, <1>16, <1>17 DEF CodecInv

LEMMA EncodeKeepsInv ==
  ASSUME LengthsFit, ForeignMalformed, CodecInv,
         NEW f \in FramesOf(enc.version), Encode(f)
  PROVE  CodecInv'
<1>1. CASE Encodable(f, enc) /\ Write(Encoded(f), f)
  <2>1. f \in Message
    BY DEF CodecInv, TypeOK, Message
  <2>2. IsItem(Encoded(f), f)
    BY <1>1 DEF IsItem
  <2>3. /\ sender = "open"
        /\ UNCHANGED <<enc, dec, arrived, consumed, is_readable, receiver, decoded>>
    BY DEF Encode
  <2> QED
    BY <1>1, <2>1, <2>2, <2>3, WriteKeepsInv
<1>2. CASE sender' = "closed" /\ UNCHANGED <<bytes, written, ends>>
  <2>1. /\ sender = "open"
        /\ UNCHANGED <<enc, dec, arrived, consumed, is_readable, receiver, decoded>>
    BY DEF Encode
  <2>2. TypeOK'
    BY <1>2, <2>1, Zenon DEF CodecInv, TypeOK
  <2>3. ItemsLaidOut'
    BY <1>2, <2>1, ItemsUnchanged DEF CodecInv
  <2>4. NothingBehind' /\ InOrder' /\ AtBoundary' /\ EndedAtEnd'
    BY <1>2, <2>1 DEF CodecInv, NothingBehind, InOrder, AtBoundary, EndedAtEnd, End
  <2>5. WaitsForMore' /\ FailureHasCause'
    BY <1>2, <2>1, Zenon DEF CodecInv, WaitsForMore, FailureHasCause, Src
  <2> QED
    BY <2>2, <2>3, <2>4, <2>5 DEF CodecInv
<1> QED
  BY <1>1, <1>2 DEF Encode

LEMMA ForeignWriteKeepsInv ==
  ASSUME LengthsFit, ForeignMalformed, CodecInv,
         NEW item \in ForeignItems, ForeignWrite(item)
  PROVE  CodecInv'
<1>1. NotAFrame \in Message /\ IsItem(item, NotAFrame)
  BY DEF Message, IsItem
<1>2. /\ sender = "open" /\ Write(item, NotAFrame)
      /\ UNCHANGED <<enc, dec, arrived, consumed, is_readable, receiver, decoded>>
  BY DEF ForeignWrite
<1> QED
  BY <1>1, <1>2, WriteKeepsInv

LEMMA HangupKeepsInv ==
  ASSUME CodecInv, NEW n \in arrived..Len(bytes), Hangup(n)
  PROVE  CodecInv'
<1>1. /\ bytes \in Seq(Byte) /\ Len(bytes) \in Nat /\ arrived \in Nat
      /\ written \in Seq(Message) /\ Len(written) \in Nat
      /\ ends \in Seq(Nat) /\ Len(ends) = Len(written) /\ Len(decoded) \in Nat
      /\ arrived <= n /\ n <= Len(bytes) /\ n \in Nat /\ enc \in Configs
  BY LenProperties DEF CodecInv, TypeOK
<1>2. /\ sender = "open" /\ sender' = "closed" /\ bytes' = SubSeq(bytes, 1, n)
      /\ UNCHANGED <<enc, dec, arrived, consumed, is_readable, receiver, written,
                     ends, decoded>>
  BY DEF Hangup
<1>3. bytes' \in Seq(Byte) /\ Len(bytes') = n /\ \A i \in 1..n : bytes'[i] = bytes[i]
  <2>1. \A i \in 1..n : bytes[i] \in Byte
    BY <1>1, ElementOfSeq
  <2> DEFINE s == SubSeq(bytes, 1, n)
  <2>2. /\ s \in Seq(Byte) /\ Len(s) = (IF 1 <= n THEN n - 1 + 1 ELSE 0)
        /\ \A i \in 1..n - 1 + 1 : s[i] = bytes[1 + i - 1]
    BY <1>1, <2>1, SubSeqProperties
  <2> HIDE DEF s
  <2>3. Len(s) = n /\ \A i \in 1..n : s[i] = bytes[i]
    BY <1>1, <2>2
  <2> QED
    BY <1>2, <2>2, <2>3 DEF s
<1>4. TypeOK'
  <2>1. arrived' \in 0..Len(bytes')
    BY <1>1, <1>2, <1>3
  <2> QED
    BY <1>2, <1>3, <2>1, Zenon DEF CodecInv, TypeOK
<1>5. ItemsLaidOut'
  <2> SUFFICES ASSUME NEW k \in 1..Len(written)
               PROVE  \E t \in ForeignItems \cup {Encoded(written[k])} : LaidOut(k, t)'
    BY <1>2 DEF ItemsLaidOut
  <2>1. PICK t \in ForeignItems \cup {Encoded(written[k])} : LaidOut(k, t)
    BY DEF CodecInv, ItemsLaidOut
  <2>2. /\ IsItem(t, written[k]) /\ ends[k] = End(k - 1) + Len(t)
        /\ \A i \in 1..Len(t) :
             End(k - 1) + i <= Len(bytes) => bytes[End(k - 1) + i] = t[i]
    BY <2>1 DEF LaidOut
  <2>3. End(k - 1) \in Nat /\ End(k - 1)' = End(k - 1)
    <3>1. k - 1 = 0 \/ k - 1 \in 1..Len(ends)
      BY <1>1
    <3>2. End(k - 1) \in Nat
      BY <1>1, <3>1, ElementOfSeq DEF End
    <3> QED
      BY <1>2, <3>2 DEF End
  <2>4. ASSUME NEW i \in 1..Len(t), End(k - 1) + i <= n
        PROVE  bytes'[End(k - 1) + i] = t[i]
    <3>1. End(k - 1) + i \in 1..n /\ End(k - 1) + i <= Len(bytes)
      BY <1>1, <2>3, <2>4
    <3> QED
      BY <1>3, <2>2, <3>1
  <2>5. IsItem(t, written[k])' /\ ends'[k] = End(k - 1)' + Len(t)
    BY <1>2, <2>2, <2>3 DEF IsItem
  <2>6. \A i \in 1..Len(t) :
          End(k - 1)' + i <= Len(bytes') => bytes'[End(k - 1)' + i] = t[i]
    BY <1>3, <2>3, <2>4
  <2> QED
    BY <2>5, <2>6 DEF LaidOut
<1>6. NothingBehind'
  <2>1. Len(bytes) = End(Len(written)) /\ End(Len(written))' = End(Len(written))
    BY <1>2 DEF CodecInv, NothingBehind, End
  <2>2. Len(bytes') <= End(Len(written))'
    BY <1>1, <1>3, <2>1
  <2> QED
    BY <1>2, <2>2 DEF NothingBehind
<1>7. InOrder' /\ AtBoundary' /\ EndedAtEnd'
  BY <1>2 DEF CodecInv, InOrder, AtBoundary, EndedAtEnd, End
<1>8. WaitsForMore'
  <2>1. Src' = Src
    <3>1. \A i \in 1..arrived : bytes'[i] = bytes[i]
      BY <1>1, <1>3
    <3> QED
      BY <1>2, <1>4, <3>1, SrcUnchanged DEF CodecInv
  <2> QED
    BY <1>2, <2>1 DEF CodecInv, WaitsForMore
<1>9. FailureHasCause'
  <2> SUFFICES ASSUME receiver = "failed"
               PROVE  /\ Len(decoded) + 1 <= Len(written)
                      /\ \/ written[Len(decoded) + 1] = NotAFrame
                         \/ HEADER_SIZE + Len(Payload(written[Len(decoded) + 1]))
                              > dec.max_frame_size
                         \/ ends[Len(decoded) + 1] > Len(bytes')
    BY <1>2 DEF FailureHasCause
  <2>1. Len(decoded) + 1 \in 1..Len(ends)
    BY <1>1 DEF CodecInv, FailureHasCause
  <2>2. ends[Len(decoded) + 1] \in Nat
    BY <1>1, <2>1, ElementOfSeq
  <2>3. ends[Len(decoded) + 1] > Len(bytes) => ends[Len(decoded) + 1] > Len(bytes')
    BY <1>1, <1>3, <2>2
  <2> QED
    BY <2>3 DEF CodecInv, FailureHasCause
<1> QED
  BY <1>4, <1>5, <1>6, <1>7, <1>8, <1>9 DEF CodecInv

LEMMA ReadKeepsInv ==
  ASSUME CodecInv, NEW n \in PieceSizes, Read(n)
  PROVE  CodecInv'
<1>1. /\ Len(bytes) \in Nat /\ arrived \in Nat /\ consumed \in Nat /\ n \in Nat
      /\ arrived <= Len(bytes)
  BY LenProperties, PiecesAssumption DEF CodecInv, TypeOK
<1>2. /\ receiver = "open" /\ is_readable' = TRUE
      /\ arrived' = IF arrived + n < Len(bytes) THEN arrived + n ELSE Len(bytes)
      /\ UNCHANGED <<enc, dec, bytes, consumed, sender, receiver, written, ends,
                     decoded>>
  BY DEF Read
<1>3. arrived' \in 0..Len(bytes) /\ arrived <= arrived'
  BY <1>1, <1>2
<1>4. TypeOK'
  BY <1>2, <1>3, Zenon DEF CodecInv, TypeOK
<1>5. ItemsLaidOut'
  BY <1>2, ItemsUnchanged DEF CodecInv
<1>6. NothingBehind' /\ InOrder' /\ EndedAtEnd'
  BY <1>2 DEF CodecInv, NothingBehind, InOrder, EndedAtEnd, End
<1>7. AtBoundary'
  <2>1. consumed = End(Len(decoded)) /\ consumed <= arrived
    BY <1>2 DEF CodecInv, AtBoundary
  <2>2. consumed <= arrived'
    BY <1>1, <1>3, <2>1
  <2> QED
    BY <1>2, <2>1, <2>2 DEF AtBoundary, End
<1>8. WaitsForMore' /\ FailureHasCause'
  BY <1>2 DEF WaitsForMore, FailureHasCause
<1> QED
  BY <1>4, <1>5, <1>6, <1>7, <1>8 DEF CodecInv

\* A frame that arrived whole is never waited for, so what is left at the end
\* of the connection is a frame cut short, or a foreign item.
LEMMA ReadEofKeepsInv ==
  ASSUME LengthsFit, ForeignMalformed, CodecInv, ReadEof
  PROVE  CodecInv'
<1>1. /\ Len(bytes) \in Nat /\ arrived \in Nat /\ consumed \in Nat
      /\ enc \in Configs /\ dec \in Configs
  BY LenProperties DEF CodecInv, TypeOK
<1>2. /\ receiver = "open" /\ ~is_readable /\ sender = "closed"
      /\ arrived = Len(bytes)
      /\ receiver' = IF consumed = arrived THEN "ended" ELSE "failed"
      /\ UNCHANGED <<enc, dec, bytes, arrived, consumed, is_readable, sender,
                     written, ends, decoded>>
  BY DEF ReadEof
<1>3. consumed = End(Len(decoded)) /\ consumed <= arrived
  BY <1>2 DEF CodecInv, AtBoundary
<1>4. TypeOK'
  BY <1>2, Zenon DEF CodecInv, TypeOK
<1>5. ItemsLaidOut'
  BY <1>2, ItemsUnchanged DEF CodecInv
<1>6. NothingBehind' /\ InOrder' /\ AtBoundary' /\ EndedAtEnd'
  BY <1>2, <1>3 DEF CodecInv, NothingBehind, InOrder, AtBoundary, EndedAtEnd, End
<1>7. WaitsForMore'
  BY <1>2 DEF WaitsForMore
<1>8. FailureHasCause'
  <2> SUFFICES ASSUME consumed # arrived
               PROVE  /\ Len(decoded) + 1 <= Len(written)
                      /\ \/ written[Len(decoded) + 1] = NotAFrame
                         \/ ends[Len(decoded) + 1] > Len(bytes)
    BY <1>2 DEF FailureHasCause
  <2>1. consumed < Len(bytes)
    BY <1>1, <1>2, <1>3
  <2>2. /\ Len(decoded) \in Nat /\ Len(decoded) + 1 \in 1..Len(written)
        /\ \E t : /\ IsItem(t, written[Len(decoded) + 1])
                  /\ ends[Len(decoded) + 1] = consumed + Len(t)
                  /\ Agree(Src, t)
    BY <1>2, <2>1, HeadItem
  <2>3. Len(decoded) + 1 <= Len(written)
    BY <2>2
  <2> DEFINE f == written[Len(decoded) + 1]
             e == ends[Len(decoded) + 1]
  <2>4. PICK t : IsItem(t, f) /\ e = consumed + Len(t) /\ Agree(Src, t)
    BY <2>2
  <2>5. t \in Seq(Byte) /\ Len(t) \in Nat /\ Len(t) >= 8
        /\ (f # NotAFrame => FrameSize(t) = Len(t))
    BY <1>1, <2>4, ItemJudged, Zenon
  <2>6. Src \in Seq(Byte) /\ Len(Src) = Len(bytes) - consumed
    BY <1>2, <1>3, SrcBytes DEF CodecInv
  <2>7. ASSUME f # NotAFrame, ~(e > Len(bytes))
        PROVE  FALSE
    <3>1. Len(Src) >= Len(t) /\ Len(Src) >= 8
      BY <1>1, <2>4, <2>5, <2>6, <2>7
    <3>2. FrameSize(Src) = Len(t)
      BY <2>4, <2>5, <2>6, <2>7, <3>1, SameHeader
    <3>3. Complete(Src)
      BY <3>1, <3>2 DEF Complete, HEADER_SIZE
    <3> QED
      BY <1>2, <3>3 DEF CodecInv, WaitsForMore
  <2> QED
    BY <2>3, <2>7
<1> QED
  BY <1>4, <1>5, <1>6, <1>7, <1>8 DEF CodecInv

\* What decode() returns is the frame at the head, and it takes all of it.
LEMMA DecodedHead ==
  ASSUME LengthsFit, ForeignMalformed, CodecInv,
         receiver = "open", Decodable(Src, dec)
  PROVE  /\ Len(decoded) \in Nat /\ Len(decoded) + 1 \in 1..Len(written)
         /\ Decoded(Src) = written[Len(decoded) + 1]
         /\ FrameSize(Src) \in Nat
         /\ consumed + FrameSize(Src) = ends[Len(decoded) + 1]
         /\ consumed + FrameSize(Src) <= arrived
<1> DEFINE f == written[Len(decoded) + 1]
           e == ends[Len(decoded) + 1]
<1>1. /\ Len(bytes) \in Nat /\ arrived \in Nat /\ consumed \in Nat
      /\ arrived <= Len(bytes) /\ enc \in Configs /\ dec \in Configs
  BY LenProperties DEF CodecInv, TypeOK
<1>2. consumed <= arrived
  BY DEF CodecInv, AtBoundary
<1>3. Src \in Seq(Byte) /\ Len(Src) = arrived - consumed
  BY <1>2, SrcBytes DEF CodecInv
<1>4. Complete(Src)
  BY DEF Decodable
<1>5. Len(Src) >= 8 /\ Len(Src) >= FrameSize(Src)
  BY <1>4 DEF Complete, HEADER_SIZE
<1>6. consumed < Len(bytes)
  BY <1>1, <1>3, <1>5
<1>7. /\ Len(decoded) \in Nat /\ Len(decoded) + 1 \in 1..Len(written)
      /\ \E t : IsItem(t, f) /\ e = consumed + Len(t) /\ Agree(Src, t)
  BY <1>6, HeadItem
<1>8. PICK t : IsItem(t, f) /\ e = consumed + Len(t) /\ Agree(Src, t)
  BY <1>7
<1>9. /\ t \in Seq(Byte) /\ Len(t) \in Nat /\ Len(t) >= 8
      /\ Complete(t) \/ HeaderRefused(t, dec)
      /\ Decodable(t, dec) => Decoded(t) = f /\ FrameSize(t) = Len(t)
  BY <1>1, <1>8, ItemJudged, Zenon
<1>10. Decodable(t, dec) /\ Decoded(Src) = Decoded(t) /\ FrameSize(Src) = FrameSize(t)
  BY <1>3, <1>8, <1>9, JudgedByItem, Zenon
<1>11. Decoded(Src) = f /\ FrameSize(Src) = Len(t)
  BY <1>9, <1>10, Zenon
<1>12. consumed + FrameSize(Src) = e
  BY <1>8, <1>11, Zenon
<1>13. FrameSize(Src) \in Nat /\ consumed + FrameSize(Src) <= arrived
  BY <1>1, <1>3, <1>5, <1>9, <1>11
<1> QED
  BY <1>7, <1>11, <1>12, <1>13

\* What decode() refuses is an item that deserves it.
LEMMA RefusedHead ==
  ASSUME LengthsFit, ForeignMalformed, CodecInv,
         receiver = "open", Refused(Src, dec)
  PROVE  /\ Len(decoded) + 1 <= Len(written)
         /\ \/ written[Len(decoded) + 1] = NotAFrame
            \/ HEADER_SIZE + Len(Payload(written[Len(decoded) + 1]))
                 > dec.max_frame_size
         /\ FrameSize(Src) \in Nat
<1> DEFINE f == written[Len(decoded) + 1]
<1>1. /\ Len(bytes) \in Nat /\ arrived \in Nat /\ consumed \in Nat
      /\ arrived <= Len(bytes) /\ enc \in Configs /\ dec \in Configs
  BY LenProperties DEF CodecInv, TypeOK
<1>2. consumed <= arrived
  BY DEF CodecInv, AtBoundary
<1>3. Src \in Seq(Byte) /\ Len(Src) = arrived - consumed
  BY <1>2, SrcBytes DEF CodecInv
<1>4. Len(Src) >= 8
  BY DEF Refused, HeaderRefused, Complete, HEADER_SIZE
<1>5. consumed < Len(bytes)
  BY <1>1, <1>3, <1>4
<1>6. /\ Len(decoded) \in Nat /\ Len(decoded) + 1 \in 1..Len(written)
      /\ \E t : IsItem(t, f) /\ Agree(Src, t)
  BY <1>5, HeadItem
<1>7. PICK t : IsItem(t, f) /\ Agree(Src, t)
  BY <1>6
<1>8. /\ t \in Seq(Byte) /\ Len(t) >= 8
      /\ Complete(t) \/ HeaderRefused(t, dec)
      /\ Refused(t, dec) =>
           f = NotAFrame \/ HEADER_SIZE + Len(Payload(f)) > dec.max_frame_size
  BY <1>1, <1>7, ItemJudged, Zenon
<1>9. Refused(t, dec)
  BY <1>3, <1>7, <1>8, JudgedByItem, Zenon
<1>10. FrameSize(Src) \in Nat
  BY <1>3, <1>4, FrameSizeType
<1>11. Len(decoded) + 1 <= Len(written)
  BY <1>6
<1> QED
  BY <1>8, <1>9, <1>10, <1>11, Zenon

LEMMA DecodeKeepsInv ==
  ASSUME LengthsFit, ForeignMalformed, CodecInv, Decode
  PROVE  CodecInv'
<1>1. /\ receiver = "open" /\ is_readable
      /\ UNCHANGED <<enc, dec, bytes, arrived, sender, written, ends>>
  BY DEF Decode
<1>2. ItemsLaidOut'
  BY <1>1, ItemsUnchanged DEF CodecInv
<1>3. NothingBehind'
  BY <1>1 DEF CodecInv, NothingBehind, End
<1>4. CASE /\ ~HeaderRefused(Src, dec) /\ ~Complete(Src)
           /\ is_readable' = FALSE
           /\ UNCHANGED <<consumed, decoded, receiver>>
  <2>1. TypeOK'
    BY <1>1, <1>4, Zenon DEF CodecInv, TypeOK
  <2>2. InOrder' /\ AtBoundary' /\ EndedAtEnd'
    BY <1>1, <1>4 DEF CodecInv, InOrder, AtBoundary, EndedAtEnd, End
  <2>3. WaitsForMore' /\ FailureHasCause'
    BY <1>1, <1>4, Zenon DEF CodecInv, WaitsForMore, FailureHasCause, Src
  <2> QED
    BY <1>2, <1>3, <2>1, <2>2, <2>3 DEF CodecInv
<1>5. CASE /\ Decodable(Src, dec)
           /\ decoded' = Append(decoded, Decoded(Src))
           /\ consumed' = consumed + Taken(Src)
           /\ UNCHANGED <<is_readable, receiver>>
  <2> DEFINE k == Len(decoded) + 1
  <2>1. /\ Len(decoded) \in Nat /\ k \in 1..Len(written)
        /\ Decoded(Src) = written[k] /\ FrameSize(Src) \in Nat
        /\ consumed + FrameSize(Src) = ends[k]
        /\ consumed + FrameSize(Src) <= arrived
    BY <1>1, <1>5, DecodedHead
  <2>2. /\ consumed \in Nat /\ decoded \in Seq(Message) /\ written \in Seq(Message)
        /\ Len(written) \in Nat
    BY LenProperties DEF CodecInv, TypeOK
  <2>3. written[k] \in Message
    BY <2>1, <2>2, ElementOfSeq
  <2>4. /\ decoded' \in Seq(Message) /\ Len(decoded') = k
        /\ \A i \in 1..Len(decoded) : decoded'[i] = decoded[i]
        /\ decoded'[k] = written[k]
    BY <1>5, <2>1, <2>2, <2>3, AppendProperties
  <2>5. consumed' = ends[k] /\ consumed' \in Nat /\ consumed' <= arrived
    BY <1>5, <2>1, <2>2 DEF Taken
  <2>6. TypeOK'
    BY <1>1, <1>5, <2>4, <2>5, Zenon DEF CodecInv, TypeOK
  <2>7. InOrder'
    <3>1. \A i \in 1..Len(decoded) : decoded'[i] = written[i]
      BY <2>4 DEF CodecInv, InOrder
    <3>2. \A i \in 1..k : i \in 1..Len(decoded) \/ i = k
      BY <2>1
    <3>3. \A i \in 1..k : decoded'[i] = written[i]
      BY <2>4, <3>1, <3>2
    <3>4. k <= Len(written)
      BY <2>1
    <3> QED
      BY <1>1, <2>4, <3>3, <3>4 DEF InOrder
  <2>8. AtBoundary'
    <3>1. k # 0
      BY <2>1
    <3>2. End(Len(decoded))' = ends[k]
      BY <1>1, <2>4, <3>1 DEF End
    <3> QED
      BY <1>1, <2>5, <3>2 DEF AtBoundary
  <2>9. EndedAtEnd' /\ WaitsForMore' /\ FailureHasCause'
    BY <1>1, <1>5 DEF EndedAtEnd, WaitsForMore, FailureHasCause
  <2> QED
    BY <1>2, <1>3, <2>6, <2>7, <2>8, <2>9 DEF CodecInv
<1>6. CASE /\ Refused(Src, dec)
           /\ receiver' = "failed"
           /\ consumed' = IF HeaderRefused(Src, dec) THEN consumed
                                                     ELSE consumed + Taken(Src)
           /\ UNCHANGED <<decoded, is_readable>>
  <2>1. /\ Len(decoded) + 1 <= Len(written)
        /\ \/ written[Len(decoded) + 1] = NotAFrame
           \/ HEADER_SIZE + Len(Payload(written[Len(decoded) + 1]))
                > dec.max_frame_size
        /\ FrameSize(Src) \in Nat
    BY <1>1, <1>6, RefusedHead
  <2>2. consumed' \in Nat
    BY <1>6, <2>1 DEF CodecInv, TypeOK, Taken
  <2>3. TypeOK'
    BY <1>1, <1>6, <2>2, Zenon DEF CodecInv, TypeOK
  <2>4. InOrder' /\ AtBoundary' /\ EndedAtEnd' /\ WaitsForMore'
    BY <1>1, <1>6 DEF CodecInv, InOrder, AtBoundary, EndedAtEnd, WaitsForMore
  <2>5. FailureHasCause'
    BY <1>1, <1>6, <2>1 DEF FailureHasCause
  <2> QED
    BY <1>2, <1>3, <2>3, <2>4, <2>5 DEF CodecInv
<1> QED
  BY <1>4, <1>5, <1>6, Zenon DEF Decode

LEMMA StutterKeepsInv ==
  ASSUME CodecInv, UNCHANGED vars
  PROVE  CodecInv'
<1>1. UNCHANGED <<enc, dec, bytes, arrived, consumed, is_readable, sender, receiver,
                  written, ends, decoded>>
  BY DEF vars
<1>2. TypeOK'
  BY <1>1, Zenon DEF CodecInv, TypeOK
<1>3. ItemsLaidOut'
  BY <1>1, ItemsUnchanged DEF CodecInv
<1>4. NothingBehind' /\ InOrder' /\ AtBoundary' /\ EndedAtEnd'
  BY <1>1 DEF CodecInv, NothingBehind, InOrder, AtBoundary, EndedAtEnd, End
<1>5. WaitsForMore' /\ FailureHasCause'
  BY <1>1, Zenon DEF CodecInv, WaitsForMore, FailureHasCause, Src
<1> QED
  BY <1>2, <1>3, <1>4, <1>5 DEF CodecInv

LEMMA CodecInvStep ==
  ASSUME LengthsFit, ForeignMalformed, CodecInv, [Next]_vars
  PROVE  CodecInv'
<1>1. ASSUME NEW f \in FramesOf(enc.version), Encode(f) PROVE CodecInv'
  BY <1>1, EncodeKeepsInv
<1>2. ASSUME NEW item \in ForeignItems, ForeignWrite(item) PROVE CodecInv'
  BY <1>2, ForeignWriteKeepsInv
<1>3. ASSUME NEW n \in arrived..Len(bytes), Hangup(n) PROVE CodecInv'
  BY <1>3, HangupKeepsInv
<1>4. CASE Decode
  BY <1>4, DecodeKeepsInv
<1>5. ASSUME NEW n \in PieceSizes, Read(n) PROVE CodecInv'
  BY <1>5, ReadKeepsInv
<1>6. CASE ReadEof
  BY <1>6, ReadEofKeepsInv
<1>7. CASE UNCHANGED vars
  BY <1>7, StutterKeepsInv
<1> QED
  BY <1>1, <1>2, <1>3, <1>4, <1>5, <1>6, <1>7, Zenon DEF Next, Receive

-----------------------------------------------------------------------------
(* The theorems *)

\* A max_frame_size of at most a header and 65535 bytes is enough for them: the
\* default of 32768 is.
LEMMA SmallFramesFit ==
  ASSUME \A c \in Configs : c.max_frame_size <= 65543
  PROVE  LengthsFit
<1> SUFFICES ASSUME NEW c \in Configs, NEW data \in Payloads,
                    8 + Len(data) <= c.max_frame_size
             PROVE  Len(data) < 65536
  BY SMT DEF LengthsFit, HEADER_SIZE
<1>1. Len(data) \in Nat /\ c.max_frame_size \in Nat
  BY ConfigsAssumption, PayloadsAssumption, LenProperties, SMT DEF ConfigRecord
<1> QED
  BY <1>1, SMT

\* The invariant holds of every behaviour.
LEMMA CodecInductive ==
  ASSUME LengthsFit, ForeignMalformed
  PROVE  Spec => []CodecInv
<1>1. Init => CodecInv
  BY CodecInvInit
<1>2. CodecInv /\ [Next]_vars => CodecInv'
  BY CodecInvStep
<1> QED
  BY <1>1, <1>2, PTL DEF Spec

LEMMA InvImpliesBoundary ==
  ASSUME CodecInv PROVE OnBoundary
<1>1. decoded = << >> <=> Len(decoded) = 0
  BY EmptySeq DEF CodecInv, TypeOK
<1> QED
  BY <1>1 DEF CodecInv, AtBoundary, EndedAtEnd, OnBoundary, End

LEMMA InvImpliesInOrder ==
  ASSUME CodecInv PROVE DecodedInOrder
<1> DEFINE n == Len(decoded)
           s == SubSeq(written, 1, n)
<1>1. /\ decoded \in Seq(Message) /\ written \in Seq(Message)
      /\ n \in Nat /\ Len(written) \in Nat /\ n <= Len(written)
      /\ \A i \in 1..n : decoded[i] = written[i]
  BY LenProperties DEF CodecInv, TypeOK, InOrder
<1>2. \A i \in 1..n : written[i] \in Message
  BY <1>1, ElementOfSeq
<1>3. /\ s \in Seq(Message) /\ Len(s) = (IF 1 <= n THEN n - 1 + 1 ELSE 0)
      /\ \A i \in 1..n - 1 + 1 : s[i] = written[1 + i - 1]
  BY <1>1, <1>2, SubSeqProperties
<1> HIDE DEF s
<1>4. Len(s) = n /\ \A i \in 1..n : s[i] = written[i]
  BY <1>1, <1>3
<1>5. decoded = s
  BY <1>1, <1>3, <1>4, SeqEqual
<1> QED
  BY <1>1, <1>5 DEF DecodedInOrder, s

\* decode() takes exactly the bytes of the frames it returns, in whatever pieces
\* they arrive, and recv_loop sees the end of the connection as an end only on
\* a frame boundary.
THEOREM FrameBoundaryKept ==
  ASSUME LengthsFit, ForeignMalformed
  PROVE  Spec => []OnBoundary
  BY CodecInductive, InvImpliesBoundary, PTL

\* decode() fails at a malformed frame, at one above the reader's own limit, at
\* one cut short by the end of the connection, and at no other.
THEOREM FailuresHaveCause ==
  ASSUME LengthsFit, ForeignMalformed
  PROVE  Spec => []FailureHasCause
<1>1. CodecInv => FailureHasCause
  BY DEF CodecInv
<1> QED
  BY <1>1, CodecInductive, PTL

\* The frames recv_loop gets are the first of those encoded, whole: a length
\* that does not fit in its u16 is the only thing that can break this.
THEOREM FramesDecodedInOrder ==
  ASSUME LengthsFit, ForeignMalformed
  PROVE  Spec => []DecodedInOrder
  BY CodecInductive, InvImpliesInOrder, PTL

\* A write is a Send, a frame that decode() returns a Deliver, and nothing else
\* changes what was sent or delivered.
LEMMA StepIsFifo ==
  ASSUME LengthsFit, ForeignMalformed, CodecInv, [Next]_vars
  PROVE  [FF!Next]_<<written, decoded>>
<1>1. ASSUME NEW f \in Message, NEW t, Write(t, f), UNCHANGED decoded
      PROVE  FF!Next
  BY <1>1 DEF Write, FF!Next, FF!Send, Message
<1>2. ASSUME NEW f \in FramesOf(enc.version), Encode(f)
      PROVE  [FF!Next]_<<written, decoded>>
  <2>1. f \in Message
    BY DEF CodecInv, TypeOK, Message
  <2> QED
    BY <1>1, <1>2, <2>1, Zenon DEF Encode
<1>3. ASSUME NEW item \in ForeignItems, ForeignWrite(item)
      PROVE  FF!Next
  <2>1. NotAFrame \in Message
    BY DEF Message
  <2> QED
    BY <1>1, <1>3, <2>1 DEF ForeignWrite
<1>4. CASE Decode
  <2>1. receiver = "open" /\ UNCHANGED written
    BY <1>4 DEF Decode
  <2>2. CASE Decodable(Src, dec) /\ decoded' = Append(decoded, Decoded(Src))
    <3>1. /\ Len(decoded) \in Nat /\ Len(decoded) + 1 \in 1..Len(written)
          /\ Decoded(Src) = written[Len(decoded) + 1]
      BY <2>1, <2>2, DecodedHead
    <3>2. Len(decoded) < Len(written)
      BY <3>1
    <3> QED
      BY <2>1, <2>2, <3>1, <3>2, Zenon DEF FF!Next, FF!Deliver
  <2>3. CASE UNCHANGED decoded
    BY <2>1, <2>3
  <2> QED
    BY <1>4, <2>2, <2>3, Zenon DEF Decode
<1>5. CASE UNCHANGED <<written, decoded>>
  BY <1>5
<1>6. ASSUME NEW n, Hangup(n) \/ Read(n) \/ ReadEof \/ UNCHANGED vars
      PROVE  UNCHANGED <<written, decoded>>
  BY <1>6 DEF Hangup, Read, ReadEof, vars
<1> QED
  BY <1>2, <1>3, <1>4, <1>5, <1>6, Zenon DEF Next, Receive

\* The codec implements the first-in first-out channel of whole frames that the
\* sessions take their transport to be.
THEOREM CodecIsFrameFifo ==
  ASSUME LengthsFit, ForeignMalformed
  PROVE  Spec => ImplementsFrameFifo
<1>1. Init => FF!Init
  BY DEF Init, FF!Init
<1>2. CodecInv /\ [Next]_vars => [FF!Next]_<<written, decoded>>
  BY StepIsFifo
<1> QED
  BY <1>1, <1>2, CodecInductive, PTL DEF Spec, ImplementsFrameFifo, FF!Spec
=============================================================================
