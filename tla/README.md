# smux: a TLA+ model of sessions, streams and the codec

smux is a Rust crate that multiplexes byte streams over one connection. This
directory models its protocol core as two ends ("client" and "server") that both
run the crate, and the transport between them: sessions and streams
(`src/session.rs`, `src/stream.rs`), the codec under them (`src/codec.rs`,
`src/frame.rs`, `src/command.rs`), the keep-alive timers, and the configurations
(`src/config.rs`). TLC checks it on small instances and
TLAPS proves part of it for all of them.

## The system

| Component | State | Operations | Interacts with |
|---|---|---|---|
| `Session` (`session.rs`) | the stream map, id counter, frame channel, accept channel | `open_stream`, `accept_stream`, `close`, drop | its three tasks, the Streams it makes |
| `SessionState` | `closed`, the `die` notifier, `tokens`, `data_received` | `close`, `return_tokens`, `take_tokens`, `check_and_reset_data_received` | shared by tasks and Streams |
| `recv_loop` | position at its awaits | decode a frame, run its handler | transport, map, accept channel, data channels |
| `send_loop` | owns `frame_rx` | take a frame, write it | frame channel, transport |
| `keep_alive_loop` | two intervals | ping, timeout | frame channel, `SessionState` |
| `Stream` (`stream.rs`) | `data_rx`, `current_chunk`, two flags | `poll_read`, `poll_write`, `poll_shutdown`, `close`, `Drop` | frame channel, `SessionState` |
| id allocation | an `AtomicU32` | `next_stream_id`, `validate_peer_stream_id` | `open_stream`, SYN handler |
| `Frame`, `Command` | - | constructors, `validate` | codec |
| `Codec` (`codec.rs`) | - | `encode`, `decode` | the two transport loops |
| `Config`, `SmuxError` | - | builder, `validate` | constants of everything else |

What is hard here: the tasks and the application run concurrently and meet in
bounded channels that suspend their senders (`send_async`) or refuse them
(`try_send`); `notify_waiters` reaches only those already waiting; the end of a
stream is inferred from a channel that disconnects; every task can end for its
own reason while the others are suspended; the id counter wraps; frames arrive in
pieces; the keep-alive timers of both ends run in any phase and may be held up. What has to be
right: a Stream is an ordered, reliable byte stream with a truthful end; stream
frames keep their order although they enter the channel in five ways; a SYN
never disturbs another stream; the decoder keeps to the frame boundaries; a live
peer is not timed out and a dead one is; a session whose tasks are gone says so;
what was accepted arrives. The list of hazards, each at its line, is in `PROJECT.json`.

## Modules

| Module | Models |
|---|---|
| `StreamIds` | parity of ids, `fetch_add(2)` on a u32, overflow test, `validate_peer_stream_id` |
| `IdAllocation` | `next_stream_id` by itself, with calls made after the overflow error |
| `SmuxState` | constants, variables, frames with `Frame::validate`, channels, `SessionState` |
| `Stream` | one action per outcome of a Stream operation that changes state |
| `Session` | `open_stream`, `accept_stream`, `close`, the three tasks, all frame handlers; composes `Stream` with them and the transport |
| `Config` | the fields, their defaults, the builder, `validate` |
| `Codec` | `encode` and `decode` on bytes, between a writer and a reader that `FramedRead` drives |
| `KeepAlive` | `keep_alive_loop` of both ends on a clock, and the properties checked of it |
| `FrameFifo` | the abstract specification of the codec: frames arrive whole, once, in order |
| `CodecProperties` | what is checked of `Codec`, and its refinement of `FrameFifo` |
| `BytePipe` | the abstract specification of a Stream: two byte pipes |
| `SessionProperties` | what is checked of `Session`, and its refinement of `BytePipe` |
| `MCSession`, `MCIdAllocation`, `MCCodec`, `MCKeepAlive` | the instances for TLC |
| `IdAllocationProofs` | theorems about `IdAllocation` |
| `SessionProofs`, `SessionSafetyProofs` | theorems about one session, whatever its peer sends |
| `PipeProofs`, `StreamProofs`, `BytePipeProofs` | theorems about the streams between two sessions of this crate |
| `KeepAliveProofs` | theorems about `KeepAlive` |
| `CodecProofs` | theorems about `Codec`, and that it implements `FrameFifo` |

How the state corresponds to the code:

* Variables have the names of the fields they stand for and are functions of the
  end (and of the stream id). `streams[e]` is the key set of the DashMap; a key
  owns the `data_tx` of its stream, so a stream is disconnected for its reader
  when its key is gone, or the whole map is: `InnerDropped` says that the three
  tasks and the application's handle, the owners of the `SessionInner`, are gone. `handle` is what happens to the Stream object: being
  opened, waiting for its SYN to be taken, in the accept channel, in the hands of
  the application, in the await of `close()`, dropped.
* A payload is the interval of positions it has in what the writer wrote, so a
  lost, doubled or reordered byte is visible in `got`.
* `frame_ch` is flume's bounded channel: the first `FrameCap` messages are in the
  channel, those behind belong to calls suspended in `send_async`, in their order.
  `accept_ch` likewise, with at most the one `recv_loop` waits to hand over.
* `die[e][t]` is the `Notified` future of task `t`: none, armed or fired. Going
  round a loop replaces the future, so a notification can be lost when `select!`
  takes another ready branch, as in tokio.
* `wire[e]` holds the frames written by `e`; a frame beyond `WireCap` is the one
  `sink.send()` still waits for. `link` may break once. A transport is closed
  for its peer when both halves, that is both loops, are gone.
* `sent`, `got`, `eof` and `fin_sent` are history.

The code of a task between two awaits is one step; awaits that may suspend are
separate states (`recv_pc`, `send_pc`, `keep_pc`, `accept_pc`, `handle`).
`accept_stream` is cut between its test of `is_closed()` and the creation of its
future, `poll_read` and `poll_write` behind their test (`PollReadBegin`,
`PollWriteBegin`; `polling` holds the Streams in between): other threads may close
the session, end its tasks and drop its map before the call goes on. `open_stream` is
not cut behind its test: the rest of that step, the id and the map entry, touches
nothing that `close()` touches, so the two commute. `poll_shutdown`, `close` of a
Stream and `Drop` do not look at the session's flag. Calls that fail at their first
test change nothing and are no steps.

The layers are composed by their contracts. `Codec` implements `FrameFifo`, a
queue of whole frames that may be cut off; that is what `wire` is in `Session`,
with the codec's verdict on a frame as `Validate`. `Session` implements `BytePipe`.
`KeepAlive` uses of `Session` that any frame sets `data_received` and that tokens
are there unless the receive buffer is 0 (`NeverThrottled` in `SessionProofs`,
`NobodyReturnsTokens`).
Each end has its own configuration: `Conf` in `Session`, `enc` and `dec` in `Codec`,
`config` in `KeepAlive`.

`Codec` has one direction of a connection. `bytes` is all the transport carries,
`arrived` and `consumed` delimit the decoder's buffer, `is_readable` is
`FramedRead`'s flag of that name: it decodes until `decode` wants more, then reads.
Header fields have their real widths, the length is cast to 16 bits as `as u16`
does. A failing `encode` ends the writer, a failing `decode` the reader. `Hangup`
ends the connection with any part of what has not arrived lost. `written`, `ends`
and `decoded` are history.

`KeepAlive` counts down to the next tick of each interval; time passes when no
task is ready and no frame is due. tokio's `interval` ticks at once and makes up
for missed ticks in a burst, so a timer may be overdue (below 0). `Stall` stands for
a full frame channel that nobody takes from. `Die` is a host that is gone without
closing anything. `silence`, `late`, `timed_out` and `stalls` are history.

Abstractions and bounds of the model:

* One call of `accept_stream` at a time per end. `ConfigAssumption` states what
  `Session` assumes of a configuration: the frame channel's capacity is at
  least 1 (one of capacity 0 is a rendezvous), the version is not 0, with
  which no frame could be encoded, the intervals of a `keep_alive_loop` that runs are not
  0 (`interval(0)` panics, and the task ends without closing the session), and a payload
  has at most 65535 bytes, so that its length fits (`doc_frame_length` shows what
  happens above).
* Writers stop after `MaxBytes` per stream, applications open at most `MaxOpens`
  streams, ids that come round a second time are left to `IdAllocation`. After an
  overflow a server does open stream 0 in the model: its SYN is refused by
  `Frame::validate` in the encoder, and the session closes.
* `ForeignFrames`, what a foreign peer sends, include ones that do not validate, which end `recv_loop`. They have
  no data, and in the run no FIN: a Stream is identified by its id, and a foreign
  peer could reuse one after its FIN.
* In `Session` the timers of `keep_alive_loop` tick at any moment.
* `Codec`: up to `MaxFrames` frames, reads of `PieceSizes` bytes. A Stream puts
  version 1 into its PSH and FIN frames whatever the session's version is, and so
  does the writer here.
* `KeepAlive`: whole time units, delays up to `MaxDelay`, the second session at most
  `MaxSkew` after the first, each way stalled at most once, a timer counted as at
  most `MaxLag` overdue. Intervals are at least 1 (`interval(0)` panics).
* Left out because no step reaches them: the `Err` branch of `frame_rx` in
  `send_loop` and of the accept channel in the SYN handler (`SessionInner`, which
  each task holds, owns the other end), and the `tokens_returned` branch of the PSH
  handler (`NeverThrottled` and `NobodyReturnsTokens` say why).

## Runs

Most of them are instances of `MCSession`, differing in their constants and in
what the applications do. Deadlock is not checked: sessions and connections end.
In `MCSession` the channels hold one frame, the transport none or one, so that
every send can be suspended; one byte fills a frame in most runs, two in
`transfer`, where reads are shorter than frames.

| Run | Checks | Shows |
|---|---|---|
| `id_allocation` | `TypeOK`, `FreshUntilOverflow`, `EndsDisjoint` | a four-bit counter, past its wrap: until the overflow error ids are fresh and acceptable; the ends never share one |
| `transfer` | `DeliveredInOrder`, `EofIsTruthful`, `SynFirstFinLast`, `DataHasReceiver`, `FinStaysUntilHandled`, `ImplementsBytePipe` | one stream, both directions, half-close and drop on both ends: it implements `BytePipe` |
| `closing` | `TypeOK`, `EofIsTruthful`, `GoneTaskMeansClosed`, `WaitersAreSuspended` | close, cancelled calls, a dropped Session and a breaking connection at any moment, also inside a read or write, and the overflow of the counter |
| `streams` | `DataHasReceiver`, `DeliveredInOrder`, `AcceptQueueExact`, `OpenNeverCollides` | streams of both ends next to a foreign peer's repeated SYNs, SYNs of the wrong parity and frames that do not decode, a full accept channel, the wrap of the server's counter and stream 0 |
| `waiting` | `GoneTaskMeansClosed`, `WaitersAreSuspended`, `NobodyReturnsTokens` | ends configured differently: a receive buffer of 0, which `Session::new` does not refuse, where only `close()` ends the wait for tokens; frames above the reader's limit; pings and SYNs waiting for room behind one another, timeouts, cancelled calls, a dropped Session |
| `progress` | `EventuallyDelivered`, `FinEventuallyHandled`, `BrokenLinkCloses` | liveness, on a transport that takes a frame only when it is read and may break |
| `codec` | `OnBoundary`, `FailureHasCause`, `ImplementsFrameFifo`, `EventuallyDecoded` | any two of three configurations, every kind of frame and of malformed frame, reads of 1, 7 and 34 bytes (inside a header, to its last byte, two frames at once), the connection ending anywhere |
| `keep_alive` | `SilenceIsNoticed`, `IdleStaysUp`, `TimeoutIsSilence` | any two of three configurations, all phases, a stalled client, a dying server |
| `doc_accept` | `AcceptReturns` (violated) | a close between test and wait hangs `accept_stream` |
| `doc_frame_length` | `DecodedInOrder` (violated) | a payload of 65536 bytes goes out with length 0 |
| `doc_keep_alive` | `DeadPeerDetected` (violated) | a peer that dies while the frame channel is full is never timed out |
| `doc_flow_control` | `ReceiveBufferBounded` (violated) | delivered data takes no tokens: nothing bounds the buffer of a Stream that nobody reads |

The violated properties state what a document or comment of the repository says;
`PROJECT.json` quotes it under "findings". Each property of a passing run has a
mutant: a version of an operation with a plausible mistake, under which TLC finds
the property violated.

What `keep_alive` does not promise, and why its properties have exceptions: a
ping that waits for room keeps the loop from looking at its timeout
(`doc_keep_alive`), and when it goes on, the ticks it missed come in a burst. Two
of them then follow one another with no frame between them, and a session whose
peer lives is closed. `TimeoutIsSilence` excepts these late ticks, `IdleStaysUp`
holds while no way has been stalled.

What `EofIsTruthful` does not promise: `poll_read` finds the session open, then the
application drops its last Session handle and the last task ends, all before the
call looks at `data_rx`. The map is gone, `data_rx` is disconnected, and the read
returns EOF although the peer has not finished; the next read fails with
BrokenPipe. The other exception is a receive buffer of 0, where `close()`
makes `recv_loop` throw away the data it waits with, and go on to a FIN behind it.
Both need a session that is closed; `closing` reaches the first.

More disagreements were met and have no run:

* a read with an empty buffer skips `current_chunk`, takes the next chunk and stores
  it over what is left of the first (`stream.rs:182`): bytes are lost, although
  specs/006-stream.md:3 has an "ordered, reliable, bidirectional byte stream". The
  model does the same when 0 is in `ReadSizes`; the runs read with non-empty buffers;
* a FIN of `Drop` is lost when the channel is full, which the code calls best effort
  (`stream.rs:295`) and tasks/05-stream-implementation.md:21 does not ("ensure `FIN` is
  sent"); `close()` sets `is_write_closed` before it awaits room for its FIN, and if
  the future is dropped there no FIN is ever sent, by `Drop` neither
  (wiki/session-stream-lifecycle.md:58: "a `FIN` frame is sent to the peer, and
  `is_write_closed` is set"). `SynFirstFinLast` and `FinStaysUntilHandled` are about FINs
  that were queued;
* nothing but a FIN or data of the peer removes the map entry of a Stream that its
  application has dropped (specs/005-session.md:114: "The `Session` removes the stream
  from its `streams` map"); with a silent peer it stays until the session ends;
* after the session has shut down `poll_read` fails with BrokenPipe, also with data in
  its queue. specs/006-stream.md:69 ("it means the `Session` has shut down. `poll_read`
  will return EOF once the `read_buffer` is fully drained"),
  wiki/session-stream-lifecycle.md:90 and the comment `stream.rs:551` say EOF; the
  assertion under that comment expects the error. `EofIsTruthful` follows the code:
  a session that shuts down is not the end of its streams;
* dropping the Session stops no task, each of which holds the `SessionInner`
  (wiki/session-stream-lifecycle.md:77);
* the `is_read_closed` that a FIN sets is the `StreamState`'s and not the Stream's,
  which nothing sets (wiki/session-stream-lifecycle.md:59);
* `close()` is lost by a background task that is not waiting at that moment, for
  the reason `doc_accept` shows (tasks/04-session-implementation.md:38);
* the map entry goes when a FIN arrives, also if the own write side is open
  (specs/006-stream.md:96 keeps it until both are closed); the Stream needs it no
  more, as it only carries received data;
* ids repeat if `open_stream` is called again after the overflow error
  (specs/005-session.md:100).

Why the bounds are enough: the invariants relate one stream, one channel and one
task of each end. One stream with four bytes each way in frames of two, read singly, reaches
every mix of partly read chunk, queue, frame channel, suspended sender and
transport; two opened ids reach the overflow; two ids of a foreign peer and the
own one fill an accept channel of one and suspend `recv_loop`. Two frames reach
every relation of a read to a frame boundary: inside the first header or payload,
on the boundary, across it. Its limits are 7 (no frame fits), 15 (a frame, but no
UPD) and 17 (the longest frame exactly). An interval of 2 or 3 against a timeout of
4 with a delay of 1 has pings well within the timeout and pings that just fail it;
one stall and one death reach every order of stall, death, tick and burst. The
theorems have no bounds.

### Fairness

`codec`: weak fairness of `Receive`, `recv_loop` polling `stream.next()`, and nothing
about the writer or the connection.

`FairTasks` is weak fairness of `recv_loop` and `send_loop`: tokio polls a woken
task again. Nothing is assumed of the connection, of the order of ready `select!`
branches, or of `keep_alive_loop`. `FairApp` is an assumption on the user of the
crate, not on the crate: it finishes the calls it has begun, calls `accept_stream`
in a loop (as the crate's documentation asks) and, when a Stream is in no other call,
reads from it (`StreamGoesOn`, weakly fair for each Stream); it need not
write, finish or drop anything. `poll_read` and `poll_write` wake themselves when
they return Pending, so that a waiting reader or writer is polled again.

## Proofs

`IdAllocationProofs`, for every counter width and number of calls. `IndInv` adds to
`TypeOK` that every counter keeps the parity of its end across the wrap, that
issued ids have it too (`Parity`), and that before an overflow the issued ids are
the arithmetic progression from the initial id up to the counter (`Progression`). From it: `TypeCorrect`, `Freshness`, `Disjointness`.

`SessionProofs`, for every configuration, all operations of both applications,
any set of foreign frames and a connection that may break:

* `TypeCorrect`: `Spec => []TypeOK`. `TypeOK` is inductive; one lemma per action.
* `Unthrottled`: `Spec => []NeverThrottled`, an invariant that is stated there and no run
  checks, as it is why the bound of `doc_flow_control` fails. With a receive
  buffer above 0 the tokens of an end only grow: nothing but `PshWait` takes any, and it needs a bucket that is empty.
  Inductive together with `TypeOK`.
* `NoSilentExit`: `Spec => []GoneTaskMeansClosed`. Not inductive: `keep_alive_loop`
  may leave because the frame channel is gone or it was notified, and the other
  loops may be notified. The strengthening adds that a fired notification means
  that the session is closed (`NoticeMeansClosed`); `CloseInv` is both.

`SessionSafetyProofs`, with the same generality:

* `NothingReturnsTokens`: `Spec => []NobodyReturnsTokens`, by an invariant of each end
  (`Unfed`) that every action keeps.
* `FreshIds`: `Spec => []OpenNeverCollides`. Inductive is `CounterAhead`: until the
  wrap, the ids of the own parity in the map are below the counter, which is the
  initial id plus two for each call. Ids from SYNs have the other parity.

The other three modules are about two sessions of this crate: their hypothesis is
`NoForeign`, no foreign frames. It is needed. A foreign peer may use an id
again after its FIN, or send a FIN for a stream it never opened, and the properties
of order are about one use of an id.

`PipeProofs` reduces the steps to moves. `Pipe(w)` is everything `w` has sent that
its peer has not read, whether it waits for room, is in the frame channel or in
the transport. `In` and `Before` say which frames are in it and which of two comes
first. Each step of `Next` is one of eighteen moves (`Move`): the sequence stays,
gets a frame at its end, loses its first frame (`recv_loop`), its end (`send_loop`
is gone) or one frame in the middle (a suspended call is cancelled), while one
Stream changes. `NextMove` proves that; everything below goes by moves.

`StreamProofs` has two inductive invariants.

* `Origin`: an id is opened by the end of its parity, a stream an end has never had
  has no state there, every frame belongs to a Stream its sender has had, a SYN is
  on its way only to a peer that does not know the stream and has nothing of its
  stream before it, and the accept channel holds the queued Streams once each.
* `Order`: nothing follows a FIN, frames to a peer that does not know their stream
  are behind its SYN, nothing follows a SYN whose `open_stream` is suspended, a
  session forgets a Stream in use only behind the last data for it, and a FIN that
  was sent is on its way or was handled.

Neither the position of the SYN nor that of the FIN is inductive alone: a SYN that is
withdrawn must have nothing behind it, and a peer that has forgotten a stream must
not get data for it. From the two invariants follow `SynOpensFinCloses`,
`DataFindsReceiver`, `FinIsNotLost` and `AcceptQueue`.

`NobodyWaitsInVain` has an invariant of its own, `Fits`: a channel whose `send_loop` is
gone is empty, no frame waits in it twice, and a frame that waits belongs to a
suspended call. That a call that is suspended does not end otherwise rests on
`Origin`: a SYN is never for a stream that its receiver has in use.

`BytePipeProofs` has a further hypothesis, `NonzeroReads`: the application does not
read with an empty buffer, which loses data. Its invariant is
`Bytes`:

* `Reader`: what was read, the current chunk and the queue are consecutive;
* `WithinSent`, `DataOrdered`: the data on its way was written, and is in order;
* `NoGap`: each piece of it begins where what has arrived ends, or where a piece
  before it ends;
* `NoneMissing`: what was written has arrived, or its last piece is on its way, as
  long as `send_loop` lives or the FIN is on its way too;
* `AllArrived`: once the session has forgotten a stream, all of it has arrived;
* `EofThere`: behind an EOF there is nothing.

`NoGap` and `NoneMissing` are only true of an end that throws no data away: one with
a receive buffer, or one that is not closed and does not wait for tokens
(`WholeEnds`); a Stream that the application has dropped is excepted too. So they
rest on `Unthrottled`, `NothingReturnsTokens` and `CloseInv`. From `Bytes` follow
`BytesInOrder`, `EofMeansComplete` and `StreamsAreBytePipes`.

`EofMeansComplete` needs that the exceptions of `EofIsTruthful` last: a session that has
lost its last owner never has one again (`InnerStays`), and a closed one stays
closed, so an EOF reported under an exception stays under it.
`StreamsAreBytePipes`, `Spec => ImplementsBytePipe`, has no exceptions and therefore a
third hypothesis, `SessionsKept`: the applications keep their Session handles, and
the receive buffers are not 0. Then a `SessionInner` is never dropped
(`HeldInvariant`). It has one lemma for each action of `BytePipe`.

`KeepAliveProofs`, for all configurations a loop can run with, all delays,
phases, stalls and deaths. An invariant of each end:

* `Heard`: the timer bounds the silence from above. With the flag set the last frame
  came after the last tick of `timeout_interval`, without it after the tick before.
* `Unheard`: it bounds it from below, when the last tick was not late.
* `OnTime`: while nothing has been stalled no tick is late, and an end that has
  closed has its end of connection on its way, or its peer is closed too.
* `Awaited`: while an end has heard nothing since its last tick, the first thing on
  its way from a compatible peer that lives, or else its next ping and the delay,
  comes before the next tick.

The first two give `NoticesSilence` and `OnlySilenceTimesOut`, the others
`IdleSessionsStay`. `IdleStaysUp` alone says nothing of the state before a timeout:
`Awaited` is what a tick of the clock, a ping and a look at the flag preserve.

`CodecProofs`, for all configurations of the two ends, all frames, payloads and UPD
numbers of their types, reads of any size, and a connection that ends at any byte.
Two hypotheses:

* `LengthsFit`: a payload that passes `max_frame_size` is shorter than 65536 bytes.
  `SmallFramesFit` derives it from a `max_frame_size` of at most 65543, so it holds for
  the default. It is needed: `validate()` allows up to 16 MiB, and `doc_frame_length`
  shows what happens then.
* `ForeignMalformed`: every reader refuses the foreign items, which is what `written`
  takes them for. Nothing is assumed of the frames behind them.

First the data. `FrameRoundTrip`: what `encode` writes for a frame is complete, its
length field is its length, and `decode` makes the same frame of it; below it lie
the round trips of a u16, a u32, a command byte, a header and the numbers of a UPD,
with their real widths. `JudgedByItem`: whether `decode` takes or refuses a buffer
is decided by the item at its head, not by how much of it, or of what follows, has
arrived.

Then the behaviour. None of the properties is inductive, as none says what the
bytes in the buffer are. `CodecInv` does:

* `ItemsLaidOut`: the bytes between `ends[k-1]` and `ends[k]` are those of the k-th
  item, as far as the connection carried them;
* `NothingBehind`: the items are all there is, and none is cut short while the
  connection is up;
* `InOrder`, `AtBoundary`: what was decoded is a prefix of what was written, and the
  decoder stands where it ends;
* `WaitsForMore`: `FramedRead` reads on only if `decode` can make nothing of the buffer.
  Without it an error at the end of the connection could not be blamed on a
  frame that was cut short;
* `EndedAtEnd`, `FailureHasCause`.

From it: `FrameBoundaryKept` (`Spec => []OnBoundary`), `FailuresHaveCause`
(`Spec => []FailureHasCause`), `FramesDecodedInOrder` (`Spec => []DecodedInOrder`,
which fails without `LengthsFit`) and `CodecIsFrameFifo` (`Spec =>
ImplementsFrameFifo`): a write is a `Send`, a frame returned by `decode` a `Deliver`,
every other step a stutter.

The strengthened invariants were checked with TLC on the instances of `transfer`,
`closing`, `waiting`, `keep_alive` and `codec` before they were proved.

The constants are assumed to be what the code makes them: `U32MaxAssumption`
(2^w - 1), `ConfigAssumption` (above), `MaxCallsAssumption`, `ConfigsAssumption` (a
loop that runs has no interval of 0), `TimesAssumption`. In
`Codec` they are the types of its inputs: configurations are `ConfigRecord`s, payloads
and foreign items sequences of bytes, ids and UPD numbers u32, and a read that
brings bytes brings at least one. TLC evaluates them in every run.
The instance of `transfer` satisfies `NoForeign`, `NonzeroReads` and `SessionsKept`, that of `codec`
satisfies `LengthsFit` and `ForeignMalformed`.

Every invariant and refinement that a passing run checks is proved, and so is the
action property of `keep_alive`. Only model-checked: liveness (`EventuallyDelivered`, `FinEventuallyHandled`,
`BrokenLinkCloses`, `EventuallyDecoded`), because fairness and ENABLED are out of the
prover's reach.

## Plan

Done: all modules above, their runs, the theorems above. What could follow: ids that
are used a second time, in `Session`, and foreign peers that send data and FINs.

## Not modelled

`error.rs` and `lib.rs` (values and re-exports), the benchmark, tests,
Go fixtures and examples (drivers of the crate). In `frame.rs` and
`command.rs`, accessors that nothing calls. The lines of the sources that are left
are unit tests, documentation comments and accessors.
