------------------------------- MODULE Config --------------------------------
(* Config and ConfigBuilder (config.rs).  Sizes are in bytes, durations in    *)
(* seconds.  Only build() validates: Session::new takes any Config.           *)
EXTENDS Integers

ConfigRecord ==
  [version : 0..255, enable_keep_alive : BOOLEAN,
   keep_alive_interval : Nat, keep_alive_timeout : Nat,
   max_frame_size : Nat, max_receive_buffer : Nat,
   max_receive_channel_buffer_size : Nat, max_stream_buffer : Nat]

Default ==
  [version |-> 1, enable_keep_alive |-> TRUE,
   keep_alive_interval |-> 10, keep_alive_timeout |-> 30,
   max_frame_size |-> 32 * 1024, max_receive_buffer |-> 4 * 1024 * 1024,
   max_receive_channel_buffer_size |-> 512, max_stream_buffer |-> 64 * 1024]

ConfigValid(c) ==
  /\ c.version # 0
  /\ c.enable_keep_alive => c.keep_alive_timeout > c.keep_alive_interval
  /\ c.max_frame_size \in 1..(16 * 1024 * 1024)
  /\ c.max_receive_buffer >= c.max_frame_size
  /\ c.max_stream_buffer # 0

\* ConfigBuilder: new() starts from the default, and there is one setter for
\* each field.
BuilderNew == Default
SetField(c, field, value) == [c EXCEPT ![field] = value]

\* The configurations build() returns for the given builders.
Build(builders) == {c \in builders : ConfigValid(c)}
==============================================================================
