----------------------------- MODULE MCKeepAlive -----------------------------
(* KeepAlive with small configurations. *)
EXTENDS KeepAlive

Every(interval, timeout) ==
  SetField(SetField(BuilderNew, "keep_alive_interval", interval), "keep_alive_timeout", timeout)

\* Frequent pings, pings just within the timeout, and none.
SmallConfigs ==
  Build({Every(2, 4), Every(3, 4), SetField(Every(2, 4), "enable_keep_alive", FALSE)})

OneConfig == Build({Every(1, 2)})
ClientOnly == {"client"}
ServerOnly == {"server"}
==============================================================================
