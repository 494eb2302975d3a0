--------------------------- MODULE MCIdAllocation ----------------------------
(* IdAllocation with a four-bit counter: twelve calls go past the wrap.     *)
EXTENDS IdAllocation
==============================================================================
