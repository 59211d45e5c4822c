------------------------------- MODULE MCRfHost -------------------------------
(* A radio for TLC that holds two events and a frame unread.                *)
EXTENDS RfHost

Kinds   == {"event", "tx", "rx", "wake"}
Buffers == [k \in Kinds |-> IF k = "event" THEN 2 ELSE IF k = "rx" THEN 1 ELSE 0]
=============================================================================
