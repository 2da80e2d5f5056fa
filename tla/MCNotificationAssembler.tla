---------------------- MODULE MCNotificationAssembler ----------------------
(* Instances of NotificationAssembler: the frames of a link, and their bodies. *)
EXTENDS NotificationAssembler

\* An event without a value, readings of one float, and a frame longer than two
\* notifications (machine info).
Telemetry == <<18, 30, 12, 16>>

\* Bodies in which a stray length field reads as a length, or beyond any.
MCBody == [i \in 10..64 |-> IF i % 4 = 0 THEN 28 ELSE IF i % 16 = 13 THEN 1 ELSE 0]
=============================================================================
