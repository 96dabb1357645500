---------------------------- MODULE MCEventRing ----------------------------
(* Four slots; eleven events take both sides through three laps.  Buffers  *)
(* that hold what the ring can hold, and one event less.                   *)
EXTENDS EventRing

MCBufferLens == {2, 3}
=============================================================================
