--------------------------- MODULE MCEventStream ----------------------------
(* EventStream on small instances: one run, two sockets.                   *)
EXTENDS EventStream
CONSTANTS r1, k1, k2
=============================================================================
