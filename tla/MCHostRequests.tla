--------------------------- MODULE MCHostRequests ---------------------------
(* HostRequests on small instances.                                        *)
EXTENDS HostRequests

CONSTANTS q1, s1, s2
=============================================================================
