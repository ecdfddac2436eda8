---------------------------- MODULE MCSsoClients ----------------------------
(* SsoClients on a small instance: one client, one app, two calls at once. *)
EXTENDS SsoClients

CONSTANTS c1, a1, o1, o2, o3, k1, k2, x1, x2, x3, none
=============================================================================
