----------------------------- MODULE MCDirectory -----------------------------
(* Directory on a small instance: two accounts, one address.               *)
EXTENDS Directory

CONSTANTS u1, u2, ann, bob, mail, viewer, custom, s1, s2, none
=============================================================================
