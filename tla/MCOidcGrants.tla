---------------------------- MODULE MCOidcGrants ----------------------------
(* OidcGrants on small instances: one account, two clients, one code and   *)
(* one device request, two refresh tokens and two token requests at once.  *)
EXTENDS OidcGrants, TLC
CONSTANTS usr, a1, g1, g2, k1, d1, t1, t2, ca, cb
Symmetry == Permutations(Tokens)
               \cup Permutations(Reqs) \cup Permutations(Clients)
=============================================================================
