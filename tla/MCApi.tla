------------------------------- MODULE MCApi -------------------------------
(* Two requests of two tenants, or one request and two changes by others.  *)
EXTENDS Api, TLC

\* Neither requests nor tenants are told apart.
Symmetry == Permutations(Clients) \cup Permutations(Tenants)
=============================================================================
