----------------------------- MODULE MCIdentity -----------------------------
(* Finite instances of Identity for TLC.                                   *)
EXTENDS Identity, TLC

\* Requests and token ids are interchangeable: no definition of Identity
\* picks one of them by name.
Symmetry == Permutations(Request) \cup Permutations(Jti)
=============================================================================
