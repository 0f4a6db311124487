-------------------------- MODULE MCA2ADelegation --------------------------
(* TLC instances of A2ADelegation. *)
EXTENDS A2ADelegation, TLC

CONSTANTS h1, h2, h3

Symmetry == Permutations(Handlers)
=============================================================================
