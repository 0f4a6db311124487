--------------------------- MODULE MCConsumeGrant ---------------------------
(* TLC instances of ConsumeGrant. *)
EXTENDS ConsumeGrant, TLC

CONSTANTS a1, c1, c2, o1, r1, r2, v1, v2, g1, g2

OneParty == [r \in Resources |-> {o1}]
OneRepository == [a \in Approvals |-> r1]

Symmetry == Permutations(Calls) \cup Permutations(Revisions)
                \cup Permutations(Versions)
=============================================================================
