----------------------------- MODULE MCApproval -----------------------------
(* TLC instances of Approval. *)
EXTENDS Approval, TLC

CONSTANTS a1, a2, a3, t1, t2

Allocation == [a \in Approvals |-> IF a = a3 THEN t2 ELSE t1]

Symmetry == Permutations(Approvals \ {a3})
=============================================================================
