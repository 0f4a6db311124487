--------------------------- MODULE MCActionGrant ---------------------------
(* TLC instances of ActionGrant. *)
EXTENDS ActionGrant, TLC

CONSTANTS a1, t1, p1, p2, w1, w2, e1, e2, h1

ApprovalTask == [a \in Approvals |-> t1]
Binding == [w \in Workspaces |-> t1]

(* e1 and the rest were collected in different workspaces *)
Origin == [e \in Evidences |-> IF e = e1 THEN w1 ELSE w2]
OneWorkspace == [e \in Evidences |-> w1]

OneHead == [e \in Evidences |-> h1]

(* The Adapters are alike, and so are the workspaces with their Evidence.  *)
Symmetry ==
    {f @@ g : f \in Permutations(Adapters),
              g \in {w1 :> w1 @@ w2 :> w2 @@ e1 :> e1 @@ e2 :> e2,
                     w1 :> w2 @@ w2 :> w1 @@ e1 :> e2 @@ e2 :> e1}}
=============================================================================
