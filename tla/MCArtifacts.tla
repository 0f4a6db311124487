---------------------------- MODULE MCArtifacts -----------------------------
(* TLC instance of Artifacts, EvidenceSubmission and ArtifactAccess. *)
EXTENDS ArtifactAccess, TLC

CONSTANT t1

Declaration(kind, purpose, size) ==
    [task |-> t1, kind |-> kind, purpose |-> purpose, size |-> size]

Several == {Declaration("clear", "test_stdout", 1),
            Declaration("secret", "test_stderr", 2)}

Symmetry == UNION {Permutations(S) : S \in {ArtifactIds, EvidenceIds, Workers}}
=============================================================================
