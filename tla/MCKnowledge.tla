---------------------------- MODULE MCKnowledge -----------------------------
(* TLC instances of MemoryApplicability. *)
EXTENDS MemoryApplicability, TLC

CONSTANTS g1, g2, t1, t2, t3, late, r1, r2, m1, m2, a1, a2

Git(commit) == [kind |-> "git", commit |-> commit, branch |-> TRUE,
                adapts |-> TRUE]

Run(commit, attempt, retryOf, outcome) ==
    [kind |-> "command_test", commit |-> commit, attempt |-> attempt,
     retryOf |-> retryOf, outcome |-> outcome]

(* Two commits, each with its Git Evidence; the run on the second ended in *)
(* an external error and was repeated.  The late run on it fails.          *)
TwoCommits ==
    [e \in Evidences |->
        CASE e = g1 -> Git(1)
          [] e = g2 -> Git(2)
          [] e = t1 -> Run(1, 1, None, "passed")
          [] e = t2 -> Run(2, 1, None, "external_dependency_error")
          [] e = t3 -> Run(2, 2, t2, "passed")
          [] e = late -> Run(2, 1, None, "failed")]

Adaptation(git, tests) ==
    [claim |-> "code_adaptation", git |-> git, tests |-> tests,
     cites |-> {git} \cup {tests[i] : i \in DOMAIN tests}]

First == Adaptation(g1, <<t1>>)

Claims == {First, Adaptation(g2, <<t2, t3>>)}

(* The first record was validated and promoted before the run begins, by   *)
(* CreateWorkRecord, ValidateWorkRecord and PromoteMemory.                 *)
MCInit ==
    /\ registry = Prior
    /\ records = [r \in RecordIds |-> IF r = r1 THEN First ELSE None]
    /\ events = [r \in RecordIds |->
                   IF r = r1 THEN <<InitialEvent(First),
                                    [to |-> "validated",
                                     evidence |-> EvidenceOf(First)]>>
                             ELSE << >>]
    /\ memories = [m \in MemoryIds |->
                     IF m = m1 THEN [record |-> r1, event |-> 2,
                                     evidence |-> EvidenceOf(First),
                                     commit |-> 1]
                               ELSE None]
    /\ worktree = [head |-> 1, edited |-> FALSE]
    /\ assessments = [m \in MemoryIds |-> << >>]
    /\ revisions = {}
    /\ assessor = [a \in Assessors |-> Idle]

MCSpec == MCInit /\ [][Next]_vars

Symmetry == Permutations(Assessors)
=============================================================================
