------------------------ MODULE MemoryApplicability -------------------------
(***************************************************************************)
(* Whether a Team Memory still applies to the code                         *)
(* (GitMemoryApplicabilityEvaluator, SQLiteMemoryRepository): assessors    *)
(* evaluate the scope of a Memory against a worktree that moves under      *)
(* them and append the answer; a later Memory supersedes a stale one.      *)
(*                                                                         *)
(* History of the branch is linear: commit c is the child of c - 1.        *)
(***************************************************************************)
EXTENDS Knowledge

CONSTANTS
    Assessors,
    Touching,       \* the commits that change a path of the code scopes
    MaxHead,        \* bound: commits on the branch
    MaxAssessments  \* bound: assessments in all when one begins

ASSUME HeadAssumption == /\ MaxHead \in Nat \ {0}
                         /\ Touching \subseteq 1 .. MaxHead
                         /\ None \notin Nat

Determinate == {"exact", "compatible", "possibly_stale"}

VARIABLES
    worktree,       \* commit of HEAD; whether scoped files are edited
    assessments,    \* tas_memory_applicability_assessments
    revisions,      \* tas_memory_revisions
    assessor        \* a call of evaluate() and the append that follows

applicabilityVars == <<worktree, assessments, revisions, assessor>>
vars == <<knowledgeVars, applicabilityVars>>

Idle == [pc |-> "idle"]

Init ==
    /\ KnowledgeInit
    /\ worktree = [head |-> 1, edited |-> FALSE]
    /\ assessments = [m \in MemoryIds |-> << >>]
    /\ revisions = {}
    /\ assessor = [a \in Assessors |-> Idle]

AllStatuses == Determinate \cup {"unknown"}

Assessment == [status: AllStatuses, commit: 1 .. MaxHead \cup {None}]

(* What a call holds while it looks at the worktree, and when it appends.  *)
Checking == [pc: {"head", "edits", "recheck", "reedits"}, memory: MemoryIds,
             sequence: Nat, seen: [head: 0 .. MaxHead, edited: BOOLEAN]]

Answered == [pc: {"append"}, memory: MemoryIds, sequence: Nat,
             status: AllStatuses, commit: 1 .. MaxHead \cup {None}]

ApplicabilityTypeOK ==
    /\ worktree \in [head: 1 .. MaxHead, edited: BOOLEAN]
    /\ assessments \in [MemoryIds -> Seq(Assessment)]
    /\ revisions \subseteq [old: MemoryIds, new: MemoryIds]
    /\ assessor \in [Assessors -> {Idle} \cup Checking \cup Answered]

TypeOK == KnowledgeTypeOK /\ ApplicabilityTypeOK

(***************************************************************************)
(* The developer's worktree.                                               *)
(***************************************************************************)

Edit ==
    /\ worktree' = [worktree EXCEPT !.edited = ~@]
    /\ UNCHANGED <<knowledgeVars, assessments, revisions, assessor>>

(* A commit of scoped paths takes the edits with it, another leaves them.  *)
Commit ==
    /\ worktree.head < MaxHead
    /\ worktree.head + 1 \in Touching => worktree.edited
    /\ worktree' = [head |-> worktree.head + 1,
                    edited |-> worktree.edited
                                  /\ worktree.head + 1 \notin Touching]
    /\ UNCHANGED <<knowledgeVars, assessments, revisions, assessor>>

(***************************************************************************)
(* One assessment.                                                         *)
(***************************************************************************)

Count(M) == Cardinality(UNION {{m} \X DOMAIN assessments[m] : m \in M})

Superseded(m) == \E v \in revisions : v.old = m

(* latest_applicability gives the predecessor the new one will cite.       *)
BeginAssessment(a, m) ==
    /\ assessor[a].pc = "idle"
    /\ memories[m] # None
    /\ Count(MemoryIds) < MaxAssessments
    /\ assessor' = [assessor EXCEPT ![a] =
                      [pc |-> "head", memory |-> m,
                       sequence |-> Len(assessments[m]) + 1,
                       seen |-> [head |-> 0, edited |-> FALSE]]]
    /\ UNCHANGED <<knowledgeVars, worktree, assessments, revisions>>

Reads(a, from, to, local) ==
    /\ assessor[a].pc = from
    /\ assessor' = [assessor EXCEPT ![a] = [local EXCEPT !.pc = to]]
    /\ UNCHANGED <<knowledgeVars, worktree, assessments, revisions>>

Answers(local, status, commit) ==
    [memory |-> local.memory, sequence |-> local.sequence,
     status |-> status, commit |-> commit, pc |-> "append"]

(* merge-base --is-ancestor, on a linear history                           *)
Comparable(local) == memories[local.memory].commit <= local.seen.head

(* A commit that is not behind HEAD ends the check at once.                *)
ReadHead(a) ==
    /\ assessor[a].pc = "head"
    /\ LET local == [assessor[a] EXCEPT !.seen.head = worktree.head]
       IN  \/ Comparable(local) /\ Reads(a, "head", "edits", local)
           \/ /\ ~Comparable(local)
              /\ Reads(a, "head", "append",
                       Answers(local, "unknown", worktree.head))

ReadEdits(a) ==
    Reads(a, "edits", "recheck",
          [assessor[a] EXCEPT !.seen.edited = worktree.edited])

(* What evaluate() answers of a worktree that held still.                  *)
StatusOf(local) ==
    LET from == memories[local.memory].commit
    IN  CASE local.seen.edited
               \/ \E c \in from + 1 .. local.seen.head : c \in Touching
                 -> "possibly_stale"
          [] from = local.seen.head -> "exact"
          [] OTHER -> "compatible"

(* HEAD is read again, then the edits: a worktree that changed during the  *)
(* check says nothing.                                                     *)
RecheckHead(a) ==
    /\ assessor[a].pc = "recheck"
    /\ LET local == assessor[a]
       IN  \/ /\ worktree.head = local.seen.head
              /\ Reads(a, "recheck", "reedits", local)
           \/ /\ worktree.head # local.seen.head
              /\ Reads(a, "recheck", "append",
                       Answers(local, "unknown", worktree.head))

RecheckEdits(a) ==
    LET local == assessor[a]
    IN  Reads(a, "reedits", "append",
              Answers(local, IF worktree.edited = local.seen.edited
                             THEN StatusOf(local) ELSE "unknown",
                      local.seen.head))

(* Another repository or ref, or a Git command that fails or times out     *)
CheckFails(a) ==
    /\ assessor[a].pc \in {"head", "edits", "recheck", "reedits"}
    /\ Reads(a, assessor[a].pc, "append", Answers(assessor[a], "unknown", None))

(* Mutant: the predecessor is not compared. *)
ContinuesMutant(local) == TRUE

(* append_applicability: the assessment continues the history it was made  *)
(* against, and the Memory is not superseded.                              *)
Continues(local) == local.sequence = Len(assessments[local.memory]) + 1

(* Mutant: revisions are not looked at. *)
AppendableMutant(local) == Continues(local)

Appendable(local) == Continues(local) /\ ~Superseded(local.memory)

AppendAssessment(a) ==
    LET local == assessor[a]
    IN  /\ local.pc = "append"
        /\ assessments' =
             IF Appendable(local)
             THEN [assessments EXCEPT ![local.memory] =
                     Append(@, [status |-> local.status,
                                commit |-> local.commit])]
             ELSE assessments
        /\ assessor' = [assessor EXCEPT ![a] = Idle]
        /\ UNCHANGED <<knowledgeVars, worktree, revisions>>

(***************************************************************************)
(* add_revision                                                            *)
(***************************************************************************)

LatestStatus(m) ==
    IF assessments[m] = << >> THEN "unknown" ELSE Last(assessments[m]).status

LatestCommit(m) ==
    IF assessments[m] = << >> THEN None ELSE Last(assessments[m]).commit

(* The source is validated by the event the Memory was promoted from.      *)
StillValidated(m) ==
    /\ memories[m].event = Len(events[memories[m].record])
    /\ EffectiveValidation(m) = "validated"

RevisionEndpoints(old, new) ==
    /\ old # new
    /\ {old, new} \subseteq {m \in MemoryIds : memories[m] # None}
    /\ StillValidated(old) /\ StillValidated(new)
    /\ memories[old].commit # memories[new].commit

(* Both were assessed at one commit: the old one stale, the new one not.   *)
RevisionApplies(old, new) ==
    /\ LatestStatus(old) = "possibly_stale"
    /\ LatestStatus(new) \in {"exact", "compatible"}
    /\ LatestCommit(old) # None
    /\ LatestCommit(old) = LatestCommit(new)

Successor(m) == {v.new : v \in {w \in revisions : w.old = m}}

(* What following the revisions from m reaches, with m                     *)
Chained(m) ==
    {n \in MemoryIds : \A found \in SUBSET MemoryIds :
        m \in found /\ (\A x \in found : Successor(x) \subseteq found)
            => n \in found}

(* Neither endpoint has such a role already, and no cycle is closed.       *)
RevisionIsFree(old, new) ==
    /\ ~Superseded(old) /\ ~Superseded(new)
    /\ \A v \in revisions : v.new # new
    /\ old \notin Chained(new)

AddRevision(old, new) ==
    /\ RevisionEndpoints(old, new)
    /\ RevisionApplies(old, new)
    /\ RevisionIsFree(old, new)
    /\ revisions' = revisions \cup {[old |-> old, new |-> new]}
    /\ UNCHANGED <<knowledgeVars, worktree, assessments, assessor>>

EffectiveApplicability(m) ==
    IF Superseded(m) THEN "superseded" ELSE LatestStatus(m)

AssessorStep(a) ==
    \/ \E m \in MemoryIds : BeginAssessment(a, m)
    \/ ReadHead(a) \/ ReadEdits(a) \/ RecheckHead(a) \/ RecheckEdits(a)
    \/ CheckFails(a) \/ AppendAssessment(a)

Next ==
    \/ KnowledgeNext /\ UNCHANGED applicabilityVars
    \/ Edit \/ Commit
    \/ \E a \in Assessors : AssessorStep(a)
    \/ \E old, new \in MemoryIds : AddRevision(old, new)

Spec == Init /\ [][Next]_vars

(***************************************************************************)
(* Properties                                                              *)
(***************************************************************************)

(* An assessment made earlier never hides a later one: along the history   *)
(* of a Memory the commits it was compared with do not go back, although   *)
(* evaluations overlap and end in any order (append_applicability refuses  *)
(* the one whose predecessor is no longer the latest).                     *)
AssessmentsInOrder ==
    \A m \in MemoryIds : \A i, j \in DOMAIN assessments[m] :
        LET first == assessments[m][i].commit
            later == assessments[m][j].commit
        IN  i < j /\ None \notin {first, later} => first <= later

(* A Memory that was superseded stays so: an evaluation that began before  *)
(* the revision and ends after it changes nothing, and the replacement is  *)
(* reached in the end without coming back (memory_repository.py:143).      *)
SupersededIsFinal ==
    [][\A m \in MemoryIds :
        Superseded(m) =>
            /\ Superseded(m)'
            /\ assessments'[m] = assessments[m]
            /\ \E n \in Chained(m)' : ~Superseded(n)']_vars
=============================================================================
