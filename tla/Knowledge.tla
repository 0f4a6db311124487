----------------------------- MODULE Knowledge ------------------------------
(***************************************************************************)
(* Work Records, their epistemic history and the Team Memories promoted    *)
(* from them (SQLiteKnowledgeAccessUnitOfWork,                             *)
(* SQLiteAuthoritativeValidationUnitOfWork, epistemic_validation.py).      *)
(*                                                                         *)
(* One Task of one Agent who is its assignee and a member of the Team, so  *)
(* every command is authorized; requests that are not change nothing here. *)
(* Each command is one write transaction and therefore one action, under a *)
(* fresh idempotency key: a repeated key answers from its ledger row and   *)
(* changes nothing (TeamCommands).                                         *)
(* Evidence is finalized elsewhere (EvidenceSubmission): here it appears   *)
(* in the registry of the Task.  All of it names the one Workspace and     *)
(* Repository of the Task and one command line.                            *)
(***************************************************************************)
EXTENDS Integers, Sequences, FiniteSets

CONSTANTS
    Evidences,      \* ids of finalized Evidence
    Facts,          \* what each of them observed
    Requests,       \* bodies of POST /work-records
    Prior,          \* what is finalized at the start
    RecordIds, MemoryIds,
    None

Outcomes == {"passed", "failed", "external_dependency_error"}

(* Git: the commit, whether HEAD was on a branch, and whether the changed  *)
(* files are those of the adapted client.  Test: the commit, the attempt,  *)
(* the run it repeats and its outcome.                                     *)
ASSUME FactsAssumption ==
    /\ None \notin Evidences
    /\ Prior \subseteq Evidences
    /\ \A e \in Evidences :
        \/ Facts[e] \in [kind: {"git"}, commit: Nat, branch: BOOLEAN,
                         adapts: BOOLEAN]
        \/ Facts[e] \in [kind: {"command_test"}, commit: Nat,
                         attempt: {1, 2}, retryOf: Evidences \cup {None},
                         outcome: Outcomes]

(* The claim of a record is prose, or names the rule it is built for, its  *)
(* Git Evidence and its test attempts in order; "cites" is the Evidence    *)
(* the record itself links.                                                *)
ASSUME RequestsAssumption ==
    \A q \in Requests :
        /\ q.claim \in {"prose", "test_success", "code_adaptation"}
        /\ q.git \in Evidences \cup {None}
        /\ q.tests \in Seq(Evidences)
        /\ q.cites \in SUBSET Evidences

Tests == {e \in Evidences : Facts[e].kind = "command_test"}

(* A repeated run follows the finalized run of the attempt before it.      *)
RetryIsValid(e, known) ==
    e \in Tests =>
        \/ Facts[e].retryOf = None /\ Facts[e].attempt = 1
        \/ /\ Facts[e].retryOf \in known \cap Tests
           /\ Facts[Facts[e].retryOf].attempt = Facts[e].attempt - 1

ASSUME PriorAssumption == \A e \in Prior : RetryIsValid(e, Prior)

Rules == {"test_success", "code_adaptation"}
Statuses == {"claimed", "observed", "validated", "conflicted"}

VARIABLES
    registry,   \* the finalized Evidence of the Task
    records,    \* tas_work_records with their Evidence
    events,     \* tas_epistemic_events, in order of sequence
    memories    \* tas_team_memories with their code scope

knowledgeVars == <<registry, records, events, memories>>

Event == [to: Statuses, evidence: SUBSET Evidences]

Memory == [record: RecordIds, event: Nat, evidence: SUBSET Evidences,
           commit: Nat]

ASSUME NoneAssumption == /\ None \notin Requests
                         /\ None \notin Memory
                         /\ None \notin Statuses

KnowledgeTypeOK ==
    /\ registry \subseteq Evidences
    /\ records \in [RecordIds -> Requests \cup {None}]
    /\ events \in [RecordIds -> Seq(Event)]
    /\ memories \in [MemoryIds -> Memory \cup {None}]

KnowledgeInit ==
    /\ registry = Prior
    /\ records = [r \in RecordIds |-> None]
    /\ events = [r \in RecordIds |-> << >>]
    /\ memories = [m \in MemoryIds |-> None]

Last(s) == s[Len(s)]
Members(s) == {s[i] : i \in DOMAIN s}

(***************************************************************************)
(* The registry.                                                           *)
(***************************************************************************)

Register(e) ==
    /\ e \notin registry
    /\ RetryIsValid(e, registry)
    /\ registry' = registry \cup {e}
    /\ UNCHANGED <<records, events, memories>>

(***************************************************************************)
(* POST /api/v1/work-records                                               *)
(***************************************************************************)

InitialEvent(q) ==
    [to |-> IF q.cites = {} THEN "claimed" ELSE "observed",
     evidence |-> q.cites]

CreateWorkRecord(q, r) ==
    /\ q.cites \subseteq registry
    /\ records[r] = None
    /\ records' = [records EXCEPT ![r] = q]
    /\ events' = [events EXCEPT ![r] = <<InitialEvent(q)>>]
    /\ UNCHANGED <<registry, memories>>

(***************************************************************************)
(* POST /api/v1/work-records/{id}/validations                              *)
(***************************************************************************)

(* _command_scope: the same commit, as Workspace and command are shared.   *)
SameScope(e, f) == Facts[e].commit = Facts[f].commit

(* The finalized test runs of the Task.                                    *)
Registered == registry \cap Tests

(* Mutant: only the repetitions of what is cited are looked for. *)
RelatedRunsMutant(cited) ==
    {e \in Registered : Facts[e].retryOf \in cited}

(* The runs of the registry in the scope of a cited one are in found, and  *)
(* those that repeat one in found.                                         *)
NothingToAdd(found, cited) ==
    \A e \in Registered :
        (\E c \in cited \cap Tests : SameScope(e, c)) \/ Facts[e].retryOf \in found
            => e \in found

(* The loop adds runs to the cited ones until nothing changes.             *)
RelatedRuns(cited) ==
    LET candidates == cited \cup Registered
    IN  {e \in candidates : \A found \in SUBSET candidates :
            cited \subseteq found /\ NothingToAdd(found, cited) => e \in found}

CompleteSeries(cited) == RelatedRuns(cited) \subseteq cited

Passed(e) == Facts[e].outcome = "passed"

Verdict(holds) == IF holds THEN "validated" ELSE "conflicted"

(* assess_test_success_claim: the status it decides for, or None when it   *)
(* refuses to decide.                                                      *)
AssessTestSuccess(q) ==
    LET cited == Members(q.tests)
    IN  IF /\ q.claim = "test_success"
           /\ cited # {}
           /\ Cardinality(cited) = Len(q.tests)
           /\ cited \subseteq q.cites \cap Tests
           /\ CompleteSeries(cited)
        THEN Verdict(\A e \in cited : Passed(e))
        ELSE None

(* The attempts of one run, in order: each repeats the one before it, on   *)
(* the commit of the Git Evidence.                                         *)
Chain(tests, commit) ==
    \A i \in DOMAIN tests :
        /\ Facts[tests[i]].attempt = i
        /\ Facts[tests[i]].retryOf = (IF i = 1 THEN None ELSE tests[i - 1])
        /\ Facts[tests[i]].commit = commit

PriorFailures(tests) ==
    \A i \in 1 .. Len(tests) - 1 :
        Facts[tests[i]].outcome = "external_dependency_error"

AssessCodeAdaptation(q) ==
    LET cited == Members(q.tests)
    IN  IF /\ q.claim = "code_adaptation"
           /\ Len(q.tests) \in {1, 2}
           /\ Cardinality(cited) = Len(q.tests)
           /\ q.git \in Evidences \ cited
           /\ q.cites = cited \cup {q.git}
           /\ Facts[q.git].kind = "git"
           /\ cited \subseteq Tests
           /\ CompleteSeries(cited)
        THEN Verdict(/\ Facts[q.git].adapts
                     /\ Chain(q.tests, Facts[q.git].commit)
                     /\ PriorFailures(q.tests)
                     /\ Passed(Last(q.tests)))
        ELSE None

Assess(q, rule) ==
    IF rule = "test_success" THEN AssessTestSuccess(q)
                             ELSE AssessCodeAdaptation(q)

EvidenceOf(q) == Members(q.tests) \cup (IF q.claim = "code_adaptation"
                                          THEN {q.git} ELSE {})

(* decide_epistemic_event and the CHECK of the table                       *)
Allowed(from) ==
    CASE from = "observed"  -> {"validated", "conflicted"}
      [] from = "validated" -> {"conflicted"}
      [] OTHER              -> {}

AppendEvent(r, to, evidence) ==
    /\ to \in Allowed(Last(events[r]).to)
    /\ events' = [events EXCEPT ![r] =
                    Append(@, [to |-> to, evidence |-> evidence])]

(* Registry and history are read in the transaction that appends.          *)
ValidateWorkRecord(r, rule) ==
    /\ records[r] # None
    /\ AppendEvent(r, Assess(records[r], rule), EvidenceOf(records[r]))
    /\ UNCHANGED <<registry, records, memories>>

(***************************************************************************)
(* A reviewer disputes a record through SQLiteEpistemicRepository: append  *)
(* refuses an event unless the history it was decided from is still the    *)
(* latest, so that reading, deciding and appending are one step here.      *)
(***************************************************************************)

Dispute(r) ==
    /\ records[r] # None
    /\ records[r].cites # {}
    /\ AppendEvent(r, "conflicted", records[r].cites)
    /\ UNCHANGED <<registry, records, memories>>

(***************************************************************************)
(* POST /api/v1/memories                                                   *)
(***************************************************************************)

Promoted(r) == \E m \in MemoryIds : memories[m] # None /\ memories[m].record = r

(* code_scope_from_git_evidence: a ref to hold the Memory against          *)
FormsCodeScope(e) == Facts[e].kind = "git" /\ Facts[e].branch

(* promote_validated_work_record                                           *)
Promotable(r, e) ==
    /\ Last(events[r]).to = "validated"
    /\ e \in Last(events[r]).evidence
    /\ FormsCodeScope(e)

PromoteMemory(r, e, m) ==
    /\ records[r] # None
    /\ ~Promoted(r)
    /\ Promotable(r, e)
    /\ memories[m] = None
    /\ memories' = [memories EXCEPT ![m] =
                      [record |-> r, event |-> Len(events[r]),
                       evidence |-> Last(events[r]).evidence,
                       commit |-> Facts[e].commit]]
    /\ UNCHANGED <<registry, records, events>>

(* Mutant: the status of the record when it was promoted. *)
EffectiveValidationMutant(m) ==
    IF events[memories[m].record][memories[m].event].to = "validated"
    THEN "validated" ELSE "invalidated"

(* GET /api/v1/memories: the status is that of the source record now.      *)
EffectiveValidation(m) ==
    IF Last(events[memories[m].record]).to = "validated"
    THEN "validated" ELSE "invalidated"

SearchMemories(validation) ==
    {m \in MemoryIds : memories[m] # None
                        /\ EffectiveValidation(m) = validation}

KnowledgeNext ==
    \/ \E e \in Evidences : Register(e)
    \/ \E q \in Requests, r \in RecordIds : CreateWorkRecord(q, r)
    \/ \E r \in RecordIds, rule \in Rules :
            ValidateWorkRecord(r, rule)
    \/ \E r \in RecordIds : Dispute(r)
    \/ \E r \in RecordIds, e \in Evidences, m \in MemoryIds :
            PromoteMemory(r, e, m)

(***************************************************************************)
(* Properties                                                              *)
(***************************************************************************)

(* The runs that lead to e by repetition, and e                            *)
Repeats(e) ==
    {c \in Evidences : \A runs \in SUBSET Evidences :
        /\ e \in runs
        /\ \A x \in runs \cap Tests :
                Facts[x].retryOf # None => Facts[x].retryOf \in runs
        => c \in runs}

(* Whoever validates a record cannot leave out a run the server knows of:  *)
(* at the step that makes a record "validated", every registered run on    *)
(* the tested commit, and every repetition of a cited run, is cited by it. *)
(* The last of them passed: a cited run that did not is repeated by a      *)
(* cited one, which only the rule for code adaptations lets pass.          *)
(* (authoritative_validation_uow.py re-reads the registry in the write     *)
(* transaction for this.)                                                  *)
NoRunIsHidden ==
    [][\A r \in RecordIds :
        Len(events'[r]) > 1 /\ events'[r] # events[r]
            /\ Last(events'[r]).to = "validated"
        => LET cited == Last(events'[r]).evidence \cap Tests
           IN  /\ \A e \in registry \cap Tests :
                    (\E c \in cited :
                        Facts[e].commit = Facts[c].commit \/ c \in Repeats(e))
                    => e \in cited
               /\ cited # {}
               /\ \A c \in cited :
                    \/ Passed(c)
                    \/ /\ records[r].claim = "code_adaptation"
                       /\ \E e \in cited : Facts[e].retryOf = c]_knowledgeVars

(* A Memory that is searched for as validated rests on the very event and  *)
(* Evidence it was promoted from, and nothing has been said against the    *)
(* record since: a record disputed between two reads is never shown as     *)
(* validated again (knowledge_access_uow.py derives the status on read).   *)
FoundIsUndisputed ==
    \A m \in SearchMemories("validated") :
        LET history == events[memories[m].record]
        IN  /\ memories[m].event = Len(history)
            /\ memories[m].evidence = Last(history).evidence
            /\ \A i \in DOMAIN history : history[i].to # "conflicted"
=============================================================================
