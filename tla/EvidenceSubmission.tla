------------------------- MODULE EvidenceSubmission -------------------------
(***************************************************************************)
(* Evidence about a Task and the Artifacts it links.  An Agent reserves an *)
(* Evidence with its Artifacts and finalizes it with a payload; both are   *)
(* transactions under SQLite's write lock, with those of Artifacts.  A     *)
(* call outside the actor's scope, with a payload that contradicts the     *)
(* reservation or with an answered key changes nothing here.               *)
(***************************************************************************)
EXTENDS Artifacts

CONSTANTS
    EvidenceIds,
    MaxAttempt    \* attempts of one test, 16 in the code

ASSUME EvidenceAssumption == /\ None \notin EvidenceIds
                             /\ MaxAttempt \in Nat

EvidenceRow == [task : Tasks, kind : {"git", "command_test"}, attempt : Nat \ {0},
                retryOf : EvidenceIds \cup {None}, artifacts : SUBSET ArtifactIds,
                status : {"reserved", "finalized"}]

ASSUME NoEvidenceAssumption == None \notin EvidenceRow

VARIABLE evidence  \* evidence[e]: the Evidence's row, or None

vars == <<artifactVars, evidence>>

Submitted == {e \in EvidenceIds : evidence[e] # None}

(* A test Evidence links one stdout and one stderr, a git Evidence at most *)
(* one diff; all of them served now and of the same Task.                  *)
Eligible(task, kind, artifacts) ==
    /\ \A a \in artifacts : Servable(a) /\ row[a].task = task
    /\ IF kind = "command_test"
       THEN \E out, err \in artifacts : /\ artifacts = {out, err}
                                        /\ row[out].purpose = "test_stdout"
                                        /\ row[err].purpose = "test_stderr"
       ELSE /\ Cardinality(artifacts) <= 1
            /\ \A a \in artifacts : row[a].purpose = "git_diff"

RetryIsValid(task, attempt, retryOf) ==
    retryOf # None =>
        /\ retryOf \in Submitted
        /\ evidence[retryOf].task = task
        /\ evidence[retryOf].kind = "command_test"
        /\ evidence[retryOf].status = "finalized"
        /\ evidence[retryOf].attempt = attempt - 1

ReserveEvidence(e, task, kind, attempt, retryOf, artifacts) ==
    /\ txn = None
    /\ e \notin Submitted
    /\ IF kind = "git" THEN attempt = 1 /\ retryOf = None
                       ELSE attempt = 1 <=> retryOf = None
    /\ RetryIsValid(task, attempt, retryOf)
    /\ Eligible(task, kind, artifacts)
    /\ evidence' = [evidence EXCEPT ![e] =
           [task |-> task, kind |-> kind, attempt |-> attempt, retryOf |-> retryOf,
            artifacts |-> artifacts, status |-> "reserved"]]
    /\ links' = links \cup artifacts
    /\ UNCHANGED <<clock, row, quarantine, available, txn, undo, job>>

DependenciesAreValid(e) ==
    /\ RetryIsValid(evidence[e].task, evidence[e].attempt, evidence[e].retryOf)
    /\ Eligible(evidence[e].task, evidence[e].kind, evidence[e].artifacts)

FinalizeEvidence(e) ==
    /\ txn = None
    /\ e \in Submitted
    /\ evidence[e].status = "reserved"
    /\ DependenciesAreValid(e)
    /\ evidence' = [evidence EXCEPT ![e].status = "finalized"]
    /\ UNCHANGED artifactVars

Init == ArtifactInit /\ evidence = [e \in EvidenceIds |-> None]

Next ==
    \/ ArtifactNext /\ UNCHANGED evidence
    \/ \E e \in EvidenceIds \ Submitted, task \in Tasks, kind \in {"git", "command_test"},
          attempt \in 1 .. MaxAttempt, retryOf \in Submitted \cup {None},
          artifacts \in SUBSET {a \in ArtifactIds : Servable(a)} :
           ReserveEvidence(e, task, kind, attempt, retryOf, artifacts)
    \/ \E e \in EvidenceIds : FinalizeEvidence(e)

Spec == Init /\ [][Next]_vars
----------------------------------------------------------------------------
(* Every variable has the type its columns allow.                          *)
TypeOK ==
    /\ clock \in Nat
    /\ row \in [ArtifactIds -> Row \cup {None}]
    /\ quarantine \subseteq ArtifactIds /\ available \subseteq ArtifactIds
    /\ txn \in UploadTxn \cup FinalizeTxn \cup {None}
    /\ undo \subseteq UploadTxn \cup FinalizeTxn
    /\ job \in [Workers -> [found : SUBSET Found, mark : ArtifactIds \cup {None}]]
    /\ links \subseteq ArtifactIds
    /\ evidence \in [EvidenceIds -> EvidenceRow \cup {None}]

(* At every instant a row that is served has its Body in available/,       *)
(* whatever transaction failed or died between moving a file and           *)
(* committing, and however late the failed ones move their files back.     *)
(* What a download meets, which reads the row first and opens the Body     *)
(* later, is ArtifactAccess's.                                             *)
ServedIsStored == \A a \in Rows : Servable(a) => a \in available

(* No Body that holds a secret or could not be scanned is ever in the      *)
(* directory readers are served from, not even before the COMMIT or after  *)
(* a crash: finalize moves a Body on a clean scan only.                    *)
SecretsStayQuarantined ==
    \A a \in available : a \in Rows => row[a].kind = "clear"

(* The slots and bytes a Task and an Owner hold stay within their quotas,  *)
(* redacted copies included, whose size was only reserved.                 *)
QuotaHolds ==
    /\ \A t \in Tasks : /\ UsedSlots(row, {t}) <= MaxTaskCount
                        /\ UsedBytes(row, {t}) <= MaxTaskBytes
    /\ UsedSlots(row, Tasks) <= MaxOwnerCount
    /\ UsedBytes(row, Tasks) <= MaxOwnerBytes

(* An accepted text can be finalized whatever the scan finds: the insert   *)
(* trigger never refuses the redacted copy (0041's reservation).           *)
CopyAlwaysFits ==
    \A a \in ArtifactIds : Awaits(a, "uploaded") /\ row[a].kind # "binary" => CopyFits(a)

(* Evidence keeps what it links: its Artifacts are served and stored, so a *)
(* reserved Evidence can be finalized and a finalized one be read, however *)
(* cleanup runs between the two.                                           *)
EvidenceIsKept ==
    \A e \in Submitted :
        /\ DependenciesAreValid(e)
        /\ evidence[e].artifacts \subseteq available

(* A served Body disappears only after a run has sealed its row, which had *)
(* expired and had no Evidence; no purge takes another's Body.             *)
SealedFirst ==
    [][\A a \in ArtifactIds :
           Servable(a) /\ ~(Servable(a)' /\ a \in available') =>
               /\ row[a].expires <= clock
               /\ a \notin links
               /\ row'[a] = [row[a] EXCEPT !.cleanup = "pending"]
               /\ a \in available']_vars
=============================================================================
