-------------------------- MODULE ArtifactsProofs ---------------------------
(***************************************************************************)
(* Safety of Artifacts and Evidence for any number of Artifacts, Evidence, *)
(* Tasks, cleanup runs and days.                                           *)
(*                                                                         *)
(* The invariant says what protects a served Body from those who move or   *)
(* unlink files without the write lock: a transaction's files are touched  *)
(* by nobody else (TxnOwnsFiles), a late compensation concerns an Artifact *)
(* that is not finalized and a copy that has no row (UndoIsHarmless), and  *)
(* a cleanup run only knows sealed rows (JobsAreSealed).                   *)
(*                                                                         *)
(* The quotas hold because each row is charged what its status calls for   *)
(* (ChargesAreExact): a row that is finalized then gives back just what    *)
(* its redacted copy takes.                                                *)
(*                                                                         *)
(* A download holds a row that was served when it was read: the row still  *)
(* is, or it has been sealed since, expired and without Evidence (Overdue). *)
(***************************************************************************)
EXTENDS ArtifactAccess, TLAPS, FiniteSetTheorems

Sealed(a) == a \in Rows /\ row[a].cleanup # "active"

Clean(t) == t \in FinalizeTxn /\ t.scan = "clean"

TxnOwnsFiles ==
    /\ txn \in UploadTxn => Awaits(txn.id, "reserved")
    /\ txn \in FinalizeTxn =>
           /\ Awaits(txn.id, "uploaded")
           /\ txn.scan \in Verdicts(row[txn.id].kind)
           /\ txn.scan = "clean" => txn.id \in available /\ txn.id \notin quarantine
           /\ txn.scan = "secret_detected" <=> txn.copy # None
           /\ txn.copy # None => txn.copy \in available \ Rows

Harmless(u) ==
    /\ u \in FinalizeTxn => /\ u.copy \notin Rows
                            /\ txn \in FinalizeTxn /\ u.copy = txn.copy => u.copy = None
    /\ Clean(u) => /\ u.id \in Rows \ quarantine
                   /\ row[u.id].status = "uploaded"
                   /\ u.copy = None
                   /\ txn \in FinalizeTxn => txn.id # u.id

UndoIsHarmless == \A u \in undo : Harmless(u)

JobsAreSealed ==
    \A w \in Workers : /\ \A f \in job[w].found : Sealed(f.id)
                       /\ job[w].mark # None => Sealed(job[w].mark)

LinksAreServed ==
    /\ \A a \in links : Servable(a)
    /\ \A e \in Submitted :
           /\ DependenciesAreValid(e)
           /\ evidence[e].artifacts \subseteq links

FilesInv == /\ TxnOwnsFiles
            /\ UndoIsHarmless
            /\ JobsAreSealed
            /\ ServedIsStored
            /\ SecretsStayQuarantined

Inv == TypeOK /\ FilesInv /\ LinksAreServed
----------------------------------------------------------------------------
USE ArtifactsAssumption, NoneAssumption, NoTxnAssumption, EvidenceAssumption,
    NoEvidenceAssumption

LEMMA RowIsRecord ==
    ASSUME TypeOK, NEW a \in Rows
    PROVE  row[a] \in Row
BY DEF TypeOK, Rows

LEMMA ReservedRow ==
    ASSUME TypeOK, NEW d \in Declared
    PROVE  [task |-> d.task, kind |-> d.kind, purpose |-> d.purpose,
            size |-> d.size, status |-> "reserved", scan |-> "pending",
            cleanup |-> "active", expires |-> clock + PendingDays,
            charged |-> Charge(d.kind, "reserved", d.size)] \in Row
<1>1. clock \in Nat
    BY DEF TypeOK
<1>2. d \in [task : Tasks, kind : Kinds, purpose : Purposes, size : Nat]
    OBVIOUS
<1>3. Charge(d.kind, "reserved", d.size) \in Nat
    BY <1>2 DEF Charge, Twice
<1>4. PendingDays \in Nat
    OBVIOUS
<1>. QED
    BY <1>1, <1>2, <1>3, <1>4 DEF Row, Scans

LEMMA FinalizedRow ==
    ASSUME TypeOK, NEW a \in Rows, NEW scan \in Scans
    PROVE  /\ Finalized(a, scan) \in [ArtifactIds -> Row \cup {None}]
           /\ Finalized(a, scan)[a] \in Row
           /\ Finalized(a, scan)[a].task = row[a].task
           /\ Finalized(a, scan)[a].purpose = row[a].purpose
           /\ Finalized(a, scan)[a].kind = row[a].kind
           /\ Finalized(a, scan)[a].cleanup = row[a].cleanup
           /\ Finalized(a, scan)[a].size = row[a].size
           /\ Finalized(a, scan)[a].charged = row[a].size
           /\ Finalized(a, scan)[a].scan = scan
           /\ Finalized(a, scan)[a].status = "finalized"
           /\ \A b \in ArtifactIds \ {a} : Finalized(a, scan)[b] = row[b]
<1>1. clock \in Nat /\ AvailableDays \in Nat /\ QuarantineDays \in Nat
    BY DEF TypeOK
<1>2. row \in [ArtifactIds -> Row \cup {None}] /\ a \in ArtifactIds
    BY DEF TypeOK, Rows
<1>3. row[a] \in Row
    BY RowIsRecord
<1> DEFINE expires == clock + IF scan = "clean" THEN AvailableDays ELSE QuarantineDays
           r == [row[a] EXCEPT !.status = "finalized", !.scan = scan,
                               !.expires = expires, !.charged = row[a].size]
<1>4. expires \in Nat
    BY <1>1
<1> HIDE DEF expires
<1>5. /\ r \in Row
      /\ r.task = row[a].task /\ r.purpose = row[a].purpose
      /\ r.kind = row[a].kind /\ r.cleanup = row[a].cleanup
      /\ r.scan = scan /\ r.status = "finalized"
      /\ r.size = row[a].size /\ r.charged = row[a].size
    BY <1>3, <1>4 DEF Row
<1>6. Finalized(a, scan) = [row EXCEPT ![a] = r]
    BY <1>2, <1>3 DEF Finalized, expires
<1> HIDE DEF r
<1>7. /\ Finalized(a, scan) \in [ArtifactIds -> Row \cup {None}]
      /\ Finalized(a, scan)[a] = r /\ Finalized(a, scan)[a] \in Row
      /\ \A b \in ArtifactIds \ {a} : Finalized(a, scan)[b] = row[b]
    BY <1>2, <1>5, <1>6
<1>. QED
    BY <1>5, <1>7

LEMMA CopyRow ==
    ASSUME TypeOK, NEW a \in Rows
    PROVE  CopyOf(a) \in Row
<1>1. row[a] \in Row /\ clock + AvailableDays \in Nat
    BY RowIsRecord DEF TypeOK
<1>. QED
    BY <1>1 DEF CopyOf, Row, Kinds, Scans
----------------------------------------------------------------------------
(* What a step does to the rows: nothing is deleted, what a row declares   *)
(* stays, and a served Artifact is served until it has expired unlinked.   *)
RowStep ==
    /\ row' \in [ArtifactIds -> Row \cup {None}]
    /\ \A a \in Rows :
           /\ a \in Rows'
           /\ row'[a].task = row[a].task /\ row'[a].purpose = row[a].purpose
           /\ row'[a].kind = row[a].kind
           /\ Sealed(a) => Sealed(a)'
           /\ Servable(a) =>
                  \/ row'[a] = row[a]
                  \/ a \in Expired /\ row'[a] = [row[a] EXCEPT !.cleanup = "pending"]

LEMMA ReserveRows ==
    ASSUME TypeOK, NEW a \in ArtifactIds, NEW d \in Declared, Reserve(a, d)
    PROVE  /\ RowStep
           /\ \A b \in ArtifactIds \ {a} : row'[b] = row[b]
           /\ a \notin Rows /\ ~Servable(a)' /\ ~Sealed(a)'
<1> DEFINE r == [task |-> d.task, kind |-> d.kind, purpose |-> d.purpose,
                 size |-> d.size, status |-> "reserved", scan |-> "pending",
                 cleanup |-> "active", expires |-> clock + PendingDays,
                 charged |-> Charge(d.kind, "reserved", d.size)]
<1>1. r \in Row /\ r.status = "reserved" /\ r.cleanup = "active"
    BY ReservedRow
<1>2. row' = [row EXCEPT ![a] = r] /\ a \notin Rows
    BY DEF Reserve, Fresh
<1> HIDE DEF r
<1>. QED
    BY <1>1, <1>2 DEF TypeOK, RowStep, Rows, Servable, Sealed

LEMMA CommitUploadRows ==
    ASSUME TypeOK, TxnOwnsFiles, CommitUpload
    PROVE  /\ RowStep /\ Rows' = Rows /\ txn.id \in Rows
           /\ row[txn.id].status = "reserved"
           /\ row'[txn.id].status = "uploaded"
           /\ \A b \in ArtifactIds \ {txn.id} : row'[b] = row[b]
<1>1. PICK a \in ArtifactIds : /\ a = txn.id /\ Awaits(a, "reserved")
                               /\ row' = [row EXCEPT ![a].status = "uploaded"]
    BY DEF CommitUpload, TxnOwnsFiles, UploadTxn
<1>2. a \in Rows /\ row[a] \in Row
    BY <1>1, RowIsRecord DEF Awaits
<1> DEFINE u == [row[a] EXCEPT !.status = "uploaded"]
<1>3. u \in Row
    BY <1>2 DEF Row
<1>4. /\ u.task = row[a].task /\ u.purpose = row[a].purpose
      /\ u.kind = row[a].kind /\ u.cleanup = row[a].cleanup
      /\ u.status = "uploaded"
    BY <1>2 DEF Row
<1>5. row' = [row EXCEPT ![a] = u]
    BY <1>1
<1> HIDE DEF u
<1>6. row' \in [ArtifactIds -> Row \cup {None}]
    BY <1>3, <1>5 DEF TypeOK
<1>7. \A b \in ArtifactIds : row'[b] = IF b = a THEN u ELSE row[b]
    BY <1>5 DEF TypeOK
<1>8. row[a].status = "reserved" /\ u # None
    BY <1>1, <1>3 DEF Awaits
<1>9. Rows' = Rows
    BY <1>2, <1>7, <1>8 DEF Rows
<1>10. ~Servable(a)
    BY <1>8 DEF Servable
<1>11. ASSUME NEW b \in Rows, b # a PROVE row'[b] = row[b]
    BY <1>7, <1>11 DEF Rows
<1>12. \A b \in Rows : Sealed(b) => Sealed(b)'
    BY <1>2, <1>4, <1>7, <1>9, <1>11 DEF Sealed
<1>13. RowStep
    BY <1>2, <1>4, <1>6, <1>7, <1>9, <1>10, <1>11, <1>12 DEF RowStep
<1>. QED
    BY <1>1, <1>2, <1>4, <1>7, <1>8, <1>9, <1>13

LEMMA CommitFinalizeRows ==
    ASSUME TypeOK, TxnOwnsFiles, CommitFinalize
    PROVE  /\ RowStep
           /\ txn.id \in Rows
           /\ Awaits(txn.id, "uploaded")
           /\ row'[txn.id].cleanup = "active" /\ row'[txn.id].scan = txn.scan
           /\ row'[txn.id].status = "finalized"
           /\ txn.copy \in Rows' => row'[txn.copy] = CopyOf(txn.id)
           /\ \A b \in ArtifactIds \ {txn.id, txn.copy} : row'[b] = row[b]
           /\ Rows' \subseteq Rows \cup {txn.copy}
<1>1. PICK a \in ArtifactIds : a = txn.id
    BY DEF CommitFinalize, FinalizeTxn
<1>2. /\ Awaits(a, "uploaded") /\ a \in Rows
      /\ txn.copy # None => txn.copy \in ArtifactIds \ Rows
      /\ txn.scan \in Scans
    BY <1>1 DEF CommitFinalize, FinalizeTxn, TxnOwnsFiles, Awaits, TypeOK
<1> DEFINE f == Finalized(a, txn.scan)
<1>3. row[a] \in Row /\ CopyOf(a) \in Row
    BY <1>2, RowIsRecord, CopyRow
<1>4. /\ f \in [ArtifactIds -> Row \cup {None}]
      /\ f[a] \in Row
      /\ f[a].task = row[a].task /\ f[a].purpose = row[a].purpose
      /\ f[a].kind = row[a].kind /\ f[a].cleanup = row[a].cleanup
      /\ f[a].scan = txn.scan /\ f[a].status = "finalized"
      /\ \A b \in ArtifactIds \ {a} : f[b] = row[b]
    BY <1>2, FinalizedRow
<1>5. row' = IF txn.copy = None THEN f ELSE [f EXCEPT ![txn.copy] = CopyOf(a)]
    BY <1>1 DEF CommitFinalize
<1> HIDE DEF f
<1>6. row' \in [ArtifactIds -> Row \cup {None}]
    BY <1>2, <1>3, <1>4, <1>5
<1>7. /\ row'[a] = f[a]
      /\ txn.copy # None => row'[txn.copy] = CopyOf(a)
      /\ \A b \in ArtifactIds \ {a, txn.copy} : row'[b] = row[b]
    BY <1>2, <1>3, <1>4, <1>5
<1>8. row[a].status = "uploaded" /\ row[a].cleanup = "active"
    BY <1>2 DEF Awaits
<1>9. \A b \in Rows : b # txn.copy
    BY <1>2 DEF Rows
<1>10. RowStep
    BY <1>4, <1>6, <1>7, <1>8, <1>9 DEF RowStep, Rows, Servable, Sealed
<1>11. Rows' \subseteq Rows \cup {txn.copy}
    BY <1>2, <1>7 DEF Rows
<1>. QED
    BY <1>1, <1>2, <1>4, <1>7, <1>8, <1>10, <1>11 DEF Rows

LEMMA RequestExpiredRows ==
    ASSUME TypeOK, NEW batch \in SUBSET Expired, RequestExpired(batch)
    PROVE  /\ RowStep /\ Rows' = Rows
           /\ \A a \in Rows \ batch : row'[a] = row[a]
           /\ \A a \in batch : Sealed(a)'
<1>1. \A a \in batch : a \in Rows /\ row[a] \in Row
    BY RowIsRecord DEF Expired
<1>2. \A a \in batch : /\ [row[a] EXCEPT !.cleanup = "pending"] \in Row
                       /\ row'[a] = [row[a] EXCEPT !.cleanup = "pending"]
    BY <1>1 DEF RequestExpired, Row, Rows
<1>3. \A a \in ArtifactIds \ batch : row'[a] = row[a]
    BY DEF RequestExpired
<1>4. row' \in [ArtifactIds -> Row \cup {None}]
    <2>1. \A a \in ArtifactIds : row'[a] \in Row \cup {None}
        BY <1>2, <1>3 DEF TypeOK
    <2>2. row' = [a \in ArtifactIds |-> row'[a]]
        BY DEF RequestExpired
    <2>. QED
        BY <2>1, <2>2
<1>0. \A a \in batch : row'[a] # None
    BY <1>2
<1>5. Rows' = Rows
    BY <1>1, <1>0, <1>3 DEF Rows
<1>6. \A a \in batch : /\ row[a] \in Row
                       /\ row'[a].task = row[a].task /\ row'[a].purpose = row[a].purpose
                       /\ row'[a].kind = row[a].kind /\ row'[a].cleanup = "pending"
    <2>1. TAKE a \in batch
    <2>2. row[a] \in Row /\ row'[a] = [row[a] EXCEPT !.cleanup = "pending"]
        BY <1>1, <1>2
    <2>. QED
        BY <2>2 DEF Row
<1>. QED
    BY <1>1, <1>2, <1>3, <1>4, <1>5, <1>6 DEF RowStep, Sealed, Rows

LEMMA MarkRows ==
    ASSUME TypeOK, NEW w \in Workers, Mark(w)
    PROVE  /\ RowStep /\ Rows' = Rows
           /\ \A b \in Rows : row'[b] = row[b] \/ (Sealed(b) /\ Sealed(b)')
<1>1. CASE job[w].mark \notin Pending
    BY <1>1 DEF Mark, RowStep, Rows, Sealed, Servable, TypeOK
<1>2. CASE job[w].mark \in Pending
    <2>1. PICK a \in Rows : a = job[w].mark /\ row[a].cleanup = "pending"
        BY <1>2 DEF Pending
    <2> DEFINE r == [row[a] EXCEPT !.cleanup = "purged", !.charged = 0]
    <2>2. row[a] \in Row /\ r \in Row
        BY RowIsRecord DEF Row
    <2>3. /\ r.cleanup = "purged" /\ r.task = row[a].task
          /\ r.purpose = row[a].purpose /\ r.kind = row[a].kind
        BY <2>2 DEF Row
    <2>4. row' = [row EXCEPT ![a] = r]
        BY <1>2, <2>1, <2>2 DEF Mark
    <2> HIDE DEF r
    <2>. QED
        BY <2>1, <2>2, <2>3, <2>4 DEF TypeOK, RowStep, Rows, Sealed, Servable
<1>. QED
    BY <1>1, <1>2

LEMMA SameRows ==
    ASSUME TypeOK, UNCHANGED row
    PROVE  RowStep
BY DEF TypeOK, RowStep, Rows, Sealed, Servable

LEMMA RowsStep ==
    ASSUME TypeOK, TxnOwnsFiles, [Next]_vars
    PROVE  RowStep
<1>1. ASSUME NEW a \in ArtifactIds, NEW d \in Declared, Reserve(a, d)
      PROVE  RowStep
    BY <1>1, ReserveRows
<1>2. CASE CommitUpload
    BY <1>2, CommitUploadRows
<1>3. CASE CommitFinalize
    BY <1>3, CommitFinalizeRows
<1>4. ASSUME NEW batch \in SUBSET Expired, RequestExpired(batch)
      PROVE  RowStep
    BY <1>4, RequestExpiredRows
<1>5. ASSUME NEW w \in Workers, Mark(w)
      PROVE  RowStep
    BY <1>5, MarkRows
<1>6. CASE UNCHANGED row
    BY <1>6, SameRows
<1>7. UNCHANGED vars => UNCHANGED row
    BY DEF vars, artifactVars
<1>. QED
    BY <1>1, <1>2, <1>3, <1>4, <1>5, <1>6, <1>7
    DEF Next, ArtifactNext, PlaceUpload, PlaceFinalized, Fail, MoveBack, Die,
        ReadPending, Unlink, Abandon, Tick, ReserveEvidence, FinalizeEvidence,
        artifactVars
----------------------------------------------------------------------------
LEMMA EvidenceType ==
    ASSUME TypeOK, NEW e \in EvidenceIds, NEW task \in Tasks,
           NEW kind \in {"git", "command_test"}, NEW attempt \in 1 .. MaxAttempt,
           NEW retryOf \in EvidenceIds \cup {None}, NEW artifacts \in SUBSET ArtifactIds,
           ReserveEvidence(e, task, kind, attempt, retryOf, artifacts)
    PROVE  /\ evidence' \in [EvidenceIds -> EvidenceRow \cup {None}]
           /\ links' \subseteq ArtifactIds
<1>1. [task |-> task, kind |-> kind, attempt |-> attempt, retryOf |-> retryOf,
       artifacts |-> artifacts, status |-> "reserved"] \in EvidenceRow
    BY DEF EvidenceRow
<1>. QED
    BY <1>1 DEF TypeOK, ReserveEvidence

LEMMA TypeStep ==
    ASSUME TypeOK, TxnOwnsFiles, [Next]_vars
    PROVE  TypeOK'
<1>1. row' \in [ArtifactIds -> Row \cup {None}]
    BY RowsStep DEF RowStep
<1>2. ASSUME NEW a \in ArtifactIds, NEW d \in Declared, Reserve(a, d), UNCHANGED evidence
      PROVE  TypeOK'
    BY <1>1, <1>2 DEF TypeOK, Reserve
<1>3. ASSUME NEW a \in ArtifactIds, PlaceUpload(a), UNCHANGED evidence
      PROVE  TypeOK'
    BY <1>1, <1>3 DEF TypeOK, PlaceUpload, UploadTxn
<1>4. CASE CommitUpload /\ UNCHANGED evidence
    BY <1>1, <1>4 DEF TypeOK, CommitUpload
<1>5. ASSUME NEW a \in ArtifactIds, NEW scan \in Scans,
             NEW copy \in ArtifactIds \cup {None}, PlaceFinalized(a, scan, copy),
             UNCHANGED evidence
      PROVE  TypeOK'
    <2>1. scan \notin {"pending", "redacted"}
        BY <1>5, RowIsRecord DEF PlaceFinalized, Verdicts, Awaits, Row, Kinds
    <2>2. txn' \in FinalizeTxn
        BY <1>5, <2>1 DEF PlaceFinalized, FinalizeTxn
    <2>3. quarantine' \subseteq ArtifactIds /\ available' \subseteq ArtifactIds
        BY <1>5 DEF PlaceFinalized, TypeOK
    <2>. QED
        BY <1>1, <1>5, <2>2, <2>3 DEF TypeOK, PlaceFinalized
<1>6. CASE CommitFinalize /\ UNCHANGED evidence
    BY <1>1, <1>6 DEF TypeOK, CommitFinalize
<1>7. CASE Fail /\ UNCHANGED evidence
    BY <1>1, <1>7 DEF TypeOK, Fail
<1>8. ASSUME NEW u \in undo, MoveBack(u), UNCHANGED evidence
      PROVE  TypeOK'
    BY <1>1, <1>8 DEF TypeOK, MoveBack, UploadTxn
<1>9. CASE Die /\ UNCHANGED evidence
    BY <1>1, <1>9 DEF TypeOK, Die
<1>10. ASSUME NEW batch \in SUBSET Expired, RequestExpired(batch), UNCHANGED evidence
       PROVE  TypeOK'
    BY <1>1, <1>10 DEF TypeOK, RequestExpired
<1>11. ASSUME NEW w \in Workers, NEW batch \in SUBSET Pending, ReadPending(w, batch),
              UNCHANGED evidence
       PROVE  TypeOK'
    <2>1. {[id |-> a, place |-> Place(row[a])] : a \in batch} \in SUBSET Found
        BY DEF Found, Place, Places, Pending, Rows
    <2> DEFINE found == {[id |-> a, place |-> Place(row[a])] : a \in batch}
    <2>2. /\ job' = [job EXCEPT ![w].found = found]
          /\ UNCHANGED <<clock, row, quarantine, available, txn, undo, links>>
        BY <1>11 DEF ReadPending
    <2> HIDE DEF found
    <2>3. job' \in [Workers -> [found : SUBSET Found, mark : ArtifactIds \cup {None}]]
        BY <2>1, <2>2 DEF TypeOK, found
    <2>. QED
        BY <1>1, <1>11, <2>2, <2>3 DEF TypeOK
<1>12. ASSUME NEW w \in Workers, NEW f \in job[w].found, Unlink(w, f), UNCHANGED evidence
       PROVE  TypeOK'
    <2>1. f \in Found
        BY DEF TypeOK
    <2>2. [found |-> job[w].found \ {f}, mark |-> f.id]
              \in [found : SUBSET Found, mark : ArtifactIds \cup {None}]
        BY <2>1 DEF TypeOK, Found
    <2>. QED
        BY <1>1, <1>12, <2>2 DEF TypeOK, Unlink
<1>13. ASSUME NEW w \in Workers, Mark(w), UNCHANGED evidence
       PROVE  TypeOK'
    BY <1>1, <1>13 DEF TypeOK, Mark
<1>14. ASSUME NEW w \in Workers, Abandon(w), UNCHANGED evidence
       PROVE  TypeOK'
    BY <1>1, <1>14 DEF TypeOK, Abandon, Idle
<1>15. CASE Tick /\ UNCHANGED evidence
    BY <1>1, <1>15 DEF TypeOK, Tick
<1>16. ASSUME NEW e \in EvidenceIds, NEW task \in Tasks,
              NEW kind \in {"git", "command_test"}, NEW attempt \in 1 .. MaxAttempt,
              NEW retryOf \in EvidenceIds \cup {None}, NEW artifacts \in SUBSET ArtifactIds,
              ReserveEvidence(e, task, kind, attempt, retryOf, artifacts)
       PROVE  TypeOK'
    <2>1. /\ evidence' \in [EvidenceIds -> EvidenceRow \cup {None}]
          /\ links' \subseteq ArtifactIds
        BY <1>16, EvidenceType
    <2>. QED
        BY <1>1, <1>16, <2>1 DEF TypeOK, ReserveEvidence
<1>17. ASSUME NEW e \in EvidenceIds, FinalizeEvidence(e)
       PROVE  TypeOK'
    <2>1. evidence[e] \in EvidenceRow
        BY <1>17 DEF FinalizeEvidence, Submitted, TypeOK
    <2>2. [evidence[e] EXCEPT !.status = "finalized"] \in EvidenceRow
        BY <2>1 DEF EvidenceRow
    <2>. QED
        BY <1>1, <1>17, <2>2 DEF TypeOK, FinalizeEvidence, artifactVars
<1>18. CASE UNCHANGED vars
    BY <1>1, <1>18 DEF TypeOK, vars, artifactVars
<1>. QED
    BY <1>2, <1>3, <1>4, <1>5, <1>6, <1>7, <1>8, <1>9, <1>10, <1>11, <1>12, <1>13,
       <1>14, <1>15, <1>16, <1>17, <1>18 DEF Next, ArtifactNext, Submitted
----------------------------------------------------------------------------
(* The files.  First the steps that change rows, which move no file.       *)
LEMMA JobsKeep ==
    ASSUME TypeOK, JobsAreSealed, RowStep, UNCHANGED job
    PROVE  JobsAreSealed'
BY DEF RowStep, JobsAreSealed, Sealed, TypeOK

LEMMA ReserveFiles ==
    ASSUME TypeOK, FilesInv, NEW a \in ArtifactIds, NEW d \in Declared, Reserve(a, d)
    PROVE  FilesInv'
<1>1. /\ RowStep /\ a \notin Rows /\ ~Servable(a)'
      /\ \A b \in ArtifactIds \ {a} : row'[b] = row[b]
    BY ReserveRows
<1>2. /\ txn = None /\ txn' = None /\ Fresh(a)
      /\ UNCHANGED <<quarantine, available, undo, job>>
    BY DEF Reserve
<1>3. TxnOwnsFiles'
    BY <1>2 DEF TxnOwnsFiles
<1>4. \A u \in undo : Harmless(u)'
    <2>1. TAKE u \in undo
    <2>2. Harmless(u) /\ (u \in FinalizeTxn => u.copy # a)
        BY <1>2 DEF Fresh, Copies, FilesInv, UndoIsHarmless
    <2>3. \A b \in ArtifactIds : b \notin Rows /\ b # a => b \notin Rows'
        BY <1>1 DEF Rows
    <2>4. u \in FinalizeTxn => u.copy \notin Rows'
        BY <2>2, <2>3 DEF Harmless, FinalizeTxn, Rows
    <2>5. Clean(u) => /\ u.id \in Rows' \ quarantine'
                      /\ row'[u.id].status = "uploaded"
                      /\ u.copy = None
        BY <1>1, <1>2, <2>2 DEF Harmless, Rows
    <2>6. txn' \notin FinalizeTxn
        BY <1>2
    <2>. QED
        BY <2>4, <2>5, <2>6 DEF Harmless, Clean
<1>5. JobsAreSealed'
    BY <1>1, <1>2, JobsKeep DEF FilesInv
<1>6. ServedIsStored'
    BY <1>1, <1>2 DEF FilesInv, ServedIsStored, Servable, Rows
<1>7. SecretsStayQuarantined'
    BY <1>1, <1>2 DEF FilesInv, SecretsStayQuarantined, Rows, Fresh
<1>. QED
    BY <1>2, <1>3, <1>4, <1>5, <1>6, <1>7 DEF FilesInv, UndoIsHarmless

LEMMA CommitUploadFiles ==
    ASSUME TypeOK, FilesInv, CommitUpload
    PROVE  FilesInv'
<1>1. /\ RowStep /\ Rows' = Rows /\ txn.id \in Rows
      /\ row[txn.id].status = "reserved" /\ row'[txn.id].status = "uploaded"
      /\ \A b \in ArtifactIds \ {txn.id} : row'[b] = row[b]
    BY CommitUploadRows DEF FilesInv
<1>2. /\ txn \in UploadTxn /\ txn' = None
      /\ UNCHANGED <<quarantine, available, undo, job>>
    BY DEF CommitUpload
<1>6. TxnOwnsFiles'
    BY <1>2 DEF TxnOwnsFiles
<1>7. \A u \in undo : Harmless(u)'
    <2>1. TAKE u \in undo
    <2>2. Harmless(u)
        BY DEF FilesInv, UndoIsHarmless
    <2>3. txn' \notin FinalizeTxn
        BY <1>2
    <2>4. Clean(u) => u.id # txn.id
        BY <1>1, <2>2 DEF Harmless
    <2>. QED
        BY <1>1, <1>2, <2>2, <2>3, <2>4 DEF Harmless, Clean, Rows
<1>8. JobsAreSealed'
    BY <1>1, <1>2, JobsKeep DEF FilesInv
<1>9. ServedIsStored'
    BY <1>1, <1>2 DEF FilesInv, ServedIsStored, Servable, Rows
<1>10. SecretsStayQuarantined'
    BY <1>1, <1>2 DEF FilesInv, SecretsStayQuarantined, RowStep
<1>. QED
    BY <1>2, <1>6, <1>7, <1>8, <1>9, <1>10 DEF FilesInv, UndoIsHarmless

LEMMA CommitFinalizeFiles ==
    ASSUME TypeOK, FilesInv, CommitFinalize
    PROVE  FilesInv'
<1>1. /\ RowStep /\ txn.id \in Rows /\ Awaits(txn.id, "uploaded")
      /\ row'[txn.id].scan = txn.scan
      /\ txn.copy \in Rows' => row'[txn.copy] = CopyOf(txn.id)
      /\ \A b \in ArtifactIds \ {txn.id, txn.copy} : row'[b] = row[b]
      /\ Rows' \subseteq Rows \cup {txn.copy}
    BY CommitFinalizeRows DEF FilesInv
<1>2. /\ txn \in FinalizeTxn /\ txn' = None
      /\ UNCHANGED <<quarantine, available, undo, job>>
    BY DEF CommitFinalize
<1>3. /\ txn.scan = "clean" => txn.id \in available
      /\ txn.copy # None => txn.copy \in available \ Rows
      /\ txn.scan \in Verdicts(row[txn.id].kind)
    BY <1>2 DEF FilesInv, TxnOwnsFiles
<1>4. TxnOwnsFiles'
    BY <1>2 DEF TxnOwnsFiles
<1>5. \A u \in undo : Harmless(u)'
    <2>1. TAKE u \in undo
    <2>2. Harmless(u)
        BY DEF FilesInv, UndoIsHarmless
    <2>3. txn' \notin FinalizeTxn
        BY <1>2
    <2>4. u \in FinalizeTxn => u.copy \notin Rows'
        <3>1. None \notin Rows'
            BY DEF Rows
        <3>. QED
            BY <1>1, <1>2, <2>2, <3>1 DEF Harmless
    <2>5. ASSUME Clean(u)
          PROVE  /\ u.id \in Rows' \ quarantine'
                 /\ row'[u.id].status = "uploaded"
                 /\ u.copy = None
        <3>1. /\ u.id \in Rows \ quarantine /\ row[u.id].status = "uploaded"
              /\ u.copy = None /\ u.id # txn.id
            BY <1>2, <2>2, <2>5 DEF Harmless
        <3>2. u.id # txn.copy
            BY <1>3, <3>1 DEF Rows
        <3>. QED
            BY <1>1, <1>2, <3>1, <3>2 DEF RowStep, Rows
    <2>. QED
        BY <2>3, <2>4, <2>5 DEF Harmless, Clean
<1>6. JobsAreSealed'
    BY <1>1, <1>2, JobsKeep DEF FilesInv
<1>7. ServedIsStored'
    <2>1. SUFFICES ASSUME NEW b \in Rows', Servable(b)'
                   PROVE  b \in available
        BY <1>2 DEF ServedIsStored
    <2>2. CASE b = txn.copy
        BY <1>3, <2>1, <2>2 DEF Rows
    <2>3. CASE b = txn.id
        <3>1. txn.scan \in {"clean", "redacted"}
            BY <1>1, <2>1, <2>3 DEF Servable, Place
        <3>. QED
            BY <1>2, <1>3, <2>3, <3>1 DEF FinalizeTxn
    <2>4. CASE b \notin {txn.id, txn.copy}
        BY <1>1, <2>1, <2>4 DEF FilesInv, ServedIsStored, Servable, Rows
    <2>. QED
        BY <2>2, <2>3, <2>4
<1>8. SecretsStayQuarantined'
    <2>1. \A b \in Rows : row'[b].kind = row[b].kind
        BY <1>1 DEF RowStep
    <2>2. row[txn.id] \in Row
        BY <1>1, RowIsRecord
    <2>3. txn.copy \in Rows' => row'[txn.copy].kind = "clear"
        <3>1. CopyOf(txn.id).kind = "clear"
            BY <2>2 DEF CopyOf, Row
        <3>. QED
            BY <1>1, <3>1
    <2>4. ASSUME NEW a \in available, a \in Rows' PROVE row'[a].kind = "clear"
        <3>1. a \in Rows => row[a].kind = "clear"
            BY <2>4 DEF FilesInv, SecretsStayQuarantined
        <3>2. a \in Rows \/ a = txn.copy
            BY <1>1, <2>4
        <3>. QED
            BY <2>1, <2>3, <2>4, <3>1, <3>2
    <2>. QED
        BY <1>2, <2>4 DEF SecretsStayQuarantined
<1>. QED
    BY <1>2, <1>4, <1>5, <1>6, <1>7, <1>8 DEF FilesInv, UndoIsHarmless

LEMMA RequestExpiredFiles ==
    ASSUME TypeOK, FilesInv, NEW batch \in SUBSET Expired, RequestExpired(batch)
    PROVE  FilesInv'
<1>1. /\ RowStep /\ Rows' = Rows
      /\ \A a \in Rows \ batch : row'[a] = row[a]
      /\ \A a \in batch : Sealed(a)' /\ row'[a].status = row[a].status
    <2>1. \A a \in batch : a \in Rows /\ row[a] \in Row
        BY RowIsRecord DEF Expired
    <2>2. \A a \in batch : row'[a].status = row[a].status
        <3>1. TAKE a \in batch
        <3>2. row'[a] = [row[a] EXCEPT !.cleanup = "pending"] /\ row[a] \in Row
            BY <2>1 DEF RequestExpired, Rows
        <3>. QED
            BY <3>2 DEF Row
    <2>. QED
        BY <2>2, RequestExpiredRows
<1>2. /\ txn = None /\ txn' = None
      /\ UNCHANGED <<quarantine, available, undo, job>>
    BY DEF RequestExpired
<1>3. TxnOwnsFiles'
    BY <1>2 DEF TxnOwnsFiles
<1>4. \A u \in undo : Harmless(u)'
    BY <1>1, <1>2 DEF FilesInv, UndoIsHarmless, Harmless, Clean
<1>5. JobsAreSealed'
    BY <1>1, <1>2, JobsKeep DEF FilesInv
<1>6. ServedIsStored'
    BY <1>1, <1>2 DEF FilesInv, ServedIsStored, Servable, Sealed
<1>7. SecretsStayQuarantined'
    BY <1>1, <1>2 DEF FilesInv, SecretsStayQuarantined, RowStep
<1>. QED
    BY <1>2, <1>3, <1>4, <1>5, <1>6, <1>7 DEF FilesInv, UndoIsHarmless

LEMMA MarkFiles ==
    ASSUME TypeOK, FilesInv, NEW w \in Workers, Mark(w)
    PROVE  FilesInv'
<1>1. /\ RowStep /\ Rows' = Rows
      /\ \A b \in Rows : row'[b] = row[b] \/ (Sealed(b) /\ Sealed(b)')
      /\ \A b \in Rows : row'[b].status = row[b].status
    <2>1. \A b \in Rows : row'[b].status = row[b].status
        <3>1. TAKE b \in Rows
        <3>2. row[b] \in Row
            BY RowIsRecord
        <3>3. \/ row' = row
              \/ \E a \in Rows : row' = [row EXCEPT ![a].cleanup = "purged", ![a].charged = 0]
            BY DEF Mark, Pending
        <3>4. \/ row'[b] = row[b]
              \/ row'[b] = [row[b] EXCEPT !.cleanup = "purged", !.charged = 0]
            BY <3>3 DEF TypeOK, Rows
        <3>. QED
            BY <3>2, <3>4 DEF Row
    <2>. QED
        BY <2>1, MarkRows
<1>2. /\ txn = None /\ txn' = None
      /\ UNCHANGED <<quarantine, available, undo>>
    BY DEF Mark
<1>3. TxnOwnsFiles'
    BY <1>2 DEF TxnOwnsFiles
<1>4. \A u \in undo : Harmless(u)'
    BY <1>1, <1>2 DEF FilesInv, UndoIsHarmless, Harmless, Clean
<1>5. JobsAreSealed'
    <2>1. job' = [job EXCEPT ![w].mark = None]
        BY DEF Mark
    <2>2. \A v \in Workers : /\ job'[v].found = job[v].found
                             /\ job'[v].mark \in {job[v].mark, None}
        BY <2>1 DEF TypeOK
    <2>3. \A a \in ArtifactIds : Sealed(a) => Sealed(a)'
        BY <1>1 DEF RowStep, Sealed
    <2>. QED
        BY <2>2, <2>3 DEF FilesInv, JobsAreSealed, Sealed, Rows
<1>6. ServedIsStored'
    BY <1>1, <1>2 DEF FilesInv, ServedIsStored, Servable, Sealed
<1>7. SecretsStayQuarantined'
    BY <1>1, <1>2 DEF FilesInv, SecretsStayQuarantined, RowStep
<1>. QED
    BY <1>2, <1>3, <1>4, <1>5, <1>6, <1>7 DEF FilesInv, UndoIsHarmless

(* Then the steps that leave the rows alone and touch files, transactions  *)
(* and compensations.                                                      *)
LEMMA PlaceUploadFiles ==
    ASSUME TypeOK, FilesInv, NEW a \in ArtifactIds, PlaceUpload(a)
    PROVE  FilesInv'
<1>1. /\ Awaits(a, "reserved") /\ txn' \in UploadTxn /\ txn'.id = a
      /\ quarantine' = quarantine \cup {a}
      /\ UNCHANGED <<row, available, undo, job>>
    BY DEF PlaceUpload, UploadTxn
<1>2. txn' \notin FinalizeTxn
    BY <1>1 DEF UploadTxn, FinalizeTxn
<1>3. TxnOwnsFiles'
    BY <1>1, <1>2 DEF TxnOwnsFiles, Awaits, Rows
<1>4. \A u \in undo : Harmless(u)'
    BY <1>1, <1>2 DEF FilesInv, UndoIsHarmless, Harmless, Clean, Awaits, Rows
<1>. QED
    BY <1>1, <1>3, <1>4
    DEF FilesInv, UndoIsHarmless, JobsAreSealed, Sealed, ServedIsStored, Servable,
        SecretsStayQuarantined, Rows

LEMMA PlaceFinalizedFiles ==
    ASSUME TypeOK, FilesInv, NEW a \in ArtifactIds, NEW scan \in Scans,
           NEW copy \in ArtifactIds \cup {None}, PlaceFinalized(a, scan, copy)
    PROVE  FilesInv'
<1>1. /\ txn = None /\ Awaits(a, "uploaded") /\ a \in quarantine
      /\ scan \in Verdicts(row[a].kind)
      /\ IF scan = "secret_detected" THEN copy \in ArtifactIds /\ Fresh(copy)
                                     ELSE copy = None
      /\ quarantine' = IF scan = "clean" THEN quarantine \ {a} ELSE quarantine
      /\ available' = available \cup (IF scan = "clean" THEN {a} ELSE {copy} \ {None})
      /\ txn' = [op |-> "finalize", id |-> a, scan |-> scan, copy |-> copy]
      /\ UNCHANGED <<row, undo, job>>
    BY DEF PlaceFinalized
<1>2. row[a] \in Row /\ a \in Rows /\ row[a].status = "uploaded"
    BY <1>1, RowIsRecord DEF Awaits
<1>3. scan \notin {"pending", "redacted"} /\ (scan = "clean" => row[a].kind = "clear")
    BY <1>1, <1>2 DEF Verdicts, Row, Kinds
<1>4. txn' \in FinalizeTxn /\ txn'.id = a /\ txn'.scan = scan /\ txn'.copy = copy
    BY <1>1, <1>3 DEF FinalizeTxn
<1>5. txn' \notin UploadTxn
    BY <1>4 DEF UploadTxn, FinalizeTxn
<1>6. /\ scan = "secret_detected" <=> copy # None
      /\ copy # None => /\ copy \in available' \ Rows
                        /\ copy \notin Copies
    BY <1>1 DEF Fresh
<1>7. TxnOwnsFiles'
    <2>1. Awaits(a, "uploaded")' /\ scan \in Verdicts(row'[a].kind) /\ Rows' = Rows
        BY <1>1 DEF Awaits, Rows
    <2>2. scan = "clean" => a \in available' /\ a \notin quarantine'
        BY <1>1
    <2>. QED
        BY <1>4, <1>5, <1>6, <2>1, <2>2 DEF TxnOwnsFiles
<1>8. \A u \in undo : Harmless(u)'
    <2>1. TAKE u \in undo
    <2>2. Harmless(u)
        BY DEF FilesInv, UndoIsHarmless
    <2>3. u \in FinalizeTxn /\ u.copy = copy => copy = None
        BY <1>6 DEF Copies
    <2>4. Clean(u) => u.id # a
        BY <1>1, <2>2 DEF Harmless
    <2>5. quarantine' \subseteq quarantine /\ Rows' = Rows
        BY <1>1 DEF Rows
    <2>. QED
        BY <1>1, <1>4, <2>2, <2>3, <2>4, <2>5 DEF Harmless, Clean
<1>9. SecretsStayQuarantined'
    <2>1. available' \subseteq available \cup {a} \cup {copy}
        BY <1>1
    <2>2. a \in available' => a \in available \/ row[a].kind = "clear"
        BY <1>1, <1>2, <1>3, <1>6
    <2>3. copy \in Rows => copy \in available
        <3>1. None \notin Rows
            BY DEF Rows
        <3>. QED
            BY <1>6, <3>1
    <2>. QED
        BY <1>1, <2>1, <2>2, <2>3 DEF FilesInv, SecretsStayQuarantined, Rows
<1>10. ServedIsStored'
    BY <1>1 DEF FilesInv, ServedIsStored, Servable, Rows
<1>11. JobsAreSealed'
    BY <1>1 DEF FilesInv, JobsAreSealed, Sealed, Rows
<1>. QED
    BY <1>1, <1>7, <1>8, <1>9, <1>10, <1>11 DEF FilesInv, UndoIsHarmless

LEMMA FailFiles ==
    ASSUME TypeOK, FilesInv, Fail
    PROVE  FilesInv'
<1>1. /\ txn # None /\ txn' = None
      /\ undo' \subseteq undo \cup {txn}
      /\ UNCHANGED <<row, quarantine, available, job>>
    BY DEF Fail
<1>2. txn' \notin UploadTxn \cup FinalizeTxn
    BY <1>1
<1>3. TxnOwnsFiles'
    BY <1>2 DEF TxnOwnsFiles
<1>4. \A u \in undo' : Harmless(u)'
    <2>1. TAKE u \in undo'
    <2>2. CASE u \in undo
        BY <1>1, <1>2, <2>2 DEF FilesInv, UndoIsHarmless, Harmless, Clean, Rows
    <2>3. CASE u = txn
        <3>1. u \in FinalizeTxn => u.copy \notin Rows
            BY <2>3 DEF FilesInv, TxnOwnsFiles, Rows
        <3>2. Clean(u) => /\ u.id \in Rows \ quarantine
                          /\ row[u.id].status = "uploaded"
                          /\ u.copy = None
            BY <2>3 DEF FilesInv, TxnOwnsFiles, Clean, Awaits
        <3>. QED
            BY <1>1, <1>2, <3>1, <3>2 DEF Harmless, Clean, Rows
    <2>. QED
        BY <1>1, <2>2, <2>3
<1>. QED
    BY <1>1, <1>3, <1>4
    DEF FilesInv, UndoIsHarmless, JobsAreSealed, Sealed, ServedIsStored, Servable,
        SecretsStayQuarantined, Rows

LEMMA MoveBackFiles ==
    ASSUME TypeOK, FilesInv, NEW u \in undo, MoveBack(u)
    PROVE  FilesInv'
<1> DEFINE back == IF /\ u \in FinalizeTxn /\ u.scan = "clean"
                      /\ u.id \in available /\ u.id \notin quarantine
                   THEN {u.id} ELSE {}
           written == IF u \in FinalizeTxn THEN {u.copy} ELSE {}
<1>1. /\ undo' = undo \ {u}
      /\ quarantine' \subseteq quarantine \cup back
      /\ available' = available \ (back \cup written)
      /\ UNCHANGED <<row, txn, job>>
    BY DEF MoveBack
<1>2. Harmless(u)
    BY DEF FilesInv, UndoIsHarmless
<1>3. back # {} => Clean(u) /\ back = {u.id}
    BY DEF Clean
<1>4. written # {} => u \in FinalizeTxn /\ written = {u.copy} /\ u.copy \notin Rows
    BY <1>2 DEF Harmless
<1> HIDE DEF back, written
<1>5. Rows' = Rows
    BY <1>1 DEF Rows
<1>6. TxnOwnsFiles'
    <2>1. txn \in UploadTxn => Awaits(txn.id, "reserved")'
        BY <1>1 DEF FilesInv, TxnOwnsFiles, Awaits, Rows
    <2>2. ASSUME txn \in FinalizeTxn
          PROVE  /\ Awaits(txn.id, "uploaded")'
                 /\ txn.scan \in Verdicts(row'[txn.id].kind)
                 /\ txn.scan = "clean" => txn.id \in available' /\ txn.id \notin quarantine'
                 /\ txn.scan = "secret_detected" <=> txn.copy # None
                 /\ txn.copy # None => txn.copy \in available' \ Rows'
        <3>1. /\ Awaits(txn.id, "uploaded")
              /\ txn.scan \in Verdicts(row[txn.id].kind)
              /\ txn.scan = "clean" => txn.id \in available /\ txn.id \notin quarantine
              /\ txn.scan = "secret_detected" <=> txn.copy # None
              /\ txn.copy # None => txn.copy \in available \ Rows
            BY <2>2 DEF FilesInv, TxnOwnsFiles
        <3>2. txn.id \notin back
            BY <1>2, <1>3, <2>2 DEF Harmless
        <3>3. txn.id \notin written
            BY <1>4, <3>1 DEF Awaits
        <3>4. txn.copy \notin back
            BY <1>2, <1>3, <3>1 DEF Harmless, Rows
        <3>5. txn.copy # None => txn.copy \notin written
            BY <1>2, <1>4, <2>2 DEF Harmless
        <3>6. Awaits(txn.id, "uploaded")'
            BY <1>1, <3>1 DEF Awaits, Rows
        <3>. QED
            BY <1>1, <1>5, <3>1, <3>2, <3>3, <3>4, <3>5, <3>6
    <2>. QED
        BY <1>1, <2>1, <2>2 DEF TxnOwnsFiles
<1>7. \A v \in undo' : Harmless(v)'
    <2>1. TAKE v \in undo'
    <2>2. v \in undo /\ v # u /\ Harmless(v)
        BY <1>1 DEF FilesInv, UndoIsHarmless
    <2>3. Clean(v) => v.id \notin back
        <3>1. SUFFICES ASSUME Clean(v), Clean(u), v.id = u.id
                       PROVE  FALSE
            BY <1>3
        <3>2. v.copy = None /\ u.copy = None
            BY <1>2, <2>2, <3>1 DEF Harmless
        <3>. QED
            BY <2>2, <3>1, <3>2 DEF Clean, FinalizeTxn
    <2>. QED
        BY <1>1, <1>5, <2>2, <2>3 DEF Harmless, Clean
<1>8. ServedIsStored'
    <2>1. SUFFICES ASSUME NEW b \in Rows, Servable(b)
                   PROVE  b \in available'
        BY <1>1 DEF ServedIsStored, Servable, Rows
    <2>2. b \in available /\ row[b].status = "finalized"
        BY <2>1 DEF FilesInv, ServedIsStored, Servable
    <2>3. b \notin back
        BY <1>2, <1>3, <2>2 DEF Harmless
    <2>. QED
        BY <1>1, <1>4, <2>2, <2>3
<1>. QED
    BY <1>1, <1>5, <1>6, <1>7, <1>8
    DEF FilesInv, UndoIsHarmless, JobsAreSealed, Sealed, SecretsStayQuarantined, Rows

LEMMA DieFiles ==
    ASSUME TypeOK, FilesInv, Die
    PROVE  FilesInv'
<1>1. /\ txn' = None \/ txn' = txn
      /\ undo' \subseteq undo
      /\ UNCHANGED <<row, quarantine, available, job>>
    BY DEF Die
<1>2. TxnOwnsFiles'
    BY <1>1 DEF FilesInv, TxnOwnsFiles, Awaits, Rows
<1>3. \A u \in undo' : Harmless(u)'
    BY <1>1 DEF FilesInv, UndoIsHarmless, Harmless, Clean, Rows
<1>. QED
    BY <1>1, <1>2, <1>3
    DEF FilesInv, UndoIsHarmless, JobsAreSealed, Sealed, ServedIsStored, Servable,
        SecretsStayQuarantined, Rows

LEMMA ReadPendingFiles ==
    ASSUME TypeOK, FilesInv, NEW w \in Workers, NEW batch \in SUBSET Pending,
           ReadPending(w, batch)
    PROVE  FilesInv'
<1> DEFINE found == {[id |-> a, place |-> Place(row[a])] : a \in batch}
<1>1. /\ job' = [job EXCEPT ![w].found = found]
      /\ UNCHANGED <<row, quarantine, available, txn, undo>>
    BY DEF ReadPending
<1>2. \A f \in found : Sealed(f.id)
    BY DEF Sealed, Pending
<1> HIDE DEF found
<1>3. \A v \in Workers : /\ job'[v].found \in {job[v].found, found}
                         /\ job'[v].mark = job[v].mark
    BY <1>1 DEF TypeOK
<1>4. JobsAreSealed'
    BY <1>1, <1>2, <1>3 DEF FilesInv, JobsAreSealed, Sealed, Rows
<1>. QED
    BY <1>1, <1>4
    DEF FilesInv, TxnOwnsFiles, Awaits, UndoIsHarmless, Harmless, Clean,
        ServedIsStored, Servable, SecretsStayQuarantined, Rows

LEMMA UnlinkFiles ==
    ASSUME TypeOK, FilesInv, NEW w \in Workers, NEW f \in job[w].found, Unlink(w, f)
    PROVE  FilesInv'
<1>1. /\ quarantine' \subseteq quarantine
      /\ available' \subseteq available
      /\ \A a \in available : a # f.id => a \in available'
      /\ job' = [job EXCEPT ![w] = [found |-> @.found \ {f}, mark |-> f.id]]
      /\ UNCHANGED <<row, txn, undo>>
    BY DEF Unlink
<1>2. Sealed(f.id)
    BY DEF FilesInv, JobsAreSealed
<1>3. JobsAreSealed'
    <2>1. \A v \in Workers : /\ job'[v].found \subseteq job[v].found
                             /\ job'[v].mark \in {job[v].mark, f.id}
        BY <1>1 DEF TypeOK
    <2>. QED
        BY <1>1, <1>2, <2>1 DEF FilesInv, JobsAreSealed, Sealed, Rows
<1>4. ServedIsStored'
    BY <1>1, <1>2 DEF FilesInv, ServedIsStored, Servable, Sealed, Rows
<1>5. TxnOwnsFiles'
    <2>1. txn \in FinalizeTxn => txn.id # f.id /\ txn.copy # f.id
        BY <1>2 DEF FilesInv, TxnOwnsFiles, Awaits, Sealed, Rows
    <2>. QED
        BY <1>1, <2>1 DEF FilesInv, TxnOwnsFiles, Awaits, Rows
<1>. QED
    BY <1>1, <1>3, <1>4, <1>5
    DEF FilesInv, UndoIsHarmless, Harmless, Clean, SecretsStayQuarantined, Rows

LEMMA AbandonFiles ==
    ASSUME TypeOK, FilesInv, NEW w \in Workers, Abandon(w)
    PROVE  FilesInv'
<1>1. /\ job' = [job EXCEPT ![w] = Idle]
      /\ UNCHANGED <<row, quarantine, available, txn, undo>>
    BY DEF Abandon
<1>2. \A v \in Workers : \/ job'[v] = job[v]
                         \/ job'[v].found = {} /\ job'[v].mark = None
    BY <1>1 DEF TypeOK, Idle
<1>3. JobsAreSealed'
    BY <1>1, <1>2 DEF FilesInv, JobsAreSealed, Sealed, Rows
<1>. QED
    BY <1>1, <1>3
    DEF FilesInv, TxnOwnsFiles, Awaits, UndoIsHarmless, Harmless, Clean,
        ServedIsStored, Servable, SecretsStayQuarantined, Rows

LEMMA SameFiles ==
    ASSUME FilesInv, UNCHANGED <<row, quarantine, available, txn, undo, job>>
    PROVE  FilesInv'
BY DEF FilesInv, TxnOwnsFiles, Awaits, UndoIsHarmless, Harmless, Clean,
       JobsAreSealed, Sealed, ServedIsStored, Servable, SecretsStayQuarantined, Rows

LEMMA FilesStep ==
    ASSUME TypeOK, FilesInv, [Next]_vars
    PROVE  FilesInv'
<1>1. CASE ArtifactNext
    BY <1>1, ReserveFiles, PlaceUploadFiles, CommitUploadFiles, PlaceFinalizedFiles,
       CommitFinalizeFiles, FailFiles, MoveBackFiles, DieFiles, RequestExpiredFiles,
       ReadPendingFiles, UnlinkFiles, MarkFiles, AbandonFiles, SameFiles
    DEF ArtifactNext, Tick
<1>2. CASE UNCHANGED <<row, quarantine, available, txn, undo, job>>
    BY <1>2, SameFiles
<1>. QED
    BY <1>1, <1>2
    DEF Next, ReserveEvidence, FinalizeEvidence, vars, artifactVars
----------------------------------------------------------------------------
----------------------------------------------------------------------------
(* The Evidence.  A linked Artifact never expires, so its row stays as it  *)
(* is, and what a finalization compares with stays true.                   *)
EvidenceKept ==
    /\ links \subseteq links'
    /\ \A e \in Submitted :
           /\ e \in Submitted'
           /\ evidence'[e].task = evidence[e].task
           /\ evidence'[e].kind = evidence[e].kind
           /\ evidence'[e].attempt = evidence[e].attempt
           /\ evidence'[e].retryOf = evidence[e].retryOf
           /\ evidence'[e].artifacts = evidence[e].artifacts
           /\ evidence[e].status = "finalized" => evidence'[e].status = "finalized"

LEMMA LinkedRows ==
    ASSUME LinksAreServed, RowStep
    PROVE  \A a \in links : a \in Rows' /\ row'[a] = row[a]
BY DEF LinksAreServed, RowStep, Expired, Servable

LEMMA EligibleStays ==
    ASSUME NEW task, NEW kind, NEW artifacts, Eligible(task, kind, artifacts),
           \A a \in artifacts : a \in Rows' /\ row'[a] = row[a]
    PROVE  Eligible(task, kind, artifacts)'
<1>1. \A a \in artifacts : Servable(a)'
    BY DEF Eligible, Servable
<1>. QED
    BY <1>1 DEF Eligible

LEMMA RetryStays ==
    ASSUME NEW task, NEW attempt, NEW retryOf, RetryIsValid(task, attempt, retryOf),
           EvidenceKept
    PROVE  RetryIsValid(task, attempt, retryOf)'
BY DEF RetryIsValid, EvidenceKept

LEMMA KeptEvidence ==
    ASSUME LinksAreServed, RowStep, EvidenceKept, NEW e \in Submitted
    PROVE  /\ DependenciesAreValid(e)'
           /\ evidence'[e].artifacts \subseteq links'
<1>1. PICK r : r = evidence[e]
    OBVIOUS
<1>2. /\ RetryIsValid(r.task, r.attempt, r.retryOf)
      /\ Eligible(r.task, r.kind, r.artifacts)
      /\ r.artifacts \subseteq links
    BY <1>1 DEF LinksAreServed, DependenciesAreValid
<1>3. /\ evidence'[e].task = r.task /\ evidence'[e].kind = r.kind
      /\ evidence'[e].attempt = r.attempt /\ evidence'[e].retryOf = r.retryOf
      /\ evidence'[e].artifacts = r.artifacts
      /\ links \subseteq links'
    BY <1>1 DEF EvidenceKept
<1>4. RetryIsValid(r.task, r.attempt, r.retryOf)'
    BY <1>2, RetryStays
<1>5. Eligible(r.task, r.kind, r.artifacts)'
    BY <1>2, LinkedRows, EligibleStays
<1>. QED
    BY <1>2, <1>3, <1>4, <1>5 DEF DependenciesAreValid

LEMMA ReserveEvidenceLinks ==
    ASSUME TypeOK, LinksAreServed, RowStep, NEW e \in EvidenceIds \ Submitted,
           NEW task \in Tasks, NEW kind \in {"git", "command_test"},
           NEW attempt \in 1 .. MaxAttempt, NEW retryOf \in EvidenceIds \cup {None},
           NEW artifacts \in SUBSET ArtifactIds,
           ReserveEvidence(e, task, kind, attempt, retryOf, artifacts)
    PROVE  LinksAreServed'
<1> DEFINE r == [task |-> task, kind |-> kind, attempt |-> attempt, retryOf |-> retryOf,
                 artifacts |-> artifacts, status |-> "reserved"]
<1>1. /\ RetryIsValid(task, attempt, retryOf)
      /\ Eligible(task, kind, artifacts)
      /\ evidence' = [evidence EXCEPT ![e] = r]
      /\ links' = links \cup artifacts
      /\ UNCHANGED row
    BY DEF ReserveEvidence
<1>2. /\ r.task = task /\ r.kind = kind /\ r.attempt = attempt
      /\ r.retryOf = retryOf /\ r.artifacts = artifacts
    OBVIOUS
<1> HIDE DEF r
<1>3. /\ \A x \in EvidenceIds \ {e} : evidence'[x] = evidence[x]
      /\ evidence'[e] = r
    BY <1>1 DEF TypeOK
<1>4. EvidenceKept
    BY <1>1, <1>3 DEF EvidenceKept, Submitted
<1>5. \A a \in artifacts : a \in Rows /\ Servable(a)
    BY <1>1 DEF Eligible, Servable
<1>6. Rows' = Rows
    BY <1>1 DEF Rows
<1>7. \A a \in links' : Servable(a)'
    BY <1>1, <1>5, <1>6 DEF LinksAreServed, Servable
<1>8. RetryIsValid(task, attempt, retryOf)' /\ Eligible(task, kind, artifacts)'
    <2>1. RetryIsValid(task, attempt, retryOf)'
        BY <1>1, <1>4, RetryStays
    <2>2. Eligible(task, kind, artifacts)'
        BY <1>1, <1>5, <1>6, EligibleStays
    <2>. QED
        BY <2>1, <2>2
<1>9. \A x \in Submitted' : DependenciesAreValid(x)' /\ evidence'[x].artifacts \subseteq links'
    <2>1. TAKE x \in Submitted'
    <2>2. CASE x = e
        BY <1>1, <1>2, <1>3, <1>8, <2>2 DEF DependenciesAreValid
    <2>3. CASE x # e
        <3>1. x \in Submitted
            BY <1>3, <2>3 DEF Submitted
        <3>. QED
            BY <1>4, <3>1, KeptEvidence
    <2>. QED
        BY <2>2, <2>3
<1>. QED
    BY <1>7, <1>9 DEF LinksAreServed

LEMMA LinksStep ==
    ASSUME TypeOK, TxnOwnsFiles, LinksAreServed, [Next]_vars
    PROVE  LinksAreServed'
<1>1. RowStep
    BY RowsStep
<1>2. ASSUME NEW e \in EvidenceIds \ Submitted, NEW task \in Tasks,
             NEW kind \in {"git", "command_test"}, NEW attempt \in 1 .. MaxAttempt,
             NEW retryOf \in EvidenceIds \cup {None}, NEW artifacts \in SUBSET ArtifactIds,
             ReserveEvidence(e, task, kind, attempt, retryOf, artifacts)
      PROVE  LinksAreServed'
    BY <1>1, <1>2, ReserveEvidenceLinks
<1>3. ASSUME EvidenceKept, links' = links, Submitted' = Submitted
      PROVE  LinksAreServed'
    <2>1. \A a \in links' : Servable(a)'
        BY <1>1, <1>3, LinkedRows DEF LinksAreServed, Servable
    <2>2. \A e \in Submitted' : /\ DependenciesAreValid(e)'
                                /\ evidence'[e].artifacts \subseteq links'
        BY <1>1, <1>3, KeptEvidence
    <2>. QED
        BY <2>1, <2>2 DEF LinksAreServed
<1>4. ASSUME NEW e \in EvidenceIds, FinalizeEvidence(e)
      PROVE  EvidenceKept /\ links' = links /\ Submitted' = Submitted
    <2>1. /\ evidence' = [evidence EXCEPT ![e] = [evidence[e] EXCEPT !.status = "finalized"]]
          /\ links' = links /\ e \in Submitted
        BY <1>4 DEF FinalizeEvidence, artifactVars
    <2> DEFINE r == [evidence[e] EXCEPT !.status = "finalized"]
    <2>2. evidence[e] \in EvidenceRow
        BY <2>1 DEF Submitted, TypeOK
    <2>3. /\ r \in EvidenceRow
          /\ r.task = evidence[e].task /\ r.kind = evidence[e].kind
          /\ r.attempt = evidence[e].attempt /\ r.retryOf = evidence[e].retryOf
          /\ r.artifacts = evidence[e].artifacts /\ r.status = "finalized"
        BY <2>2 DEF EvidenceRow
    <2>4. evidence' = [evidence EXCEPT ![e] = r]
        BY <2>1
    <2> HIDE DEF r
    <2>5. Submitted' = Submitted
        BY <2>1, <2>3, <2>4 DEF Submitted, TypeOK
    <2>. QED
        BY <2>1, <2>3, <2>4, <2>5 DEF EvidenceKept, TypeOK, Submitted
<1>5. UNCHANGED <<evidence, links>> => EvidenceKept /\ links' = links /\ Submitted' = Submitted
    BY DEF EvidenceKept, Submitted
<1>6. ArtifactNext => UNCHANGED links
    BY DEF ArtifactNext, Reserve, PlaceUpload, CommitUpload, PlaceFinalized,
           CommitFinalize, Fail, MoveBack, Die, RequestExpired, ReadPending, Unlink,
           Mark, Abandon, Tick
<1>7. UNCHANGED vars => UNCHANGED <<evidence, links>>
    BY DEF vars, artifactVars
<1>. QED
    BY <1>2, <1>3, <1>4, <1>5, <1>6, <1>7 DEF Next, Submitted
----------------------------------------------------------------------------
THEOREM InvHolds == Spec => []Inv
<1>1. Init => Inv
    <2>1. SUFFICES ASSUME Init PROVE Inv
        OBVIOUS
    <2>2. /\ clock = 0 /\ quarantine = {} /\ available = {} /\ txn = None
          /\ undo = {} /\ links = {}
          /\ row = [a \in ArtifactIds |-> None]
          /\ job = [w \in Workers |-> Idle]
          /\ evidence = [e \in EvidenceIds |-> None]
        BY <2>1 DEF Init, ArtifactInit
    <2>3. Rows = {} /\ Submitted = {}
        BY <2>2 DEF Rows, Submitted
    <2>4. TypeOK
        BY <2>2 DEF TypeOK, Idle
    <2>5. FilesInv
        BY <2>2, <2>3
        DEF FilesInv, TxnOwnsFiles, UndoIsHarmless, JobsAreSealed, Idle, ServedIsStored,
            SecretsStayQuarantined
    <2>6. LinksAreServed
        BY <2>2, <2>3 DEF LinksAreServed
    <2>. QED
        BY <2>4, <2>5, <2>6 DEF Inv
<1>2. Inv /\ [Next]_vars => Inv'
    <2>1. SUFFICES ASSUME Inv, [Next]_vars PROVE Inv'
        OBVIOUS
    <2>2. TypeOK /\ FilesInv /\ TxnOwnsFiles /\ LinksAreServed
        BY <2>1 DEF Inv, FilesInv
    <2>. QED
        BY <2>1, <2>2, TypeStep, FilesStep, LinksStep DEF Inv
<1>. QED
    BY <1>1, <1>2, PTL DEF Spec

(* Types hold in every reachable state.                                    *)
THEOREM TypeCorrect == Spec => []TypeOK
<1>1. Inv => TypeOK
    BY DEF Inv
<1>. QED
    BY <1>1, InvHolds, PTL

(* A served Artifact has its Body in available/, whatever failed or died.  *)
THEOREM ServedAlwaysStored == Spec => []ServedIsStored
<1>1. Inv => ServedIsStored
    BY DEF Inv, FilesInv
<1>. QED
    BY <1>1, InvHolds, PTL

(* No Body with a secret is ever in available/, before a COMMIT or after.  *)
THEOREM SecretsStayIn == Spec => []SecretsStayQuarantined
<1>1. Inv => SecretsStayQuarantined
    BY DEF Inv, FilesInv
<1>. QED
    BY <1>1, InvHolds, PTL

(* An Evidence always finds its Artifacts served and stored, and the test  *)
(* it retries finalized: cleanup never takes what Evidence links.          *)
THEOREM EvidenceAlwaysKept == Spec => []EvidenceIsKept
<1>1. Inv => EvidenceIsKept
    BY DEF Inv, FilesInv, LinksAreServed, ServedIsStored, EvidenceIsKept, Servable
<1>. QED
    BY <1>1, InvHolds, PTL

(* No step both changes a row and moves a file.                            *)
LEMMA RowsOrFiles ==
    ASSUME [Next]_vars
    PROVE  UNCHANGED row \/ UNCHANGED available
<1>1. ASSUME \/ \E a \in ArtifactIds, d \in Declared : Reserve(a, d)
             \/ CommitUpload
             \/ CommitFinalize
             \/ \E batch \in SUBSET Expired : RequestExpired(batch)
             \/ \E w \in Workers : Mark(w)
      PROVE  UNCHANGED available
    BY <1>1 DEF Reserve, CommitUpload, CommitFinalize, RequestExpired, Mark
<1>2. ASSUME \/ \E a \in ArtifactIds : PlaceUpload(a)
             \/ \E a \in ArtifactIds, scan \in Scans,
                   copy \in ArtifactIds \cup {None} : PlaceFinalized(a, scan, copy)
             \/ \E u \in undo : MoveBack(u)
             \/ \E w \in Workers : \E f \in job[w].found : Unlink(w, f)
      PROVE  UNCHANGED row
    BY <1>2 DEF PlaceUpload, PlaceFinalized, MoveBack, Unlink
<1>3. ASSUME \/ Fail
             \/ Die
             \/ \E w \in Workers, batch \in SUBSET Pending : ReadPending(w, batch)
             \/ \E w \in Workers : Abandon(w)
             \/ Tick
      PROVE  UNCHANGED row
    BY <1>3 DEF Fail, Die, ReadPending, Abandon, Tick
<1>4. ASSUME UNCHANGED artifactVars
      PROVE  UNCHANGED row
    BY <1>4 DEF artifactVars
<1>5. ASSUME NEW e, NEW task, NEW kind, NEW attempt, NEW retryOf, NEW artifacts,
             ReserveEvidence(e, task, kind, attempt, retryOf, artifacts)
      PROVE  UNCHANGED row
    BY <1>5 DEF ReserveEvidence
<1>6. ASSUME NEW e, FinalizeEvidence(e)
      PROVE  UNCHANGED artifactVars
    BY <1>6 DEF FinalizeEvidence
<1>7. UNCHANGED vars => UNCHANGED artifactVars
    BY DEF vars, artifactVars
<1>8. ArtifactNext => UNCHANGED row \/ UNCHANGED available
    BY <1>1, <1>2, <1>3 DEF ArtifactNext
<1>. QED
    BY <1>4, <1>5, <1>6, <1>7, <1>8 DEF Next

(* A served Artifact is sealed, expired and unlinked, before its Body can  *)
(* disappear.                                                              *)
THEOREM ServedUntilSealed == Spec => SealedFirst
<1> DEFINE A == \A a \in ArtifactIds :
                    Servable(a) /\ ~(Servable(a)' /\ a \in available') =>
                        /\ row[a].expires <= clock
                        /\ a \notin links
                        /\ row'[a] = [row[a] EXCEPT !.cleanup = "pending"]
                        /\ a \in available'
<1>1. Inv /\ [Next]_vars => A
    <2>1. SUFFICES ASSUME Inv, [Next]_vars, NEW a \in ArtifactIds, Servable(a),
                          ~(Servable(a)' /\ a \in available')
                   PROVE  /\ row[a].expires <= clock /\ a \notin links
                          /\ row'[a] = [row[a] EXCEPT !.cleanup = "pending"]
                          /\ a \in available'
        OBVIOUS
    <2>2. RowStep /\ FilesInv'
        BY <2>1, RowsStep, FilesStep DEF Inv, FilesInv
    <2>3. a \in Rows /\ a \in Rows'
        BY <2>1, <2>2 DEF Servable, RowStep
    <2>4. row'[a] # row[a]
        BY <2>1, <2>2, <2>3 DEF Servable, FilesInv, ServedIsStored
    <2>5. a \in Expired /\ row'[a] = [row[a] EXCEPT !.cleanup = "pending"]
        BY <2>1, <2>2, <2>3, <2>4 DEF RowStep
    <2>6. a \in available
        BY <2>1, <2>3 DEF Inv, FilesInv, ServedIsStored
    <2>7. available' = available
        BY <2>1, <2>4, RowsOrFiles
    <2>. QED
        BY <2>5, <2>6, <2>7 DEF Expired
<1>. QED
    BY <1>1, InvHolds, PTL DEF Spec, SealedFirst

(* Downloads.  What a download has read is served, or sealed as an expired *)
(* row without Evidence, and then stays so.                                *)
Overdue(a) == /\ Sealed(a)
              /\ row[a].expires <= clock
              /\ a \notin links

ReaderInv ==
    /\ reader \in [Readers -> ArtifactIds \cup {None}]
    /\ \A r \in Readers :
           reader[r] # None => Servable(reader[r]) \/ Overdue(reader[r])

LEMMA SealedExpiry ==
    ASSUME TypeOK, TxnOwnsFiles, [Next]_vars, NEW a \in ArtifactIds, Sealed(a)
    PROVE  row'[a].expires = row[a].expires
<1>0. a \in Rows /\ row[a].cleanup # "active" /\ row[a] \in Row
    BY RowIsRecord DEF Sealed
<1>1. ASSUME NEW b \in ArtifactIds, NEW d \in Declared, Reserve(b, d)
      PROVE  row'[a] = row[a]
    BY <1>0, <1>1, ReserveRows
<1>2. CASE CommitUpload
    <2>1. txn.id # a
        BY <1>0, <1>2 DEF CommitUpload, TxnOwnsFiles, Awaits
    <2>. QED
        BY <1>2, <2>1, CommitUploadRows
<1>3. CASE CommitFinalize
    <2>1. txn.id # a /\ txn.copy # a
        <3>1. a # None
            BY <1>0 DEF Rows
        <3>. QED
            BY <1>0, <1>3, <3>1 DEF CommitFinalize, TxnOwnsFiles, Awaits
    <2>. QED
        BY <1>3, <2>1, CommitFinalizeRows
<1>4. ASSUME NEW batch \in SUBSET Expired, RequestExpired(batch)
      PROVE  row'[a] = row[a]
    <2>1. a \notin batch
        BY <1>0 DEF Expired
    <2>. QED
        BY <1>0, <1>4, <2>1, RequestExpiredRows
<1>5. ASSUME NEW w \in Workers, Mark(w)
      PROVE  row'[a].expires = row[a].expires
    <2>1. \/ row'[a] = row[a]
          \/ row'[a] = [row[a] EXCEPT !.cleanup = "purged", !.charged = 0]
        BY <1>5 DEF Mark, TypeOK
    <2>. QED
        BY <1>0, <2>1 DEF Row
<1>6. UNCHANGED vars => UNCHANGED row
    BY DEF vars, artifactVars
<1>7. CASE UNCHANGED row
    BY <1>7
<1>. QED
    BY <1>1, <1>2, <1>3, <1>4, <1>5, <1>6, <1>7
    DEF Next, ArtifactNext, PlaceUpload, PlaceFinalized, Fail, MoveBack, Die,
        ReadPending, Unlink, Abandon, Tick, ReserveEvidence, FinalizeEvidence,
        artifactVars

LEMMA ClockGrows ==
    ASSUME TypeOK, [Next]_vars
    PROVE  clock \in Nat /\ clock' \in Nat /\ clock <= clock'
<1>1. clock \in Nat
    BY DEF TypeOK
<1>2. ASSUME ArtifactNext PROVE clock' = clock \/ clock' = clock + 1
    <2>1. \/ Tick \/ UNCHANGED clock
        BY <1>2, Zenon DEF ArtifactNext, Reserve, PlaceUpload, CommitUpload,
               PlaceFinalized, CommitFinalize, Fail, MoveBack, Die, RequestExpired,
               ReadPending, Unlink, Mark, Abandon
    <2>. QED
        BY <2>1 DEF Tick
<1>3. ASSUME NEW e, NEW task, NEW kind, NEW attempt, NEW retryOf, NEW artifacts,
             ReserveEvidence(e, task, kind, attempt, retryOf, artifacts)
      PROVE  clock' = clock
    BY <1>3, Zenon DEF ReserveEvidence
<1>4. ASSUME NEW e, FinalizeEvidence(e)
      PROVE  clock' = clock
    BY <1>4, Zenon DEF FinalizeEvidence, artifactVars
<1>5. ASSUME UNCHANGED vars
      PROVE  clock' = clock
    BY <1>5 DEF vars, artifactVars
<1>6. clock' = clock \/ clock' = clock + 1
    BY <1>2, <1>3, <1>4, <1>5, Zenon DEF Next
<1>. QED
    BY <1>1, <1>6

LEMMA ReadStaysCovered ==
    ASSUME Inv, Inv', [Next]_vars, NEW a \in ArtifactIds, Servable(a) \/ Overdue(a)
    PROVE  Servable(a)' \/ Overdue(a)'
<1>1. TypeOK /\ TxnOwnsFiles /\ RowStep
    BY RowsStep DEF Inv, FilesInv
<1>2. /\ clock \in Nat /\ clock' \in Nat /\ clock <= clock'
    BY <1>1, ClockGrows
<1>3. a \in Rows /\ a \in Rows' /\ row[a] \in Row
    BY <1>1, RowIsRecord DEF Servable, Overdue, Sealed, RowStep
<1>4. row[a].expires \in Nat
    BY <1>3 DEF Row
<1>5. Sealed(a)' => a \notin links'
    BY DEF Inv, LinksAreServed, Servable, Sealed
<1>6. CASE Overdue(a)
    <2>1. Sealed(a)' /\ row'[a].expires = row[a].expires
        BY <1>1, <1>3, <1>6, SealedExpiry DEF Overdue, RowStep
    <2>. QED
        BY <1>2, <1>4, <1>5, <1>6, <2>1 DEF Overdue
<1>7. CASE Servable(a) /\ row'[a] = row[a]
    BY <1>3, <1>7 DEF Servable, Place
<1>8. CASE a \in Expired /\ row'[a] = [row[a] EXCEPT !.cleanup = "pending"]
    <2>1. row[a].expires <= clock
        BY <1>8 DEF Expired
    <2>2. row'[a].cleanup = "pending" /\ row'[a].expires = row[a].expires
        BY <1>3, <1>8 DEF Row
    <2>. QED
        BY <1>2, <1>3, <1>4, <1>5, <2>1, <2>2 DEF Overdue, Sealed
<1>. QED
    BY <1>1, <1>3, <1>6, <1>7, <1>8 DEF RowStep

(* A download that has read a served row finds its Body, or the row is     *)
(* sealed, expired and without Evidence by then.                           *)
THEOREM ReadFindsOrSealed == AccessSpec => []ReadMissesOnlySealed
<1>1. AccessInit => Init
    BY DEF AccessInit
<1>2. [AccessNext]_accessVars => [Next]_vars
    BY DEF AccessNext, accessVars, ReadRow, OpenBody
<1>3. AccessSpec => Spec
    BY <1>1, <1>2, PTL DEF AccessSpec, Spec
<1>4. AccessInit => ReaderInv
    BY DEF AccessInit, ReaderInv
<1>5. Inv /\ Inv' /\ ReaderInv /\ [AccessNext]_accessVars => ReaderInv'
    <2>1. SUFFICES ASSUME Inv, Inv', ReaderInv, [AccessNext]_accessVars
                   PROVE  ReaderInv'
        OBVIOUS
    <2>2. \A a \in ArtifactIds : Servable(a) \/ Overdue(a) => Servable(a)' \/ Overdue(a)'
        BY <1>2, <2>1, ReadStaysCovered
    <2>3. CASE UNCHANGED reader
        BY <2>1, <2>2, <2>3 DEF ReaderInv
    <2>4. ASSUME NEW r \in Readers, NEW a \in ArtifactIds, ReadRow(r, a)
          PROVE  ReaderInv'
        <3>1. Servable(a)' \/ Overdue(a)'
            BY <2>2, <2>4 DEF ReadRow
        <3>2. /\ reader' \in [Readers -> ArtifactIds \cup {None}]
              /\ \A q \in Readers : reader'[q] = IF q = r THEN a ELSE reader[q]
            BY <2>1, <2>4 DEF ReadRow, ReaderInv
        <3>. QED
            BY <2>1, <2>2, <3>1, <3>2 DEF ReaderInv
    <2>5. ASSUME NEW r \in Readers, OpenBody(r)
          PROVE  ReaderInv'
        <3>1. /\ reader' \in [Readers -> ArtifactIds \cup {None}]
              /\ \A q \in Readers : reader'[q] = IF q = r THEN None ELSE reader[q]
            BY <2>1, <2>5 DEF OpenBody, ReaderInv
        <3>. QED
            BY <2>1, <2>2, <3>1 DEF ReaderInv
    <2>. QED
        BY <2>1, <2>3, <2>4, <2>5 DEF AccessNext, accessVars
<1>6. Inv /\ ReaderInv => ReadMissesOnlySealed
    BY DEF Inv, FilesInv, ServedIsStored, ReaderInv, ReadMissesOnlySealed, Servable,
           Overdue, Sealed
<1>. QED
    BY <1>3, <1>4, <1>5, <1>6, InvHolds, PTL DEF AccessSpec
----------------------------------------------------------------------------
(* Sums.  What a sum is of an extended, and of a changed, function.        *)
LEMMA UnitsAreFinite ==
    ASSUME NEW S, IsFiniteSet(S), NEW n \in [S -> Nat]
    PROVE  /\ IsFiniteSet(Units(n))
           /\ Total(n) \in Nat
<1> DEFINE part == [a \in S |-> {a} \X (1 .. n[a])]
           parts == {{a} \X (1 .. n[a]) : a \in S}
<1>1. part \in Surjection(S, parts)
    BY DEF Surjection
<1>2. IsFiniteSet(parts)
    BY <1>1, FS_Surjection
<1>3. ASSUME NEW p \in parts PROVE IsFiniteSet(p)
    <2>1. PICK a \in S : p = {a} \X (1 .. n[a])
        OBVIOUS
    <2>2. IsFiniteSet({a}) /\ IsFiniteSet(1 .. n[a])
        <3>1. 1 \in Int /\ n[a] \in Int
            OBVIOUS
        <3>. QED
            BY <3>1, FS_Singleton, FS_Interval
    <2>. QED
        BY <2>1, <2>2, FS_Product
<1>4. Units(n) = UNION parts
    BY DEF Units
<1> HIDE DEF parts
<1>5. IsFiniteSet(Units(n))
    BY <1>2, <1>3, <1>4, FS_UNION
<1>. QED
    BY <1>5, FS_CardinalityType DEF Total

LEMMA TotalGrows ==
    ASSUME NEW T, IsFiniteSet(T), NEW S \in SUBSET T, NEW m \in [S -> Nat],
           NEW n \in [T -> Nat], \A a \in S : m[a] <= n[a]
    PROVE  Total(m) <= Total(n)
<1>1. \A a \in S : {a} \X (1 .. m[a]) \subseteq {a} \X (1 .. n[a])
    OBVIOUS
<1>2. Units(m) \in SUBSET Units(n)
    BY <1>1 DEF Units
<1>3. IsFiniteSet(Units(n))
    BY UnitsAreFinite
<1>. QED
    BY <1>2, <1>3, FS_Subset DEF Total

LEMMA OneMore ==
    ASSUME NEW S, IsFiniteSet(S), NEW x, x \notin S, NEW m \in [S -> Nat],
           NEW n \in [S \cup {x} -> Nat], \A a \in S : n[a] = m[a]
    PROVE  Total(n) = Total(m) + n[x]
<1> DEFINE own == {x} \X (1 .. n[x])
<1>1. n[x] \in Nat
    OBVIOUS
<1>2. Units(n) = Units(m) \cup own /\ Units(m) \cap own = {}
    BY DEF Units
<1>3. IsFiniteSet(Units(m)) /\ Cardinality(Units(m)) \in Nat
    BY UnitsAreFinite DEF Total
<1>4. IsFiniteSet(own) /\ Cardinality(own) = n[x]
    <2>1. IsFiniteSet({x}) /\ Cardinality({x}) = 1
        BY FS_Singleton
    <2>2. IsFiniteSet(1 .. n[x]) /\ Cardinality(1 .. n[x]) = n[x]
        <3>1. ASSUME NEW k \in Nat
              PROVE  IsFiniteSet(1 .. k) /\ Cardinality(1 .. k) = k
            <4>1. 1 \in Int /\ k \in Int
                OBVIOUS
            <4>2. /\ IsFiniteSet(1 .. k)
                  /\ Cardinality(1 .. k) = IF 1 > k THEN 0 ELSE k - 1 + 1
                BY <4>1, FS_Interval
            <4>3. (IF 1 > k THEN 0 ELSE k - 1 + 1) = k
                OBVIOUS
            <4>. QED
                BY <4>2, <4>3
        <3>. QED
            BY <1>1, <3>1
    <2>3. /\ IsFiniteSet(own)
          /\ Cardinality(own) = Cardinality({x}) * Cardinality(1 .. n[x])
        BY <2>1, <2>2, FS_Product
    <2>. QED
        BY <1>1, <2>1, <2>2, <2>3
<1> HIDE DEF own
<1>5. Cardinality(Units(m) \cap own) = 0
    BY <1>2, FS_EmptySet
<1>6. Cardinality(Units(m) \cup own)
          = Cardinality(Units(m)) + Cardinality(own) - Cardinality(Units(m) \cap own)
    BY <1>3, <1>4, FS_Union
<1>. QED
    BY <1>1, <1>2, <1>3, <1>4, <1>5, <1>6 DEF Total

LEMMA OneChanges ==
    ASSUME NEW S, IsFiniteSet(S), NEW x \in S, NEW m \in [S -> Nat],
           NEW n \in [S -> Nat], \A a \in S \ {x} : n[a] = m[a]
    PROVE  Total(n) + m[x] = Total(m) + n[x]
<1> DEFINE R == S \ {x}
           k == [a \in R |-> m[a]]
<1>1. IsFiniteSet(R) /\ x \notin R /\ S = R \cup {x} /\ k \in [R -> Nat]
    BY FS_RemoveElement
<1>2. \A a \in R : m[a] = k[a] /\ n[a] = k[a]
    OBVIOUS
<1> HIDE DEF R, k
<1>5. m \in [R \cup {x} -> Nat] /\ n \in [R \cup {x} -> Nat]
    BY <1>1
<1>3. Total(m) = Total(k) + m[x] /\ Total(n) = Total(k) + n[x]
    BY <1>1, <1>2, <1>5, OneMore
<1>4. Total(k) \in Nat /\ m[x] \in Nat /\ n[x] \in Nat
    BY <1>1, UnitsAreFinite
<1>. QED
    BY <1>3, <1>4
----------------------------------------------------------------------------
Ledger == [ArtifactIds -> Row \cup {None}]

SlotsAt(r, a) == Slots(r[a].kind, r[a].status)

LEMMA HeldRows ==
    ASSUME NEW r \in Ledger, NEW tasks, NEW a \in Held(r, tasks)
    PROVE  r[a] \in Row /\ r[a].charged \in Nat /\ SlotsAt(r, a) \in Nat
BY DEF Ledger, Held, Row, SlotsAt, Slots

LEMMA UsedNat ==
    ASSUME NEW r \in Ledger, NEW tasks, IsFiniteSet(Held(r, tasks))
    PROVE  UsedSlots(r, tasks) \in Nat /\ UsedBytes(r, tasks) \in Nat
<1>1. /\ [a \in Held(r, tasks) |-> SlotsAt(r, a)] \in [Held(r, tasks) -> Nat]
      /\ [a \in Held(r, tasks) |-> r[a].charged] \in [Held(r, tasks) -> Nat]
    BY HeldRows
<1>. QED
    BY <1>1, UnitsAreFinite DEF UsedSlots, UsedBytes, SlotsAt

LEMMA UsedShrinks ==
    ASSUME NEW r \in Ledger, NEW s \in Ledger, NEW tasks,
           IsFiniteSet(Held(r, tasks)),
           \A a \in Held(s, tasks) : /\ a \in Held(r, tasks)
                                     /\ SlotsAt(s, a) <= SlotsAt(r, a)
                                     /\ s[a].charged <= r[a].charged
    PROVE  /\ UsedSlots(s, tasks) <= UsedSlots(r, tasks)
           /\ UsedBytes(s, tasks) <= UsedBytes(r, tasks)
<1> DEFINE S == Held(s, tasks)
           T == Held(r, tasks)
           m == [a \in S |-> SlotsAt(s, a)]
           n == [a \in T |-> SlotsAt(r, a)]
           k == [a \in S |-> s[a].charged]
           l == [a \in T |-> r[a].charged]
<1>1. /\ m \in [S -> Nat] /\ n \in [T -> Nat] /\ k \in [S -> Nat] /\ l \in [T -> Nat]
    BY HeldRows
<1>2. /\ S \in SUBSET T /\ IsFiniteSet(T)
      /\ \A a \in S : m[a] <= n[a] /\ k[a] <= l[a]
    OBVIOUS
<1>3. /\ Total(m) = UsedSlots(s, tasks) /\ Total(n) = UsedSlots(r, tasks)
      /\ Total(k) = UsedBytes(s, tasks) /\ Total(l) = UsedBytes(r, tasks)
    BY DEF UsedSlots, UsedBytes, SlotsAt
<1> HIDE DEF S, T, m, n, k, l
<1>4. Total(m) <= Total(n) /\ Total(k) <= Total(l)
    BY <1>1, <1>2, TotalGrows
<1>. QED
    BY <1>3, <1>4

LEMMA UsedMore ==
    ASSUME NEW r \in Ledger, NEW s \in Ledger, NEW tasks, NEW x,
           IsFiniteSet(Held(r, tasks)), x \notin Held(r, tasks),
           Held(s, tasks) = Held(r, tasks) \cup {x},
           \A a \in Held(r, tasks) : s[a] = r[a]
    PROVE  /\ UsedSlots(s, tasks) = UsedSlots(r, tasks) + SlotsAt(s, x)
           /\ UsedBytes(s, tasks) = UsedBytes(r, tasks) + s[x].charged
<1> DEFINE S == Held(s, tasks)
           R == Held(r, tasks)
           m == [a \in R |-> SlotsAt(r, a)]
           n == [a \in S |-> SlotsAt(s, a)]
           k == [a \in R |-> r[a].charged]
           l == [a \in S |-> s[a].charged]
<1>1. /\ m \in [R -> Nat] /\ n \in [S -> Nat] /\ k \in [R -> Nat] /\ l \in [S -> Nat]
    BY HeldRows
<1>2. /\ S = R \cup {x} /\ x \notin R /\ IsFiniteSet(R)
      /\ \A a \in R : n[a] = m[a] /\ l[a] = k[a]
      /\ n[x] = SlotsAt(s, x) /\ l[x] = s[x].charged
    BY DEF SlotsAt
<1>3. /\ Total(m) = UsedSlots(r, tasks) /\ Total(n) = UsedSlots(s, tasks)
      /\ Total(k) = UsedBytes(r, tasks) /\ Total(l) = UsedBytes(s, tasks)
    BY DEF UsedSlots, UsedBytes, SlotsAt
<1> HIDE DEF S, R, m, n, k, l
<1>4. Total(n) = Total(m) + n[x] /\ Total(l) = Total(k) + l[x]
    <2>1. /\ m \in [R -> Nat] /\ n \in [R \cup {x} -> Nat]
          /\ k \in [R -> Nat] /\ l \in [R \cup {x} -> Nat]
        BY <1>1, <1>2
    <2>2. /\ x \notin R /\ IsFiniteSet(R)
          /\ \A a \in R : n[a] = m[a] /\ l[a] = k[a]
        BY <1>2
    <2>3. Total(n) = Total(m) + n[x]
        BY <2>1, <2>2, OneMore
    <2>4. Total(l) = Total(k) + l[x]
        BY <2>1, <2>2, OneMore
    <2>. QED
        BY <2>3, <2>4
<1>5. n[x] = SlotsAt(s, x) /\ l[x] = s[x].charged
    BY <1>2
<1>6. UsedSlots(s, tasks) = UsedSlots(r, tasks) + SlotsAt(s, x)
    BY <1>3, <1>4, <1>5
<1>7. UsedBytes(s, tasks) = UsedBytes(r, tasks) + s[x].charged
    BY <1>3, <1>4, <1>5
<1>. QED
    BY <1>6, <1>7

LEMMA UsedChanges ==
    ASSUME NEW r \in Ledger, NEW s \in Ledger, NEW tasks,
           IsFiniteSet(Held(r, tasks)), NEW x \in Held(r, tasks),
           Held(s, tasks) = Held(r, tasks),
           \A a \in Held(r, tasks) \ {x} : s[a] = r[a]
    PROVE  /\ UsedSlots(s, tasks) + SlotsAt(r, x)
                  = UsedSlots(r, tasks) + SlotsAt(s, x)
           /\ UsedBytes(s, tasks) + r[x].charged
                  = UsedBytes(r, tasks) + s[x].charged
<1> DEFINE R == Held(r, tasks)
           m == [a \in R |-> SlotsAt(r, a)]
           n == [a \in R |-> SlotsAt(s, a)]
           k == [a \in R |-> r[a].charged]
           l == [a \in R |-> s[a].charged]
<1>1. /\ m \in [R -> Nat] /\ n \in [R -> Nat] /\ k \in [R -> Nat] /\ l \in [R -> Nat]
    BY HeldRows
<1>2. /\ x \in R /\ IsFiniteSet(R)
      /\ \A a \in R \ {x} : n[a] = m[a] /\ l[a] = k[a]
      /\ n[x] = SlotsAt(s, x) /\ l[x] = s[x].charged
      /\ m[x] = SlotsAt(r, x) /\ k[x] = r[x].charged
    BY DEF SlotsAt
<1>3. /\ Total(m) = UsedSlots(r, tasks) /\ Total(n) = UsedSlots(s, tasks)
      /\ Total(k) = UsedBytes(r, tasks) /\ Total(l) = UsedBytes(s, tasks)
    BY DEF UsedSlots, UsedBytes, SlotsAt
<1> HIDE DEF R, m, n, k, l
<1>4. Total(n) + m[x] = Total(m) + n[x] /\ Total(l) + k[x] = Total(k) + l[x]
    BY <1>1, <1>2, OneChanges
<1>. QED
    BY <1>2, <1>3, <1>4
----------------------------------------------------------------------------
(* A ledger that takes no more of anything stays within the quotas, and    *)
(* one with a row more that was compared with them.                        *)
WithinQuota(r) ==
    /\ \A t \in Tasks : /\ UsedSlots(r, {t}) <= MaxTaskCount
                        /\ UsedBytes(r, {t}) <= MaxTaskBytes
    /\ UsedSlots(r, Tasks) <= MaxOwnerCount
    /\ UsedBytes(r, Tasks) <= MaxOwnerBytes

Eased(r, s, a) ==
    s[a] # None /\ s[a].cleanup # "purged" =>
        /\ r[a] # None /\ r[a].cleanup # "purged"
        /\ s[a].task = r[a].task
        /\ SlotsAt(s, a) <= SlotsAt(r, a)
        /\ s[a].charged <= r[a].charged

RowsOf(r) == {a \in ArtifactIds : r[a] # None}

LEMMA HeldFinite ==
    ASSUME NEW r, IsFiniteSet(RowsOf(r)), NEW tasks
    PROVE  IsFiniteSet(Held(r, tasks))
<1>1. Held(r, tasks) \in SUBSET RowsOf(r)
    BY DEF Held, RowsOf
<1>. QED
    BY <1>1, FS_Subset

LEMMA EasedUses ==
    ASSUME NEW r \in Ledger, NEW s \in Ledger, IsFiniteSet(RowsOf(r)), NEW tasks,
           \A a \in ArtifactIds : s[a] # None /\ s[a].task \in tasks => Eased(r, s, a)
    PROVE  /\ UsedSlots(s, tasks) <= UsedSlots(r, tasks)
           /\ UsedBytes(s, tasks) <= UsedBytes(r, tasks)
<1>1. \A a \in Held(s, tasks) : /\ a \in Held(r, tasks)
                                /\ SlotsAt(s, a) <= SlotsAt(r, a)
                                /\ s[a].charged <= r[a].charged
    BY DEF Held, Eased
<1>. QED
    BY <1>1, HeldFinite, UsedShrinks

LEMMA HeldNat ==
    ASSUME NEW r \in Ledger, IsFiniteSet(RowsOf(r)), NEW tasks
    PROVE  UsedSlots(r, tasks) \in Nat /\ UsedBytes(r, tasks) \in Nat
BY HeldFinite, UsedNat

LEMMA EasedWithin ==
    ASSUME NEW r \in Ledger, NEW s \in Ledger, IsFiniteSet(RowsOf(r)),
           \A a \in ArtifactIds : Eased(r, s, a), WithinQuota(r)
    PROVE  IsFiniteSet(RowsOf(s)) => WithinQuota(s)
<1> SUFFICES ASSUME IsFiniteSet(RowsOf(s)) PROVE WithinQuota(s)
    OBVIOUS
<1>1. ASSUME NEW tasks
      PROVE  /\ UsedSlots(s, tasks) <= UsedSlots(r, tasks)
             /\ UsedBytes(s, tasks) <= UsedBytes(r, tasks)
             /\ UsedSlots(s, tasks) \in Nat /\ UsedSlots(r, tasks) \in Nat
             /\ UsedBytes(s, tasks) \in Nat /\ UsedBytes(r, tasks) \in Nat
    BY EasedUses, HeldNat
<1>2. /\ MaxTaskCount \in Nat /\ MaxTaskBytes \in Nat
      /\ MaxOwnerCount \in Nat /\ MaxOwnerBytes \in Nat
    BY ArtifactsAssumption
<1>3. ASSUME NEW t \in Tasks
      PROVE  UsedSlots(s, {t}) <= MaxTaskCount /\ UsedBytes(s, {t}) <= MaxTaskBytes
    <2>1. UsedSlots(r, {t}) <= MaxTaskCount /\ UsedBytes(r, {t}) <= MaxTaskBytes
        BY DEF WithinQuota
    <2>. QED
        BY <1>1, <1>2, <2>1
<1>4. UsedSlots(s, Tasks) <= MaxOwnerCount /\ UsedBytes(s, Tasks) <= MaxOwnerBytes
    <2>1. UsedSlots(r, Tasks) <= MaxOwnerCount /\ UsedBytes(r, Tasks) <= MaxOwnerBytes
        BY DEF WithinQuota
    <2>. QED
        BY <1>1, <1>2, <2>1
<1>. QED
    BY <1>3, <1>4 DEF WithinQuota

LEMMA MoreWithin ==
    ASSUME NEW r \in Ledger, NEW s \in Ledger, IsFiniteSet(RowsOf(r)),
           NEW x \in ArtifactIds, r[x] = None, s[x] \in Row,
           s[x].cleanup # "purged", \A a \in ArtifactIds \ {x} : s[a] = r[a],
           Fits(r, s[x].task, SlotsAt(s, x), s[x].charged), WithinQuota(r)
    PROVE  WithinQuota(s)
<1>1. ASSUME NEW tasks, s[x].task \in tasks
      PROVE  /\ UsedSlots(s, tasks) = UsedSlots(r, tasks) + SlotsAt(s, x)
             /\ UsedBytes(s, tasks) = UsedBytes(r, tasks) + s[x].charged
    <2>1. x \notin Held(r, tasks) /\ Held(s, tasks) = Held(r, tasks) \cup {x}
        BY <1>1, NoneAssumption DEF Held
    <2>2. \A a \in Held(r, tasks) : s[a] = r[a]
        BY <2>1 DEF Held
    <2>. QED
        BY <2>1, <2>2, HeldFinite, UsedMore
<1>2. s[x].task \in Tasks
    BY DEF Row
<1>3. ASSUME NEW t \in Tasks
      PROVE  UsedSlots(s, {t}) <= MaxTaskCount /\ UsedBytes(s, {t}) <= MaxTaskBytes
    <2>1. CASE t = s[x].task
        BY <1>1, <2>1 DEF Fits
    <2>2. CASE t # s[x].task
        <3>1. Held(s, {t}) = Held(r, {t}) /\ \A a \in Held(r, {t}) : s[a] = r[a]
            BY <2>2 DEF Held
        <3>2. UsedSlots(s, {t}) = UsedSlots(r, {t}) /\ UsedBytes(s, {t}) = UsedBytes(r, {t})
            <4>1. /\ [a \in Held(s, {t}) |-> Slots(s[a].kind, s[a].status)]
                       = [a \in Held(r, {t}) |-> Slots(r[a].kind, r[a].status)]
                  /\ [a \in Held(s, {t}) |-> s[a].charged]
                       = [a \in Held(r, {t}) |-> r[a].charged]
                BY <3>1
            <4>. QED
                BY <4>1 DEF UsedSlots, UsedBytes
        <3>. QED
            BY <3>2 DEF WithinQuota
    <2>. QED
        BY <2>1, <2>2
<1>4. UsedSlots(s, Tasks) <= MaxOwnerCount /\ UsedBytes(s, Tasks) <= MaxOwnerBytes
    BY <1>1, <1>2 DEF Fits
<1>. QED
    BY <1>3, <1>4 DEF WithinQuota
----------------------------------------------------------------------------
ChargesAreExact ==
    \A a \in Rows : row[a].cleanup # "purged" =>
        row[a].charged = Charge(row[a].kind, row[a].status, row[a].size)

QuotaInv == IsFiniteSet(Rows) /\ ChargesAreExact /\ WithinQuota(row)

LEMMA LedgerType ==
    ASSUME TypeOK
    PROVE  row \in Ledger /\ RowsOf(row) = Rows
BY DEF TypeOK, Ledger, RowsOf, Rows

(* Steps that add no row. *)
LEMMA QuotaEases ==
    ASSUME TypeOK, TypeOK', QuotaInv, Rows' \subseteq Rows,
           \A a \in Rows' : row'[a].cleanup # "purged" =>
               /\ Eased(row, row', a)
               /\ row'[a].charged
                      = Charge(row'[a].kind, row'[a].status, row'[a].size)
    PROVE  QuotaInv'
<1>1. row \in Ledger /\ row' \in Ledger /\ RowsOf(row) = Rows /\ RowsOf(row') = Rows'
    BY DEF TypeOK, Ledger, RowsOf, Rows
<1>2. IsFiniteSet(Rows) /\ WithinQuota(row)
    BY DEF QuotaInv
<1>3. IsFiniteSet(Rows')
    BY <1>2, FS_Subset
<1>4. \A a \in ArtifactIds : Eased(row, row', a)
    BY DEF Eased, Rows
<1>5. WithinQuota(row')
    BY <1>1, <1>2, <1>3, <1>4, EasedWithin
<1>6. WithinQuota(row)'
    BY <1>5 DEF WithinQuota, UsedSlots, UsedBytes, Held
<1>7. ChargesAreExact'
    BY DEF ChargesAreExact
<1>. QED
    BY <1>3, <1>6, <1>7 DEF QuotaInv

(* Steps that add a row x, to a ledger that is eased first. *)
LEMMA QuotaAdds ==
    ASSUME TypeOK, TypeOK', QuotaInv, NEW f \in Ledger, NEW x \in ArtifactIds,
           RowsOf(f) \subseteq Rows, f[x] = None, row'[x] \in Row,
           row'[x].cleanup # "purged",
           row'[x].charged = Charge(row'[x].kind, row'[x].status, row'[x].size),
           \A a \in ArtifactIds \ {x} : row'[a] = f[a],
           \A a \in RowsOf(f) : f[a].cleanup # "purged" =>
               /\ Eased(row, f, a)
               /\ f[a].charged = Charge(f[a].kind, f[a].status, f[a].size),
           Fits(f, row'[x].task, SlotsAt(row', x), row'[x].charged)
    PROVE  QuotaInv'
<1>1. row \in Ledger /\ row' \in Ledger /\ RowsOf(row) = Rows /\ RowsOf(row') = Rows'
    BY DEF TypeOK, Ledger, RowsOf, Rows
<1>2. IsFiniteSet(Rows) /\ WithinQuota(row)
    BY DEF QuotaInv
<1>3. IsFiniteSet(RowsOf(f))
    BY <1>2, FS_Subset
<1>4. IsFiniteSet(Rows')
    <2>1. Rows' \in SUBSET (RowsOf(f) \cup {x})
        BY <1>1 DEF RowsOf
    <2>. QED
        BY <1>3, <2>1, FS_AddElement, FS_Subset
<1>5. \A a \in ArtifactIds : Eased(row, f, a)
    BY DEF Eased, RowsOf
<1>6. WithinQuota(f)
    BY <1>1, <1>2, <1>3, <1>5, EasedWithin
<1>7. WithinQuota(row')
    BY <1>1, <1>3, <1>6, MoreWithin
<1>8. WithinQuota(row)'
    BY <1>7 DEF WithinQuota, UsedSlots, UsedBytes, Held
<1>9. ChargesAreExact'
    BY <1>1 DEF ChargesAreExact, RowsOf
<1>. QED
    BY <1>4, <1>8, <1>9 DEF QuotaInv

LEMMA SameEased ==
    ASSUME NEW r \in Ledger, NEW s, NEW a \in ArtifactIds, s[a] = r[a]
    PROVE  Eased(r, s, a)
<1> SUFFICES ASSUME r[a] # None, r[a].cleanup # "purged"
             PROVE  SlotsAt(s, a) <= SlotsAt(r, a) /\ s[a].charged <= r[a].charged
    BY DEF Eased
<1>1. r[a].charged \in Nat /\ SlotsAt(r, a) \in Nat /\ SlotsAt(s, a) = SlotsAt(r, a)
    BY DEF Ledger, Row, SlotsAt, Slots
<1>. QED
    BY <1>1

LEMMA ReserveQuota ==
    ASSUME TypeOK, TypeOK', QuotaInv, NEW a \in ArtifactIds, NEW d \in Declared,
           Reserve(a, d)
    PROVE  QuotaInv'
<1> DEFINE r == [task |-> d.task, kind |-> d.kind, purpose |-> d.purpose,
                 size |-> d.size, status |-> "reserved", scan |-> "pending",
                 cleanup |-> "active", expires |-> clock + PendingDays,
                 charged |-> Charge(d.kind, "reserved", d.size)]
<1>1. r \in Row
    BY ReservedRow
<1>2. row' = [row EXCEPT ![a] = r] /\ a \notin Rows
    BY DEF Reserve, Fresh
<1>3. Fits(row, d.task, Slots(d.kind, "reserved"), Charge(d.kind, "reserved", d.size))
    BY DEF Reserve
<1>4. /\ r.task = d.task /\ r.cleanup = "active" /\ r.kind = d.kind
      /\ r.charged = Charge(r.kind, r.status, r.size) /\ r.status = "reserved"
      /\ r.charged = Charge(d.kind, "reserved", d.size)
    OBVIOUS
<1> HIDE DEF r
<1>5. row'[a] = r /\ \A b \in ArtifactIds \ {a} : row'[b] = row[b]
    BY <1>2 DEF TypeOK
<1>6. row \in Ledger /\ RowsOf(row) = Rows /\ row[a] = None
    BY <1>2, LedgerType DEF Rows
<1>7. \A b \in Rows : row[b].cleanup # "purged" =>
          /\ Eased(row, row, b)
          /\ row[b].charged = Charge(row[b].kind, row[b].status, row[b].size)
    BY <1>6, SameEased DEF QuotaInv, ChargesAreExact, Rows
<1>8. Fits(row, row'[a].task, SlotsAt(row', a), row'[a].charged)
    BY <1>3, <1>4, <1>5 DEF SlotsAt
<1>. QED
    BY <1>1, <1>4, <1>5, <1>6, <1>7, <1>8, QuotaAdds

(* What Finalized takes less: a slot and the size, unless it is binary.    *)
LEMMA FinalizedEases ==
    ASSUME TypeOK, QuotaInv, NEW a \in Rows, row[a].cleanup = "active",
           row[a].status # "finalized", NEW scan \in Scans
    PROVE  LET f == Finalized(a, scan)
           IN  /\ f \in Ledger /\ RowsOf(f) = Rows
               /\ \A b \in RowsOf(f) : f[b].cleanup # "purged" =>
                     /\ Eased(row, f, b)
                     /\ f[b].charged = Charge(f[b].kind, f[b].status, f[b].size)
<1> DEFINE f == Finalized(a, scan)
<1>1. /\ f \in Ledger /\ f[a] \in Row
      /\ f[a].task = row[a].task /\ f[a].kind = row[a].kind
      /\ f[a].cleanup = row[a].cleanup /\ f[a].size = row[a].size
      /\ f[a].charged = row[a].size /\ f[a].status = "finalized"
      /\ \A b \in ArtifactIds \ {a} : f[b] = row[b]
    BY FinalizedRow DEF Ledger
<1> HIDE DEF f
<1>2. row \in Ledger /\ row[a] \in Row /\ a \in ArtifactIds /\ row[a] # None
    BY LedgerType, RowIsRecord DEF Rows
<1>3. RowsOf(f) = Rows
    BY <1>1, <1>2, NoneAssumption DEF RowsOf, Rows
<1>4. row[a].charged = Charge(row[a].kind, row[a].status, row[a].size)
    BY DEF QuotaInv, ChargesAreExact
<1>5. Eased(row, f, a)
    <2>1. SlotsAt(f, a) = 1 /\ SlotsAt(row, a) \in {1, 2}
        BY <1>1 DEF SlotsAt, Slots, Twice
    <2>2. row[a].size \in Nat
        BY <1>2 DEF Row
    <2>3. f[a].charged <= row[a].charged
        BY <1>1, <1>4, <2>2 DEF Charge
    <2>. QED
        BY <1>1, <1>2, <2>1, <2>3 DEF Eased
<1>6. f[a].charged = Charge(f[a].kind, f[a].status, f[a].size)
    BY <1>1 DEF Charge, Twice
<1>7. ASSUME NEW b \in RowsOf(f), f[b].cleanup # "purged", b # a
      PROVE  /\ Eased(row, f, b)
             /\ f[b].charged = Charge(f[b].kind, f[b].status, f[b].size)
    <2>1. b \in ArtifactIds /\ f[b] = row[b] /\ b \in Rows
        BY <1>1, <1>3, <1>7 DEF RowsOf
    <2>. QED
        BY <1>2, <1>7, <2>1, SameEased DEF QuotaInv, ChargesAreExact
<1>. QED
    BY <1>1, <1>3, <1>5, <1>6, <1>7 DEF f

LEMMA CommitFinalizeQuota ==
    ASSUME TypeOK, TypeOK', TxnOwnsFiles, QuotaInv, CommitFinalize
    PROVE  QuotaInv'
<1>1. PICK a \in Rows : /\ a = txn.id /\ Awaits(a, "uploaded")
                        /\ txn.scan \in Scans /\ txn.copy \in ArtifactIds \cup {None}
    BY DEF CommitFinalize, FinalizeTxn, TxnOwnsFiles, Awaits
<1>2. row[a].cleanup = "active" /\ row[a].status = "uploaded" /\ row[a] \in Row
    BY <1>1, RowIsRecord DEF Awaits
<1> DEFINE f == Finalized(a, txn.scan)
<1>3. /\ f \in Ledger /\ RowsOf(f) = Rows
      /\ \A b \in RowsOf(f) : f[b].cleanup # "purged" =>
            /\ Eased(row, f, b)
            /\ f[b].charged = Charge(f[b].kind, f[b].status, f[b].size)
    BY <1>1, <1>2, FinalizedEases
<1>4. CASE txn.copy = None
    <2>1. row' = f
        BY <1>1, <1>4 DEF CommitFinalize
    <2> HIDE DEF f
    <2>2. RowsOf(f) = Rows'
        BY <2>1 DEF RowsOf, Rows
    <2>3. \A b : Eased(row, f, b) => Eased(row, row', b)
        BY <2>1
    <2>. QED
        BY <1>3, <2>1, <2>2, <2>3, QuotaEases
<1>5. CASE txn.copy # None
    <2>1. PICK x \in ArtifactIds : x = txn.copy /\ x \notin Rows
        BY <1>1, <1>5 DEF CommitFinalize, TxnOwnsFiles
    <2>2. txn.scan = "secret_detected"
        BY <1>5 DEF CommitFinalize, TxnOwnsFiles
    <2>3. Fits(f, row[a].task, Slots(row[a].kind, "finalized"), row[a].size)
        BY <1>1, <1>5, <2>2 DEF CommitFinalize, CopyFits
    <2>4. row' = [f EXCEPT ![x] = CopyOf(a)]
        BY <1>1, <1>5, <2>1 DEF CommitFinalize
    <2> HIDE DEF f
    <2>5. PICK c : c = CopyOf(a)
        OBVIOUS
    <2>6. /\ c \in Row /\ c.kind = "clear" /\ c.status = "finalized"
          /\ c.cleanup = "active" /\ c.task = row[a].task
          /\ c.charged = row[a].size /\ c.size = row[a].size
        <3>1. clock + AvailableDays \in Nat
            BY ArtifactsAssumption DEF TypeOK
        <3>. QED
            BY <1>2, <2>5, <3>1, CopyRow DEF CopyOf, Row
    <2>7. /\ row'[x] = c /\ f[x] = None
          /\ \A b \in ArtifactIds \ {x} : row'[b] = f[b]
        BY <1>3, <2>1, <2>4, <2>5 DEF Ledger, RowsOf
    <2>8. c.charged = Charge(c.kind, c.status, c.size)
        BY <2>6 DEF Charge, Twice
    <2>9. Fits(f, row'[x].task, SlotsAt(row', x), row'[x].charged)
        <3>1. SlotsAt(row', x) = Slots(row[a].kind, "finalized")
            BY <2>6, <2>7 DEF SlotsAt, Slots, Twice
        <3>. QED
            BY <2>3, <2>6, <2>7, <3>1
    <2>10. row'[x] \in Row /\ row'[x].cleanup # "purged"
           /\ row'[x].charged = Charge(row'[x].kind, row'[x].status, row'[x].size)
        BY <2>6, <2>7, <2>8
    <2>. QED
        BY <1>3, <2>7, <2>9, <2>10, QuotaAdds
<1>. QED
    BY <1>4, <1>5

LEMMA SameQuota ==
    ASSUME TypeOK, TypeOK', QuotaInv, UNCHANGED row
    PROVE  QuotaInv'
BY DEF QuotaInv, Rows, ChargesAreExact, WithinQuota, UsedSlots, UsedBytes, Held

LEMMA CommitUploadQuota ==
    ASSUME TypeOK, TypeOK', TxnOwnsFiles, QuotaInv, CommitUpload
    PROVE  QuotaInv'
<1>1. PICK a \in Rows : /\ a = txn.id /\ Awaits(a, "reserved")
                        /\ row' = [row EXCEPT ![a].status = "uploaded"]
    BY DEF CommitUpload, TxnOwnsFiles, UploadTxn, Awaits
<1>2. PICK was : was = row[a]
    OBVIOUS
<1>3. PICK new : new = [was EXCEPT !.status = "uploaded"]
    OBVIOUS
<1>4. /\ was \in Row /\ was.status = "reserved" /\ was.cleanup = "active"
    BY <1>1, <1>2, RowIsRecord DEF Awaits
<1>5. /\ new \in Row /\ new.status = "uploaded" /\ new.kind = was.kind
      /\ new.size = was.size /\ new.charged = was.charged
      /\ new.task = was.task
    BY <1>3, <1>4 DEF Row
<1>6. row \in Ledger /\ row[a] # None /\ a \in ArtifactIds
    BY LedgerType DEF Rows
<1>7. row'[a] = new /\ \A b \in ArtifactIds \ {a} : row'[b] = row[b]
    BY <1>1, <1>2, <1>3, <1>6 DEF Ledger
<1>8. Rows' \subseteq Rows
    BY <1>7, <1>6 DEF Rows
<1>9. ASSUME NEW b \in Rows', row'[b].cleanup # "purged"
      PROVE  /\ Eased(row, row', b)
             /\ row'[b].charged = Charge(row'[b].kind, row'[b].status, row'[b].size)
    <2>1. CASE b = a
        <3>1. SlotsAt(row', a) = SlotsAt(row, a) /\ SlotsAt(row, a) \in Nat
            BY <1>2, <1>4, <1>5, <1>7 DEF SlotsAt, Slots, Twice
        <3>2. new.charged <= was.charged
            BY <1>4, <1>5 DEF Row
        <3>3. Eased(row, row', a)
            BY <1>2, <1>4, <1>5, <1>6, <1>7, <3>1, <3>2 DEF Eased
        <3>4. was.charged = Charge(was.kind, was.status, was.size)
            BY <1>2, <1>4 DEF QuotaInv, ChargesAreExact
        <3>5. new.charged = Charge(new.kind, new.status, new.size)
            BY <1>4, <1>5, <3>4 DEF Charge, Twice
        <3>. QED
            BY <1>7, <2>1, <3>3, <3>5
    <2>2. CASE b # a
        <3>1. b \in ArtifactIds /\ row'[b] = row[b] /\ b \in Rows
            BY <1>7, <1>8, <2>2 DEF Rows
        <3>. QED
            BY <1>6, <1>9, <3>1, SameEased DEF QuotaInv, ChargesAreExact
    <2>. QED
        BY <2>1, <2>2
<1>. QED
    BY <1>8, <1>9, QuotaEases

LEMMA RequestExpiredQuota ==
    ASSUME TypeOK, TypeOK', QuotaInv, NEW batch \in SUBSET Expired,
           RequestExpired(batch)
    PROVE  QuotaInv'
<1>1. row \in Ledger /\ Rows' = Rows
    BY LedgerType, RequestExpiredRows
<1>2. ASSUME NEW b \in Rows', row'[b].cleanup # "purged"
      PROVE  /\ Eased(row, row', b)
             /\ row'[b].charged = Charge(row'[b].kind, row'[b].status, row'[b].size)
    <2>1. b \in Rows /\ b \in ArtifactIds /\ row[b] # None
        BY <1>1 DEF Rows
    <2>2. CASE b \in batch
        <3>1. PICK was : was = row[b]
            OBVIOUS
        <3>2. PICK new : new = [was EXCEPT !.cleanup = "pending"]
            OBVIOUS
        <3>3. row'[b] = new
            BY <2>1, <2>2, <3>1, <3>2 DEF RequestExpired
        <3>4. was \in Row /\ was.cleanup = "active"
            BY <2>1, <2>2, <3>1, RowIsRecord DEF Expired
        <3>5. /\ new.kind = was.kind /\ new.status = was.status
              /\ new.size = was.size /\ new.task = was.task
              /\ new.charged = was.charged /\ was.charged \in Nat
            BY <3>2, <3>4 DEF Row
        <3>6. SlotsAt(row', b) = SlotsAt(row, b) /\ SlotsAt(row, b) \in Nat
            BY <3>1, <3>3, <3>5 DEF SlotsAt, Slots
        <3>7. was.charged = Charge(was.kind, was.status, was.size)
            BY <2>1, <3>1, <3>4 DEF QuotaInv, ChargesAreExact
        <3>. QED
            BY <2>1, <3>1, <3>3, <3>4, <3>5, <3>6, <3>7 DEF Eased
    <2>3. CASE b \notin batch
        <3>1. row'[b] = row[b]
            BY <2>1, <2>3, RequestExpiredRows
        <3>. QED
            BY <1>1, <1>2, <2>1, <3>1, SameEased DEF QuotaInv, ChargesAreExact
    <2>. QED
        BY <2>2, <2>3
<1>. QED
    BY <1>1, <1>2, QuotaEases

LEMMA MarkQuota ==
    ASSUME TypeOK, TypeOK', QuotaInv, NEW w \in Workers, Mark(w)
    PROVE  QuotaInv'
<1>1. row \in Ledger /\ Rows' = Rows
    BY LedgerType, MarkRows
<1>2. CASE job[w].mark \notin Pending
    BY <1>2, SameQuota DEF Mark
<1>3. CASE job[w].mark \in Pending
    <2>1. PICK a \in Rows : a = job[w].mark /\ row[a] \in Row
        BY <1>3, RowIsRecord DEF Pending
    <2>2. PICK new : new = [row[a] EXCEPT !.cleanup = "purged", !.charged = 0]
        OBVIOUS
    <2>3. new.cleanup = "purged"
        BY <2>1, <2>2 DEF Row
    <2>4. row' = [row EXCEPT ![a] = new]
        BY <1>3, <2>1, <2>2 DEF Mark
    <2>5. ASSUME NEW b \in Rows', row'[b].cleanup # "purged"
          PROVE  /\ Eased(row, row', b)
                 /\ row'[b].charged
                        = Charge(row'[b].kind, row'[b].status, row'[b].size)
        <3>1. b \in ArtifactIds /\ b \in Rows /\ row'[b] = row[b]
            BY <1>1, <2>3, <2>4, <2>5 DEF Rows, Ledger
        <3>. QED
            BY <1>1, <2>5, <3>1, SameEased DEF QuotaInv, ChargesAreExact
    <2>. QED
        BY <1>1, <2>5, QuotaEases
<1>. QED
    BY <1>2, <1>3

LEMMA QuotaStep ==
    ASSUME Inv, Inv', QuotaInv, [Next]_vars
    PROVE  QuotaInv'
<1>1. TypeOK /\ TypeOK' /\ TxnOwnsFiles
    BY DEF Inv, FilesInv
<1>2. ASSUME NEW a \in ArtifactIds, NEW d \in Declared, Reserve(a, d)
      PROVE  QuotaInv'
    BY <1>1, <1>2, ReserveQuota
<1>3. CASE CommitUpload
    BY <1>1, <1>3, CommitUploadQuota
<1>4. CASE CommitFinalize
    BY <1>1, <1>4, CommitFinalizeQuota
<1>5. ASSUME NEW batch \in SUBSET Expired, RequestExpired(batch)
      PROVE  QuotaInv'
    BY <1>1, <1>5, RequestExpiredQuota
<1>6. ASSUME NEW w \in Workers, Mark(w)
      PROVE  QuotaInv'
    BY <1>1, <1>6, MarkQuota
<1>7. CASE UNCHANGED row
    BY <1>1, <1>7, SameQuota
<1>8. UNCHANGED vars => UNCHANGED row
    BY DEF vars, artifactVars
<1>. QED
    BY <1>2, <1>3, <1>4, <1>5, <1>6, <1>7, <1>8
    DEF Next, ArtifactNext, PlaceUpload, PlaceFinalized, Fail, MoveBack, Die,
        ReadPending, Unlink, Abandon, Tick, ReserveEvidence, FinalizeEvidence,
        artifactVars

LEMMA InitQuota ==
    ASSUME Init
    PROVE  QuotaInv
<1>1. \A a \in ArtifactIds : row[a] = None
    BY DEF Init, ArtifactInit
<1>2. Rows = {}
    BY <1>1 DEF Rows
<1>3. ASSUME NEW tasks
      PROVE  UsedSlots(row, tasks) = 0 /\ UsedBytes(row, tasks) = 0
    <2>1. Held(row, tasks) = {}
        BY <1>1 DEF Held
    <2>2. /\ Units([a \in Held(row, tasks) |-> Slots(row[a].kind, row[a].status)]) = {}
          /\ Units([a \in Held(row, tasks) |-> row[a].charged]) = {}
        BY <2>1 DEF Units
    <2>. QED
        BY <2>2, FS_EmptySet DEF UsedSlots, UsedBytes, Total
<1>4. /\ MaxTaskCount \in Nat /\ MaxTaskBytes \in Nat
      /\ MaxOwnerCount \in Nat /\ MaxOwnerBytes \in Nat
    BY ArtifactsAssumption
<1>5. WithinQuota(row)
    BY <1>3, <1>4 DEF WithinQuota
<1>. QED
    BY <1>2, <1>5, FS_EmptySet DEF QuotaInv, ChargesAreExact

(* An uploaded text has reserved for its copy what Finalized gives back.   *)
LEMMA ReservedForCopy ==
    ASSUME TypeOK, QuotaInv, NEW a \in ArtifactIds, Awaits(a, "uploaded"),
           row[a].kind # "binary"
    PROVE  CopyFits(a)
<1> DEFINE f == Finalized(a, "secret_detected")
<1>1. /\ a \in Rows /\ row[a] \in Row
      /\ row[a].cleanup = "active" /\ row[a].status = "uploaded"
    BY RowIsRecord DEF Awaits
<1>2. /\ f \in Ledger /\ f[a] \in Row
      /\ f[a].task = row[a].task /\ f[a].kind = row[a].kind
      /\ f[a].cleanup = row[a].cleanup
      /\ f[a].charged = row[a].size /\ f[a].status = "finalized"
      /\ \A b \in ArtifactIds \ {a} : f[b] = row[b]
    <2>1. "secret_detected" \in Scans
        BY DEF Scans
    <2>. QED
        BY <1>1, <2>1, FinalizedRow DEF Ledger
<1>3. row \in Ledger /\ RowsOf(row) = Rows /\ row[a] # None
      /\ IsFiniteSet(Rows) /\ WithinQuota(row)
    BY <1>1, LedgerType DEF QuotaInv, Rows
<1> HIDE DEF f
<1>4. /\ SlotsAt(row, a) = 2 /\ SlotsAt(f, a) = 1
      /\ Slots(row[a].kind, "finalized") = 1
    BY <1>1, <1>2 DEF SlotsAt, Slots, Twice
<1>5. row[a].size \in Nat /\ row[a].charged = 2 * row[a].size
    <2>1. row[a].charged = Charge(row[a].kind, row[a].status, row[a].size)
        BY <1>1 DEF QuotaInv, ChargesAreExact
    <2>. QED
        BY <1>1, <2>1 DEF Row, Charge, Twice
<1>6. ASSUME NEW tasks, row[a].task \in tasks
      PROVE  /\ UsedSlots(f, tasks) + 1 = UsedSlots(row, tasks)
             /\ UsedBytes(f, tasks) + row[a].size = UsedBytes(row, tasks)
    <2>1. Held(f, tasks) = Held(row, tasks) /\ a \in Held(row, tasks)
        BY <1>1, <1>2, <1>3, <1>6, NoneAssumption DEF Held
    <2>2. \A b \in Held(row, tasks) \ {a} : f[b] = row[b]
        BY <1>2 DEF Held
    <2>3. IsFiniteSet(Held(row, tasks)) /\ IsFiniteSet(Held(f, tasks))
        BY <1>3, <2>1, HeldFinite
    <2>4. /\ UsedSlots(f, tasks) + SlotsAt(row, a) = UsedSlots(row, tasks) + SlotsAt(f, a)
          /\ UsedBytes(f, tasks) + row[a].charged = UsedBytes(row, tasks) + f[a].charged
        BY <1>2, <1>3, <2>1, <2>2, <2>3, UsedChanges
    <2>5. /\ UsedSlots(f, tasks) \in Nat /\ UsedSlots(row, tasks) \in Nat
          /\ UsedBytes(f, tasks) \in Nat /\ UsedBytes(row, tasks) \in Nat
        BY <1>2, <1>3, <2>3, UsedNat
    <2>. QED
        BY <1>2, <1>4, <1>5, <2>4, <2>5
<1>7. row[a].task \in Tasks
    BY <1>1 DEF Row
<1>8. Fits(f, row[a].task, 1, row[a].size)
    <2>1. /\ UsedSlots(f, {row[a].task}) + 1 <= MaxTaskCount
          /\ UsedBytes(f, {row[a].task}) + row[a].size <= MaxTaskBytes
        BY <1>3, <1>6, <1>7 DEF WithinQuota
    <2>2. /\ UsedSlots(f, Tasks) + 1 <= MaxOwnerCount
          /\ UsedBytes(f, Tasks) + row[a].size <= MaxOwnerBytes
        BY <1>3, <1>6, <1>7 DEF WithinQuota
    <2>. QED
        BY <2>1, <2>2 DEF Fits
<1>. QED
    BY <1>4, <1>8 DEF CopyFits, f

LEMMA QuotaInvHolds == Spec => []QuotaInv
<1>1. Init => QuotaInv
    BY InitQuota
<1>2. Inv /\ Inv' /\ QuotaInv /\ [Next]_vars => QuotaInv'
    BY QuotaStep
<1>. QED
    BY <1>1, <1>2, InvHolds, PTL DEF Spec

(* Whatever is reserved, uploaded, finalized, copied and purged, what a    *)
(* Task and an Owner hold stays within the quotas that reserve and the     *)
(* insert trigger compare.                                                 *)
THEOREM QuotaAlwaysHolds == Spec => []QuotaHolds
<1>1. QuotaInv => QuotaHolds
    BY DEF QuotaInv, WithinQuota, QuotaHolds
<1>. QED
    BY <1>1, QuotaInvHolds, PTL

(* finalize never fails for want of quota for the redacted copy.           *)
THEOREM CopyNeverRefused == Spec => []CopyAlwaysFits
<1>1. TypeOK /\ QuotaInv => CopyAlwaysFits
    BY ReservedForCopy DEF CopyAlwaysFits
<1>. QED
    BY <1>1, QuotaInvHolds, TypeCorrect, PTL
=============================================================================
