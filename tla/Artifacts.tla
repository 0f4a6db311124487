----------------------------- MODULE Artifacts ------------------------------
(***************************************************************************)
(* Artifacts: reservation under a quota, upload, scan and publication, and *)
(* the cleanup of expired Bodies.  An Artifact is a row in three tables    *)
(* (uploads, security, lifecycle) and a Body file that is moved between    *)
(* two directories.  SQLite serializes the transactions, but the files are *)
(* not part of them: a Body moves before the COMMIT, and a failure moves   *)
(* it back after the rollback, when the write lock is free again.          *)
(*                                                                         *)
(* A call whose actor may not write the Task, whose content differs from   *)
(* the reservation or whose key was answered before changes no row here.   *)
(* The files of .staging, which no row names, the idempotency rows and the *)
(* audits are left out.                                                    *)
(***************************************************************************)
EXTENDS Integers, FiniteSets

CONSTANTS
    ArtifactIds,     \* identifiers, those of redacted copies included
    Tasks,           \* the Tasks of one Owner
    Declared,        \* what a reservation may declare
    Workers,         \* cleanup runs at work at once
    Limit,           \* rows a cleanup run takes
    MaxTaskCount, MaxTaskBytes, MaxOwnerCount, MaxOwnerBytes,
    PendingDays, QuarantineDays, AvailableDays,
    MaxTime,         \* bound: the clock stops here
    None             \* NULL, no file, no transaction

Purposes == {"test_stdout", "test_stderr", "git_diff", "result", "other"}

(* "binary" is what the scanner does not support; the text kinds differ in *)
(* holding a registered secret.                                            *)
Kinds == {"binary", "clear", "secret"}

ASSUME ArtifactsAssumption ==
    /\ Declared \subseteq [task : Tasks, kind : Kinds, purpose : Purposes,
                           size : Nat]
    /\ {Limit, MaxTaskCount, MaxTaskBytes, MaxOwnerCount, MaxOwnerBytes}
           \subseteq Nat
    /\ {PendingDays, QuarantineDays, AvailableDays} \subseteq Nat \ {0}
    /\ MaxTime \in Nat
    /\ None \notin ArtifactIds

Scans == {"pending", "clean", "secret_detected", "unsupported",
          "scan_failed", "redacted"}

(* The three tables' columns that decide something.                        *)
Row == [task : Tasks, kind : Kinds, purpose : Purposes, size : Nat,
        status : {"reserved", "uploaded", "finalized"}, scan : Scans,
        cleanup : {"active", "pending", "purged"}, expires : Nat,
        charged : Nat]

ASSUME NoneAssumption == None \notin Row

(* A transaction that has touched a file and not yet committed.            *)
UploadTxn == [op : {"upload"}, id : ArtifactIds, created : BOOLEAN]
FinalizeTxn == [op : {"finalize"}, id : ArtifactIds, scan : Scans \ {"pending", "redacted"},
                copy : ArtifactIds \cup {None}]

ASSUME NoTxnAssumption == None \notin UploadTxn \cup FinalizeTxn

Places == {"quarantine", "available"}

(* A row a cleanup run has read, with the directory its Body was in then.  *)
Found == [id : ArtifactIds, place : Places]

VARIABLES
    clock,       \* days
    row,         \* row[a]: the Artifact's row, or None
    quarantine,  \* Artifacts with a file in quarantine/
    available,   \* Artifacts with a file in available/
    txn,         \* the write transaction that holds SQLite's lock, or None
    undo,        \* rolled back transactions whose files are still to move back
    job,         \* job[w]: the rows a cleanup run still has to purge,
                 \* and the one whose file is gone and that is to be marked
    links        \* tas_evidence_submission_artifacts: the linked Artifacts

artifactVars == <<clock, row, quarantine, available, txn, undo, job, links>>

Idle == [found |-> {}, mark |-> None]

Rows == {a \in ArtifactIds : row[a] # None}

(* The scan decides where a Body belongs: tas_artifact_security's CHECK.   *)
Place(r) == IF r.scan \in {"clean", "redacted"} THEN "available" ELSE "quarantine"

(* Mutant: a sealed Artifact is still served. *)
ServableMutant(a) == /\ a \in Rows
                     /\ row[a].status = "finalized"
                     /\ Place(row[a]) = "available"

(* What is served to readers and may be linked to Evidence.                *)
Servable(a) == /\ a \in Rows
               /\ row[a].status = "finalized"
               /\ row[a].cleanup = "active"
               /\ Place(row[a]) = "available"
----------------------------------------------------------------------------
(* Quotas.  A text that is not finalized may still produce a redacted copy *)
(* of its size, and reserves it.                                           *)
TwiceMutant(kind, status) == FALSE  \* mutant: the copy is not reserved
Twice(kind, status) == kind # "binary" /\ status # "finalized"
Slots(kind, status) == IF Twice(kind, status) THEN 2 ELSE 1
Charge(kind, status, size) == IF Twice(kind, status) THEN 2 * size ELSE size

Held(r, tasks) ==
    {a \in ArtifactIds : r[a] # None /\ r[a].task \in tasks /\ r[a].cleanup # "purged"}

(* SUM: how many units there are, n[a] of each a.                          *)
Units(n) == UNION {{a} \X (1 .. n[a]) : a \in DOMAIN n}
Total(n) == Cardinality(Units(n))

UsedSlots(r, tasks) ==
    Total([a \in Held(r, tasks) |-> Slots(r[a].kind, r[a].status)])

UsedBytes(r, tasks) == Total([a \in Held(r, tasks) |-> r[a].charged])

(* Mutant: the quota is compared before the row is added. *)
FitsMutant(r, task, slots, bytes) ==
    /\ UsedSlots(r, {task}) < MaxTaskCount
    /\ UsedBytes(r, {task}) < MaxTaskBytes
    /\ UsedSlots(r, Tasks) < MaxOwnerCount
    /\ UsedBytes(r, Tasks) < MaxOwnerBytes

(* The check of reserve and of the insert trigger, for one more row.       *)
Fits(r, task, slots, bytes) ==
    /\ UsedSlots(r, {task}) + slots <= MaxTaskCount
    /\ UsedBytes(r, {task}) + bytes <= MaxTaskBytes
    /\ UsedSlots(r, Tasks) + slots <= MaxOwnerCount
    /\ UsedBytes(r, Tasks) + bytes <= MaxOwnerBytes
----------------------------------------------------------------------------
ArtifactInit ==
    /\ clock = 0
    /\ row = [a \in ArtifactIds |-> None]
    /\ quarantine = {} /\ available = {}
    /\ txn = None
    /\ undo = {}
    /\ job = [w \in Workers |-> Idle]
    /\ links = {}

(* A new identifier: no row, no file and no call in progress has it.       *)
Copies == {u.copy : u \in {v \in undo \cup {txn} : v \in FinalizeTxn}}
Fresh(a) == a \notin Rows \cup quarantine \cup available \cup Copies

Reserve(a, d) ==
    LET slots == Slots(d.kind, "reserved")
        bytes == Charge(d.kind, "reserved", d.size)
    IN  /\ txn = None
        /\ Fresh(a)
        /\ Fits(row, d.task, slots, bytes)
        /\ row' = [row EXCEPT ![a] =
               [task |-> d.task, kind |-> d.kind, purpose |-> d.purpose,
                size |-> d.size, status |-> "reserved", scan |-> "pending",
                cleanup |-> "active", expires |-> clock + PendingDays,
                charged |-> bytes]]
        /\ UNCHANGED <<clock, quarantine, available, txn, undo, job, links>>

Awaits(a, status) == /\ a \in Rows
                     /\ row[a].cleanup = "active"
                     /\ row[a].status = status

(* A Body that an interrupted upload left behind is taken as it is.        *)
PlaceUpload(a) ==
    /\ txn = None
    /\ Awaits(a, "reserved")
    /\ quarantine' = quarantine \cup {a}
    /\ txn' = [op |-> "upload", id |-> a, created |-> a \notin quarantine]
    /\ UNCHANGED <<clock, row, available, undo, job, links>>

CommitUpload ==
    /\ txn \in UploadTxn
    /\ row' = [row EXCEPT ![txn.id].status = "uploaded"]
    /\ txn' = None
    /\ UNCHANGED <<clock, quarantine, available, undo, job, links>>

(* Mutant: a scanner that fails has found nothing. *)
VerdictsMutant(kind) ==
    {"clean",
     CASE kind = "binary" -> "unsupported"
       [] kind = "clear"  -> "clean"
       [] kind = "secret" -> "secret_detected"}

(* What the scanner finds; it may also fail.                               *)
Verdicts(kind) ==
    {"scan_failed",
     CASE kind = "binary" -> "unsupported"
       [] kind = "clear"  -> "clean"
       [] kind = "secret" -> "secret_detected"}

(* Of a Body found in quarantine: a clean one is published, of a secret    *)
(* one a redacted copy is written.                                         *)
PlaceFinalized(a, scan, copy) ==
    /\ txn = None
    /\ Awaits(a, "uploaded")
    /\ a \in quarantine
    /\ scan \in Verdicts(row[a].kind)
    /\ IF scan = "secret_detected" THEN copy \in ArtifactIds /\ Fresh(copy) ELSE copy = None
    /\ quarantine' = IF scan = "clean" THEN quarantine \ {a} ELSE quarantine
    /\ available' = available \cup (IF scan = "clean" THEN {a} ELSE {copy} \ {None})
    /\ txn' = [op |-> "finalize", id |-> a, scan |-> scan, copy |-> copy]
    /\ UNCHANGED <<clock, row, undo, job, links>>

(* Mutant: the surplus is computed the wrong way round. *)
FinalizedMutant(a, scan) ==
    [row EXCEPT ![a].status = "finalized", ![a].scan = scan,
                ![a].expires = clock + IF scan = "clean" THEN AvailableDays
                                                         ELSE QuarantineDays,
                ![a].charged = row[a].size - row[a].charged]

(* The source's row in its final form; its charge is given back first, and *)
(* the copy's row then passes the insert trigger.                          *)
Finalized(a, scan) ==
    [row EXCEPT ![a].status = "finalized", ![a].scan = scan,
                ![a].expires = clock + IF scan = "clean" THEN AvailableDays
                                                         ELSE QuarantineDays,
                ![a].charged = row[a].size]

CopyFits(a) ==
    Fits(Finalized(a, "secret_detected"), row[a].task,
         Slots(row[a].kind, "finalized"), row[a].size)

CopyOf(a) == [row[a] EXCEPT !.kind = "clear", !.status = "finalized",
                            !.scan = "redacted", !.charged = row[a].size,
                            !.expires = clock + AvailableDays]

CommitFinalize ==
    /\ txn \in FinalizeTxn
    /\ IF txn.copy = None
       THEN row' = Finalized(txn.id, txn.scan)
       ELSE /\ CopyFits(txn.id)
            /\ row' = [Finalized(txn.id, txn.scan) EXCEPT ![txn.copy] = CopyOf(txn.id)]
    /\ txn' = None
    /\ UNCHANGED <<clock, quarantine, available, undo, job, links>>

(* An exception before the COMMIT rolls the rows back and frees the lock;  *)
(* the files move back in a later step.                                    *)
Moves(t) == IF t \in UploadTxn THEN t.created ELSE t.scan \in {"clean", "secret_detected"}

Fail ==
    /\ txn # None
    /\ undo' = IF Moves(txn) THEN undo \cup {txn} ELSE undo
    /\ txn' = None
    /\ UNCHANGED <<clock, row, quarantine, available, job, links>>

MoveBack(u) ==
    LET back == IF /\ u \in FinalizeTxn /\ u.scan = "clean"
                   /\ u.id \in available /\ u.id \notin quarantine
                THEN {u.id} ELSE {}
        written == IF u \in FinalizeTxn THEN {u.copy} ELSE {}
        unlinked == IF u \in UploadTxn THEN {u.id} ELSE {}
    IN  /\ u \in undo
        /\ undo' = undo \ {u}
        /\ quarantine' = (quarantine \ unlinked) \cup back
        /\ available' = available \ (back \cup written)
        /\ UNCHANGED <<clock, row, txn, job, links>>

(* The process is killed: SQLite rolls its transaction back on the next    *)
(* start, and nothing moves a file back.                                   *)
Die ==
    /\ \/ txn # None /\ txn' = None /\ UNCHANGED undo
       \/ \E u \in undo : undo' = undo \ {u} /\ UNCHANGED txn
    /\ UNCHANGED <<clock, row, quarantine, available, job, links>>
----------------------------------------------------------------------------
(* Cleanup.  LIMIT rows of a set, or all there are.                        *)
Takes(batch, rows) ==
    /\ batch # {}
    /\ batch \subseteq rows
    /\ Cardinality(batch) <= Limit
    /\ batch # rows => Cardinality(batch) = Limit

(* Mutants: Evidence is not looked at; a day early. *)
ExpiredLinked == {a \in Rows : row[a].cleanup = "active" /\ row[a].expires <= clock}
ExpiredSoon == {a \in Rows : /\ row[a].cleanup = "active"
                             /\ row[a].expires <= clock + 1
                             /\ a \notin links}

Expired == {a \in Rows : /\ row[a].cleanup = "active"
                         /\ row[a].expires <= clock
                         /\ a \notin links}

RequestExpired(batch) ==
    /\ txn = None
    /\ Takes(batch, Expired)
    /\ \A a \in batch, b \in Expired \ batch : row[a].expires <= row[b].expires
    /\ row' = [a \in ArtifactIds |->
                   IF a \in batch THEN [row[a] EXCEPT !.cleanup = "pending"] ELSE row[a]]
    /\ UNCHANGED <<clock, quarantine, available, txn, undo, job, links>>

(* purge_pending reads its rows in a transaction of their own, the order of *)
(* sealing left open...                                                    *)
Pending == {a \in Rows : row[a].cleanup = "pending"}

ReadPending(w, batch) ==
    /\ job[w] = Idle
    /\ Takes(batch, Pending)
    /\ job' = [job EXCEPT ![w].found = {[id |-> a, place |-> Place(row[a])] : a \in batch}]
    /\ UNCHANGED <<clock, row, quarantine, available, txn, undo, links>>

(* ...unlinks one Body after the other...                                  *)
Unlink(w, f) ==
    /\ job[w].mark = None
    /\ f \in job[w].found
    /\ quarantine' = IF f.place = "quarantine" THEN quarantine \ {f.id} ELSE quarantine
    /\ available' = IF f.place = "available" THEN available \ {f.id} ELSE available
    /\ job' = [job EXCEPT ![w] = [found |-> @.found \ {f}, mark |-> f.id]]
    /\ UNCHANGED <<clock, row, txn, undo, links>>

(* ...and marks each purged, which releases its quota.                     *)
Mark(w) ==
    LET a == job[w].mark
    IN  /\ txn = None
        /\ a # None
        /\ row' = IF a \in Pending
                  THEN [row EXCEPT ![a].cleanup = "purged", ![a].charged = 0]
                  ELSE row
        /\ job' = [job EXCEPT ![w].mark = None]
        /\ UNCHANGED <<clock, quarantine, available, txn, undo, links>>

(* The run is killed, or stops at a Body it cannot unlink.                 *)
Abandon(w) ==
    /\ job[w] # Idle
    /\ job' = [job EXCEPT ![w] = Idle]
    /\ UNCHANGED <<clock, row, quarantine, available, txn, undo, links>>

Tick ==
    /\ clock < MaxTime
    /\ clock' = clock + 1
    /\ UNCHANGED <<row, quarantine, available, txn, undo, job, links>>

ArtifactNext ==
    \/ \E a \in ArtifactIds, d \in Declared : Reserve(a, d)
    \/ \E a \in ArtifactIds : PlaceUpload(a)
    \/ CommitUpload
    \/ \E a \in ArtifactIds, scan \in Scans, copy \in ArtifactIds \cup {None} :
           PlaceFinalized(a, scan, copy)
    \/ CommitFinalize
    \/ Fail
    \/ \E u \in undo : MoveBack(u)
    \/ Die
    \/ \E batch \in SUBSET Expired : RequestExpired(batch)
    \/ \E w \in Workers, batch \in SUBSET Pending : ReadPending(w, batch)
    \/ \E w \in Workers : \E f \in job[w].found : Unlink(w, f)
    \/ \E w \in Workers : Mark(w)
    \/ \E w \in Workers : Abandon(w)
    \/ Tick
=============================================================================
