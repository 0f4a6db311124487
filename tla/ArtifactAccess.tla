--------------------------- MODULE ArtifactAccess ---------------------------
(***************************************************************************)
(* Downloads.  open_artifact reads the Artifact's row in a transaction of  *)
(* its own, ends it and opens the Body afterwards; the write transactions  *)
(* and cleanup runs of Artifacts and EvidenceSubmission go on in between.  *)
(* A Body that is open is read to its end, whatever unlinks its name.      *)
(***************************************************************************)
EXTENDS EvidenceSubmission

CONSTANT Readers  \* downloads at work at once

VARIABLE reader   \* reader[r]: the Artifact whose row a download has read
                  \* and whose Body it has not opened yet, or None

accessVars == <<vars, reader>>

(* A read sees what is committed; it waits for no write transaction.       *)
ReadRow(r, a) ==
    /\ reader[r] = None
    /\ Servable(a)
    /\ reader' = [reader EXCEPT ![r] = a]
    /\ UNCHANGED vars

(* Finds the Body, or raises "Artifact Body is unavailable".               *)
OpenBody(r) ==
    /\ reader[r] # None
    /\ reader' = [reader EXCEPT ![r] = None]
    /\ UNCHANGED vars

AccessInit == Init /\ reader = [r \in Readers |-> None]

AccessNext ==
    \/ Next /\ UNCHANGED reader
    \/ \E r \in Readers, a \in ArtifactIds : ReadRow(r, a)
    \/ \E r \in Readers : OpenBody(r)

AccessSpec == AccessInit /\ [][AccessNext]_accessVars
----------------------------------------------------------------------------
(* A download whose row was served misses its Body only because a cleanup  *)
(* run came between, and rightly: the row is sealed, has expired and has   *)
(* no Evidence.  No failed or killed transaction, no late compensation and *)
(* no purge of another Artifact makes open_artifact raise.                 *)
ReadMissesOnlySealed ==
    \A r \in Readers :
        reader[r] # None /\ reader[r] \notin available =>
            /\ row[reader[r]].cleanup # "active"
            /\ row[reader[r]].expires <= clock
            /\ reader[r] \notin links
=============================================================================
