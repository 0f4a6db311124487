--------------------------- MODULE A2ADelegation ---------------------------
(***************************************************************************)
(* The A2A bridge: one local Task handed to an external agent by calls     *)
(* that may be repeated, overlap, be cancelled or be killed at any of      *)
(* their steps.  The row of tas_a2a_delegation_operations is the durable   *)
(* state of the delegation; the Task and its transition history are the    *)
(* other.                                                                  *)
(*                                                                         *)
(* A handler is one tas_delegate_task call.  All calls carry the same      *)
(* idempotency key, hence the same Task; tas_create_task may have created  *)
(* it under that key already, so it exists in the initial state.  A call   *)
(* keeps the clock reading (now) and the Task snapshot (snap) it started   *)
(* with, and every transaction, save and gateway call is a step.           *)
(***************************************************************************)
EXTENDS Integers, Sequences, TaskLifecycle

CONSTANTS
    Handlers,        \* calls in progress at once
    Mortal,          \* the handlers that may be killed
    RemoteStatuses,  \* statuses the external agent reports
    LocalTargets,    \* statuses the assignee moves the Task to
    MaxMoves,        \* bound: LocalMove stops at this history length
    MaxAttempts,     \* recovery policy: max_attempts
    BaseDelay, MaxDelay, Deadline, ClaimTimeout,
    MaxTime          \* bound: the clock stops here

TerminalStatuses == {"completed", "failed", "cancelled", "rejected"}
OngoingStatuses == {"submitted", "working", "input_required"}

ASSUME DelegationAssumption ==
    /\ Mortal \subseteq Handlers
    /\ RemoteStatuses \subseteq TerminalStatuses \cup OngoingStatuses
    /\ {MaxMoves, MaxTime} \subseteq Nat
    /\ {MaxAttempts, BaseDelay, MaxDelay, Deadline, ClaimTimeout}
            \subseteq Nat \ {0}
    /\ BaseDelay <= MaxDelay

VARIABLES
    clock,
    op,      \* the operation row
    task,    \* the Task: status, length and last time of its history, author
    remote,  \* status of the external agent's task, "none" before it exists
    sends,   \* messages that left for the external agent
    denied,  \* those of them that the gateway reported as not sent
    call     \* call[h]: the local state of handler h

vars == <<clock, op, task, remote, sends, denied, call>>

States == {"none", "reserved", "not_sent", "submitting", "response_unknown",
           "remote_active", "remote_terminal_unrecorded", "completed",
           "failed_terminal"}
Recorded == {"remote_terminal_unrecorded", "completed"}

(* claimed is recovery_in_progress, flagged is reconciliation_required.     *)
(* started and next are 0 for NULL.  updated_at is read only while the      *)
(* state is submitting, so updated keeps the time the submission began.     *)
Operation == [state : States, remote : RemoteStatuses \cup {"none"},
              attempts : Nat, claimed : BOOLEAN, started : Nat, next : Nat,
              deadline : Nat, flagged : BOOLEAN, updated : Nat]

NoOperation == [state |-> "none", remote |-> "none", attempts |-> 0,
                claimed |-> FALSE, started |-> 0, next |-> 0, deadline |-> 0,
                flagged |-> FALSE, updated |-> 0]

(* by: who made the last transition; it stands for the result text.        *)
LocalTask == [status : TaskStatuses, len : Nat, at : Nat,
              by : {"nobody", "bridge", "assignee"}]

Snapshot == [status : TaskStatuses, len : Nat, at : Nat]

Failures == {"unsent", "unknown", "refused", "interrupted"}

Call == [pc : {"idle", "reserve", "begin", "reread", "send", "await", "fail",
               "record", "apply", "complete", "save_failed", "stale", "claim"},
         now : Nat, snap : Snapshot, prior : States, attempt : Nat,
         answer : RemoteStatuses \cup Failures \cup {"none"}]

NewTask == [status |-> "submitted", len |-> 0, at |-> 0, by |-> "nobody"]

Idle == [pc |-> "idle", now |-> 0,
         snap |-> [status |-> "submitted", len |-> 0, at |-> 0],
         prior |-> "none", attempt |-> 0, answer |-> "none"]

Init ==
    /\ clock = 0
    /\ op = NoOperation
    /\ task = NewTask
    /\ remote = "none"
    /\ sends = 0
    /\ denied = 0
    /\ call = [h \in Handlers |-> Idle]

-----------------------------------------------------------------------------
(* The recovery policy and the transition matrix. *)

(* min(base_delay * 2^(n-1), max_delay) *)
NextRecoveryAt(now, n) ==
    LET delay == BaseDelay * 2 ^ (IF n > 0 THEN n - 1 ELSE 0)
    IN  now + (IF delay < MaxDelay THEN delay ELSE MaxDelay)

SnapshotOf(t) == [status |-> t.status, len |-> t.len, at |-> t.at]

-----------------------------------------------------------------------------
(* What surrounds the bridge. *)

Tick ==
    /\ clock < MaxTime
    /\ clock' = clock + 1
    /\ UNCHANGED <<op, task, remote, sends, denied, call>>

(* The external agent accepts a message it got, or moves its task on.      *)
RemoteProgress ==
    /\ sends > 0
    /\ remote \notin TerminalStatuses
    /\ remote' \in RemoteStatuses \ {remote}
    /\ UNCHANGED <<clock, op, task, sends, denied, call>>

(* The assignee, or an approval on the Task, moves the Task. *)
LocalMove ==
    /\ task.len < MaxMoves
    /\ \E s \in AllowedTransitions[task.status] \cap LocalTargets :
        task' = [status |-> s, len |-> task.len + 1, at |-> clock,
                 by |-> "assignee"]
    /\ UNCHANGED <<clock, op, remote, sends, denied, call>>

Crash(h) ==
    /\ h \in Mortal
    /\ call[h].pc # "idle"
    /\ call' = [call EXCEPT ![h] = Idle]
    /\ UNCHANGED <<clock, op, task, remote, sends, denied>>

-----------------------------------------------------------------------------
(* DelegateTaskService.delegate *)

Moved(h, c) == call' = [call EXCEPT ![h] = c]

Returned(h) == Moved(h, Idle)

Start(h) ==
    /\ call[h].pc = "idle"
    /\ Moved(h, [Idle EXCEPT !.pc = "reserve", !.now = clock,
                             !.snap = SnapshotOf(task)])
    /\ UNCHANGED <<clock, op, task, remote, sends, denied>>

(* Mutant: nothing is left to do for an operation that is completed. *)
HasOutcomeMutant(row) == row.state = "remote_terminal_unrecorded"

HasOutcome(row) == row.state \in Recorded

(* What a call goes on with, having read the row: an outcome is applied to *)
(* the snapshot again, an interrupted attempt is recovered, a submission   *)
(* that took too long is given up, a failure is copied to the Task.        *)
Resumed(c, row) ==
    CASE HasOutcome(row) ->
            [c EXCEPT !.pc = "apply", !.answer = row.remote,
                      !.prior = row.state]
      [] row.state \in {"not_sent", "remote_active"} ->
            [c EXCEPT !.pc = "claim"]
      [] row.state = "submitting" /\ row.updated + ClaimTimeout <= c.now ->
            [c EXCEPT !.pc = "stale"]
      [] row.state = "failed_terminal" /\ c.snap.status = "working" ->
            [c EXCEPT !.pc = "save_failed"]
      [] row.state = "reserved" /\ c.snap.status = "submitted" ->
            [c EXCEPT !.pc = "begin"]
      [] OTHER -> Idle

(* INSERT, or the row that is there already. *)
Reserve(h) ==
    LET c == call[h]
        row == IF op.state # "none" THEN op
               ELSE [NoOperation EXCEPT !.state = "reserved",
                                        !.deadline = c.now + Deadline,
                                        !.updated = c.now]
    IN  /\ c.pc = "reserve"
        /\ op' = row
        /\ Moved(h, Resumed(c, row))
        /\ UNCHANGED <<clock, task, remote, sends, denied>>

(* begin_submission: the Task and the operation move in one transaction.   *)
Begin(h) ==
    LET c == call[h]
    IN  /\ c.pc = "begin"
        /\ op.state = "reserved"
        /\ task.status = "submitted"
        /\ task' = [status |-> "working", len |-> c.snap.len + 1,
                    at |-> c.now, by |-> "bridge"]
        /\ op' = [op EXCEPT !.state = "submitting", !.updated = c.now]
        /\ Moved(h, [c EXCEPT !.pc = "send", !.prior = "submitting",
                              !.snap = SnapshotOf(task')])
        /\ UNCHANGED <<clock, remote, sends, denied>>

(* Another call was first: read the row again.  Or the Task has left       *)
(* submitted: an error, and the operation stays reserved.                  *)
BeginRefused(h) ==
    LET c == call[h]
    IN  /\ c.pc = "begin"
        /\ \/ op.state # "reserved" /\ Moved(h, [c EXCEPT !.pc = "reread"])
           \/ op.state = "reserved" /\ task.status # "submitted" /\ Returned(h)
        /\ UNCHANGED <<clock, op, task, remote, sends, denied>>

(* The row is new, the Task snapshot is the old one. *)
Reread(h) ==
    /\ call[h].pc = "reread"
    /\ Moved(h, Resumed(call[h], op))
    /\ UNCHANGED <<clock, op, task, remote, sends, denied>>

-----------------------------------------------------------------------------
(* The gateway call.  The call is suspended while it waits.                *)

(* The message leaves, or the connection is never made, or the call is     *)
(* cancelled first.  All messages carry one id: the external agent may     *)
(* take a second one for the first, or make another task of it.            *)
Send(h) ==
    LET c == call[h]
    IN  /\ c.pc = "send"
        /\ \/ /\ sends' = sends + 1
              /\ remote' \in {remote, "none"}
              /\ Moved(h, [c EXCEPT !.pc = "await"])
           \/ /\ \E f \in {"unsent", "interrupted"} :
                    Moved(h, [c EXCEPT !.pc = "fail", !.answer = f])
              /\ UNCHANGED <<remote, sends>>
        /\ UNCHANGED <<clock, op, task, denied>>

(* Mutant: the answer is applied before it is recorded. *)
AnsweredMutant(c) == [c EXCEPT !.pc = "apply", !.answer = remote]

Answered(c) == [c EXCEPT !.pc = "record", !.answer = remote]

(* The external agent's answer, or an error.  A transport error after a    *)
(* message left means that it may have arrived; but a ValueError, as for a *)
(* body that cannot be decoded, is always reported as not sent.            *)
Answer(h) ==
    LET c == call[h]
        lookup == c.prior = "remote_active"
    IN  /\ c.pc = "await"
        /\ \/ remote # "none" /\ Moved(h, Answered(c)) /\ UNCHANGED denied
           \/ \E f \in Failures \ (IF lookup THEN {"unknown"} ELSE {}) :
                /\ Moved(h, [c EXCEPT !.pc = "fail", !.answer = f])
                /\ denied' = IF f = "unsent" /\ ~lookup THEN denied + 1 ELSE denied
        /\ UNCHANGED <<clock, op, task, remote, sends>>

-----------------------------------------------------------------------------
(* Recording how the gateway call ended. *)

(* Mutant: an error after the message left is taken for one before it. *)
SubmissionFailureMutant(c) ==
    [op EXCEPT !.state = IF c.answer = "refused" THEN "failed_terminal"
                         ELSE IF c.answer = "interrupted"
                         THEN "response_unknown" ELSE "not_sent",
               !.next = IF c.answer \in {"unsent", "unknown"}
                        THEN NextRecoveryAt(c.now, 1) ELSE 0,
               !.flagged = c.answer = "interrupted"]

(* mark_not_sent, mark_failed_terminal, mark_response_unknown *)
SubmissionFailure(c) ==
    LET state == CASE c.answer = "unsent" -> "not_sent"
                   [] c.answer = "refused" -> "failed_terminal"
                   [] OTHER -> "response_unknown"
    IN  [op EXCEPT !.state = state,
                   !.next = IF state = "not_sent"
                            THEN NextRecoveryAt(c.now, 1) ELSE 0,
                   !.flagged = state = "response_unknown"]

FailSubmission(h) ==
    LET c == call[h]
    IN  /\ c.pc = "fail"
        /\ c.prior = "submitting"
        /\ IF op.state = "submitting"
           THEN /\ op' = SubmissionFailure(c)
                /\ Moved(h, IF c.answer = "refused"
                            THEN [c EXCEPT !.pc = "save_failed"] ELSE Idle)
           ELSE Returned(h) /\ UNCHANGED op
        /\ UNCHANGED <<clock, task, remote, sends, denied>>

(* What a failed recovery tells _recover: a resend may have arrived unless  *)
(* the error says it did not, and a refusal is for good.                   *)
MayHaveArrived(c) == c.prior = "not_sent" /\ c.answer # "unsent"

NeedsReconciliation(c) == MayHaveArrived(c) \/ c.answer = "refused"

(* finish_recovery_error: the claim is given up, whoever holds it by now.  *)
(* The row refuses to take back a reconciliation flag.                     *)
FailRecovery(h) ==
    LET c == call[h]
        flag == NeedsReconciliation(c)
    IN  /\ c.pc = "fail"
        /\ c.prior # "submitting"
        /\ op' = IF op.state = c.prior /\ op.claimed /\ (op.flagged => flag)
                 THEN [op EXCEPT
                         !.state = IF MayHaveArrived(c) THEN "response_unknown"
                                   ELSE c.prior,
                         !.claimed = FALSE, !.started = 0, !.flagged = flag,
                         !.next = IF flag THEN 0
                                  ELSE NextRecoveryAt(c.now, c.attempt)]
                 ELSE op
        /\ Returned(h)
        /\ UNCHANGED <<clock, task, remote, sends, denied>>

(* Mutant: the row would let a reconciliation flag be taken back. *)
AcceptsAnswerMutant(row) ==
    \/ row.state = "submitting" /\ ~row.claimed
    \/ row.state \in {"not_sent", "remote_active"} /\ row.claimed

(* An answer is awaited, and reconciliation is not required. *)
AcceptsAnswer(row) ==
    /\ \/ row.state = "submitting" /\ ~row.claimed
       \/ row.state \in {"not_sent", "remote_active"} /\ row.claimed
    /\ ~row.flagged

(* record_remote *)
Record(h) ==
    LET c == call[h]
        final == c.answer \in TerminalStatuses
    IN  /\ c.pc = "record"
        /\ IF AcceptsAnswer(op)
           THEN /\ op' = [op EXCEPT
                            !.state = IF final THEN "remote_terminal_unrecorded"
                                      ELSE "remote_active",
                            !.remote = c.answer, !.claimed = FALSE,
                            !.started = 0, !.flagged = FALSE,
                            !.next = IF final THEN 0
                                     ELSE NextRecoveryAt(c.now, c.attempt)]
                /\ Moved(h, [c EXCEPT !.pc = "apply", !.prior = op'.state])
           ELSE Returned(h) /\ UNCHANGED op
        /\ UNCHANGED <<clock, task, remote, sends, denied>>

-----------------------------------------------------------------------------
(* Bringing the local Task to where the external agent's task is. *)

(* _apply_remote: the statuses a Task in status s goes through, s first.   *)
ApplyPath(s, target) ==
    LET resumed == IF s = "input_required" /\ target # "input_required"
                   THEN <<s, "working">> ELSE <<s>>
        working == resumed[Len(resumed)] = "working"
    IN  CASE working /\ target \in TerminalStatuses \ {"rejected"} ->
                Append(resumed, target)
          [] working /\ target = "input_required" -> Append(resumed, target)
          [] working /\ target = "rejected" -> Append(resumed, "failed")
          [] OTHER -> resumed

(* save_task of a snapshot moved along path.  The part of the path that is *)
(* not in the stored history yet must continue it; with nothing to append, *)
(* the status and the result must be the stored ones.                      *)
SavesNothing(snap, path) ==
    /\ task.len = snap.len + Len(path) - 1
    /\ task.status = path[Len(path)]
    /\ task.status = "completed" => task.by = "bridge"

Saves(snap, path) ==
    LET stored == task.len - snap.len
    IN  stored < Len(path) - 1 /\ task.status = path[stored + 1]

SavedTask(snap, path, time) ==
    [status |-> path[Len(path)], len |-> snap.len + Len(path) - 1,
     at |-> time, by |-> "bridge"]

(* The terminal outcome is in the Task, or there is nothing to bring over: *)
(* mark_completed follows unless the row was completed already.            *)
Apply(h) ==
    LET c == call[h]
        path == ApplyPath(c.snap.status, c.answer)
        ok == \/ Len(path) = 1
              \/ SavesNothing(c.snap, path)
              \/ Saves(c.snap, path)
    IN  /\ c.pc = "apply"
        /\ task' = IF Len(path) > 1 /\ Saves(c.snap, path)
                   THEN SavedTask(c.snap, path, clock) ELSE task
        /\ Moved(h, IF ok /\ c.prior = "remote_terminal_unrecorded"
                    THEN [c EXCEPT !.pc = "complete"] ELSE Idle)
        /\ UNCHANGED <<clock, op, remote, sends, denied>>

(* mark_completed *)
Complete(h) ==
    /\ call[h].pc = "complete"
    /\ op' = IF op.state = "remote_terminal_unrecorded"
             THEN [op EXCEPT !.state = "completed"] ELSE op
    /\ Returned(h)
    /\ UNCHANGED <<clock, task, remote, sends, denied>>

(* A refused delegation fails the Task, with the time the call started.    *)
(* The history must stay chronological, or the call ends in an error.      *)
SaveFailed(h) ==
    LET c == call[h]
        path == <<"working", "failed">>
    IN  /\ c.pc = "save_failed"
        /\ task' = IF c.snap.at <= c.now /\ Saves(c.snap, path)
                   THEN SavedTask(c.snap, path, c.now) ELSE task
        /\ Returned(h)
        /\ UNCHANGED <<clock, op, remote, sends, denied>>

-----------------------------------------------------------------------------
(* Recovery by a later call. *)

(* Mutant: the UPDATE does not ask whether the submission is still open.   *)
GiveUpSubmissionMutant(h) ==
    LET c == call[h]
    IN  /\ c.pc = "stale"
        /\ op' = [op EXCEPT !.state = "response_unknown", !.next = 0,
                            !.flagged = TRUE]
        /\ Returned(h)
        /\ UNCHANGED <<clock, task, remote, sends, denied>>

(* mark_stale_submission_unknown *)
GiveUpSubmission(h) ==
    LET c == call[h]
    IN  /\ c.pc = "stale"
        /\ op' = IF op.state = "submitting" /\ op.updated + ClaimTimeout <= c.now
                 THEN [op EXCEPT !.state = "response_unknown", !.next = 0,
                                 !.flagged = TRUE]
                 ELSE op
        /\ Returned(h)
        /\ UNCHANGED <<clock, task, remote, sends, denied>>

(* claim_recovery reads the row in the transaction it decides in. *)
Recoverable == op.state \in {"not_sent", "remote_active"}

ClaimIsFresh(now) == op.claimed /\ now - op.started < ClaimTimeout

(* Mutant: a silent resend may be claimed again like a silent lookup. *)
ResendInterruptedMutant(now) == FALSE

(* A resend whose call went silent may have left: it is not repeated.      *)
ResendInterrupted(now) ==
    op.claimed /\ ~ClaimIsFresh(now) /\ op.state = "not_sent"

Exhausted(now) ==
    op.flagged \/ op.attempts >= MaxAttempts \/ now >= op.deadline

(* The claim ends the call: in progress, deferred, or reconciliation is    *)
(* required, which leaves a claim of an exhausted operation in place.      *)
ClaimRefused(h) ==
    LET now == call[h].now
    IN  /\ call[h].pc = "claim"
        /\ \/ (~Recoverable \/ ClaimIsFresh(now)) /\ UNCHANGED op
           \/ /\ Recoverable /\ ResendInterrupted(now)
              /\ op' = [op EXCEPT !.state = "response_unknown",
                                  !.claimed = FALSE, !.started = 0,
                                  !.flagged = TRUE, !.next = 0]
           \/ /\ Recoverable /\ ~ClaimIsFresh(now) /\ ~ResendInterrupted(now)
              /\ IF Exhausted(now)
                 THEN op' = [op EXCEPT !.flagged = TRUE, !.next = 0]
                 ELSE now < op.next /\ UNCHANGED op
        /\ Returned(h)
        /\ UNCHANGED <<clock, task, remote, sends, denied>>

(* The claim is acquired: send again, or look the external task up.        *)
Claim(h) ==
    LET c == call[h]
    IN  /\ c.pc = "claim"
        /\ Recoverable
        /\ ~ClaimIsFresh(c.now)
        /\ ~ResendInterrupted(c.now)
        /\ ~Exhausted(c.now)
        /\ c.now >= op.next
        /\ op' = [op EXCEPT !.claimed = TRUE, !.started = c.now,
                            !.attempts = op.attempts + 1]
        /\ Moved(h, [c EXCEPT !.pc = IF op.state = "not_sent" THEN "send"
                                     ELSE "await",
                              !.prior = op.state, !.attempt = op.attempts + 1])
        /\ UNCHANGED <<clock, task, remote, sends, denied>>

-----------------------------------------------------------------------------

Step(h) ==
    \/ Reserve(h) \/ Begin(h) \/ BeginRefused(h) \/ Reread(h)
    \/ Send(h) \/ Answer(h)
    \/ FailSubmission(h) \/ FailRecovery(h) \/ Record(h)
    \/ Apply(h) \/ Complete(h) \/ SaveFailed(h)
    \/ GiveUpSubmission(h) \/ ClaimRefused(h) \/ Claim(h)

Next ==
    \/ Tick \/ RemoteProgress \/ LocalMove
    \/ \E h \in Handlers : Start(h) \/ Step(h) \/ Crash(h)

Spec == Init /\ [][Next]_vars

(* A client that keeps repeating the call, and calls that are not killed   *)
(* run to their end: the gateway's requests time out.                      *)
FairSpec ==
    /\ Spec
    /\ \A h \in Handlers \ Mortal : WF_vars(Start(h)) /\ WF_vars(Step(h))

-----------------------------------------------------------------------------
(* Properties *)

(* Every variable holds values of its kind. *)
TypeOK ==
    /\ clock \in Nat
    /\ op \in Operation
    /\ task \in LocalTask
    /\ remote \in RemoteStatuses \cup {"none"}
    /\ sends \in Nat
    /\ denied \in Nat
    /\ call \in [Handlers -> Call]

(* The columns stay consistent as the triggers and the CHECKs of the       *)
(* migrations 0037 and 0038 demand.  A transaction that broke them would   *)
(* be aborted and its outcome lost, so none of the bridge's may.           *)
ColumnsConsistent ==
    /\ op.flagged => op.next = 0
    /\ op.claimed => Recoverable
    /\ op.remote # "none" <=> op.state \in Recorded \cup {"remote_active"}
    /\ op.state \in Recorded => op.remote \in TerminalStatuses
    /\ op.state = "remote_active" => op.remote \in OngoingStatuses

(* A second message leaves only after the gateway said of the one before   *)
(* that it was not sent, whatever calls are repeated, cancelled, killed or *)
(* answered late.  The bridge adds no message of its own to those the      *)
(* gateway is wrong about.                                                 *)
OneSendPerDenial == sends <= 1 + denied

(* Whenever the row offers a resend, the gateway said of every message     *)
(* that left that it was not sent: none is on its way, and no call is      *)
(* about to send one.                                                      *)
ResendIsDenied ==
    op.state = "not_sent" /\ ~op.claimed =>
        /\ sends = denied
        /\ \A h \in Handlers : call[h].pc # "send"

(* What the bridge did to the Task agrees with an outcome that was         *)
(* recorded before: no crash can leave the Task closed and the delegation  *)
(* open, or closed another way.                                            *)
TaskFollowsRecord ==
    task.by = "bridge" =>
        /\ task.status \in {"completed", "cancelled"} =>
                op.state \in Recorded /\ op.remote = task.status
        /\ task.status = "failed" =>
                \/ op.state = "failed_terminal"
                \/ op.state \in Recorded /\ op.remote \in {"failed", "rejected"}

(* Once manual reconciliation is required no late answer and no later call *)
(* changes what is recorded, nor lowers the flag.                          *)
ReconciliationIsFinal ==
    [][op.flagged =>
        /\ op'.flagged
        /\ op'.remote = op.remote
        /\ op'.state # op.state =>
             op.state = "not_sent" /\ op'.state = "response_unknown"]_vars

(* What the row says of the message: nothing was decided yet, it may be on *)
(* its way, nobody knows, or the external agent answered it, if only by    *)
(* refusing.                                                               *)
Phase ==
    CASE op.state \in {"none", "reserved"} -> "none"
      [] op.state \in {"submitting", "not_sent"} -> "authorized"
      [] op.state = "response_unknown" -> "unknown"
      [] OTHER -> "done"

S == INSTANCE OneShot WITH
        Actions <- {"delegation"},
        phase <- [a \in {"delegation"} |-> Phase],
        performed <- [a \in {"delegation"} |-> sends > 0]

(* The delegation keeps the promise of OneShot, where performed means that *)
(* the first message left: it leaves only for a submission that was        *)
(* recorded before, even when the row has been given up meanwhile; an      *)
(* answer or a refusal is recorded only of a message that left; and        *)
(* neither a late call nor a repeated one takes it back.                   *)
ImplementsOneShot == S!SSpec

(* A recorded outcome reaches the Task and the operation if the call is    *)
(* repeated, although calls work on stale snapshots and may die between    *)
(* recording, applying and completing.                                     *)
OutcomeIsApplied ==
    op.state \in Recorded ~>
        op.state = "completed" /\ task.status \notin {"working", "input_required"}
=============================================================================
