------------------------ MODULE A2ADelegationProofs ------------------------
(***************************************************************************)
(* Theorems about the A2A bridge, for every number of concurrent calls,    *)
(* every recovery policy and every set of statuses.                        *)
(*                                                                         *)
(* The argument for one send per denial: a call is in flight from the      *)
(* moment it holds the right to send until its gateway call is recorded.   *)
(* At most one call is ever in flight, none while the row says that        *)
(* nothing was sent.  Every message but the one that call awaits the       *)
(* answer of was reported as not sent (CountsAgree).                       *)
(*                                                                         *)
(* The argument for the refinement of OneShot: a row or a call that knows  *)
(* of an answer implies that a message has left (SentBefore), the message  *)
(* leaves while the row is authorized or of unknown fate, and RowMoves     *)
(* lists how a step may move the row.                                      *)
(***************************************************************************)
EXTENDS A2ADelegation, FiniteSetTheorems, TLAPS

InFlight(h) ==
    /\ call[h].pc \in {"send", "await", "fail", "record"}
    /\ call[h].prior \in {"submitting", "not_sent"}

(* The row says that no message has left, or it offers a resend. *)
Pristine ==
    \/ op.state \in {"none", "reserved"}
    \/ op.state = "not_sent" /\ ~op.claimed

OneInFlight == \A g, h \in Handlers : InFlight(g) /\ InFlight(h) => g = h

PristineMeansDenied ==
    Pristine => sends = denied /\ \A h \in Handlers : ~InFlight(h)

MayStillSend(h) ==
    /\ InFlight(h)
    /\ \/ call[h].pc = "send"
       \/ call[h].pc = "fail" /\ call[h].answer = "unsent"

Awaiting(h) == InFlight(h) /\ call[h].pc = "await"

CountsAgree ==
    \A h \in Handlers : /\ MayStillSend(h) => sends = denied
                        /\ Awaiting(h) => sends = denied + 1

(* What a call keeps in its local state at each of its steps. *)
CallsConsistent ==
    \A h \in Handlers :
        /\ call[h].pc = "send" => call[h].prior \in {"submitting", "not_sent"}
        /\ call[h].pc \in {"await", "fail", "record"} =>
                call[h].prior \in {"submitting", "not_sent", "remote_active"}
        /\ call[h].pc = "record" => call[h].answer \in RemoteStatuses

(* The states in which reconciliation may be required. *)
FlagConsistent ==
    op.flagged => op.state \in {"response_unknown", "not_sent", "remote_active"}

(* A call applies what is recorded. *)
AppliesRecord ==
    \A h \in Handlers :
        /\ call[h].pc = "apply" /\ call[h].answer \in TerminalStatuses =>
                op.state \in Recorded /\ op.remote = call[h].answer
        /\ call[h].pc = "save_failed" => op.state = "failed_terminal"

(* The external agent answered or refused. *)
Settled == {"remote_active", "failed_terminal"} \cup Recorded

(* A call that awaits an answer, has one, or has an error that only comes  *)
(* after the message left.                                                 *)
KnowsSent(c) ==
    \/ c.pc \in {"await", "record"}
    \/ c.pc = "fail" /\ c.answer \in {"refused", "unknown"}

SentBefore ==
    /\ op.state \in Settled => sends > 0
    /\ \A h \in Handlers : KnowsSent(call[h]) => sends > 0

IInv == /\ TypeOK
        /\ CallsConsistent
        /\ ColumnsConsistent
        /\ FlagConsistent
        /\ OneInFlight
        /\ PristineMeansDenied
        /\ CountsAgree
        /\ OneSendPerDenial
        /\ AppliesRecord
        /\ TaskFollowsRecord
        /\ SentBefore

-----------------------------------------------------------------------------
(* Lemmas about the operators. *)

(* A power of two is a natural number: it is the size of a powerset. *)
LEMMA PowerOfTwo == ASSUME NEW n \in Nat PROVE 2 ^ n \in Nat
<1>1. IsFiniteSet(1..n) /\ Cardinality(1..n) = n
  BY FS_Interval
<1>2. IsFiniteSet(SUBSET (1..n)) /\ Cardinality(SUBSET (1..n)) = 2 ^ n
  BY <1>1, FS_SUBSET, Zenon
<1> QED BY <1>2, FS_CardinalityType, Zenon

(* The next recovery is scheduled at a time. *)
LEMMA NextRecoveryAtType ==
  ASSUME NEW now \in Nat, NEW n \in Nat
  PROVE  NextRecoveryAt(now, n) \in Nat
<1> DEFINE e == IF n > 0 THEN n - 1 ELSE 0
           p == 2 ^ e
           delay == BaseDelay * p
<1>1. e \in Nat
  OBVIOUS
<1>2. p \in Nat
  BY <1>1, PowerOfTwo
<1>3. BaseDelay \in Nat /\ MaxDelay \in Nat
  BY DelegationAssumption
<1> HIDE DEF p
<1>4. delay \in Nat
  BY <1>2, <1>3
<1> HIDE DEF delay
<1>5. now + (IF delay < MaxDelay THEN delay ELSE MaxDelay) \in Nat
  BY <1>3, <1>4
<1> QED BY <1>5 DEF NextRecoveryAt, delay, p

(* The path of a Task towards a remote status: one to three statuses, the  *)
(* last of them a Task status.                                             *)
LEMMA ApplyPathType ==
  ASSUME NEW s \in TaskStatuses, NEW target
  PROVE  /\ Len(ApplyPath(s, target)) \in 1..3
         /\ ApplyPath(s, target)[Len(ApplyPath(s, target))] \in TaskStatuses
<1> DEFINE resumed == IF s = "input_required" /\ target # "input_required"
                      THEN <<s, "working">> ELSE <<s>>
<1>1. /\ resumed \in Seq(TaskStatuses)
      /\ Len(resumed) \in 1..2
      /\ resumed[Len(resumed)] \in TaskStatuses
  <2>1. CASE resumed = <<s, "working">>
    <3>1. "working" \in TaskStatuses
      BY DEF TaskStatuses
    <3> HIDE DEF resumed
    <3> QED BY <2>1, <3>1
  <2>2. CASE resumed = <<s>>
    <3> HIDE DEF resumed
    <3> QED BY <2>2
  <2> QED BY <2>1, <2>2, Zenon
<1>2. ASSUME NEW x \in TaskStatuses
      PROVE  /\ Len(Append(resumed, x)) \in 1..3
             /\ Append(resumed, x)[Len(Append(resumed, x))] \in TaskStatuses
  <2> HIDE DEF resumed
  <2> QED BY <1>1
<1>3. ApplyPath(s, target) \in
        {resumed, Append(resumed, "failed"), Append(resumed, "input_required"),
         Append(resumed, "completed"), Append(resumed, "cancelled")}
  <2> DEFINE working == resumed[Len(resumed)] = "working"
  <2>1. ApplyPath(s, target) =
          CASE working /\ target \in TerminalStatuses \ {"rejected"} ->
                  Append(resumed, target)
            [] working /\ target = "input_required" -> Append(resumed, target)
            [] working /\ target = "rejected" -> Append(resumed, "failed")
            [] OTHER -> resumed
    BY Zenon DEF ApplyPath
  <2> HIDE DEF resumed, working
  <2> QED BY <2>1 DEF TerminalStatuses
<1>4. {"failed", "input_required", "completed", "cancelled"}
        \subseteq TaskStatuses
  BY DEF TaskStatuses
<1> HIDE DEF resumed
<1>5. CASE ApplyPath(s, target) = resumed
  BY <1>1, <1>5
<1>6. ASSUME NEW x \in TaskStatuses, ApplyPath(s, target) = Append(resumed, x)
      PROVE  /\ Len(ApplyPath(s, target)) \in 1..3
             /\ ApplyPath(s, target)[Len(ApplyPath(s, target))] \in TaskStatuses
  BY <1>2, <1>6, Zenon
<1> QED BY <1>3, <1>4, <1>5, <1>6, Zenon

(* A call that has read the row goes on with a well-formed state. *)
LEMMA ResumedType ==
  ASSUME NEW c \in Call, NEW row \in Operation
  PROVE  /\ Resumed(c, row) \in Call
         /\ Resumed(c, row).pc \in {"idle", "apply", "claim", "stale",
                                    "save_failed", "begin"}
<1>1. Idle \in Call /\ Idle.pc = "idle"
  BY DEF Idle, Call, Snapshot, TaskStatuses, States
<1>3. row.remote \in RemoteStatuses \cup {"none"} /\ row.state \in States
  BY DEF Operation
<1>4. Resumed(c, row) \in
        {[c EXCEPT !.pc = "apply", !.answer = row.remote, !.prior = row.state],
         [c EXCEPT !.pc = "claim"], [c EXCEPT !.pc = "stale"],
         [c EXCEPT !.pc = "save_failed"], [c EXCEPT !.pc = "begin"], Idle}
  BY Zenon DEF Resumed
<1>5. CASE Resumed(c, row) = [c EXCEPT !.pc = "apply", !.answer = row.remote,
                                       !.prior = row.state]
  <2> DEFINE a == row.remote
             st == row.state
  <2>1. a \in RemoteStatuses \cup {"none"} /\ st \in States
    BY <1>3
  <2>2. Resumed(c, row) = [c EXCEPT !.pc = "apply", !.answer = a, !.prior = st]
    BY <1>5, Zenon
  <2> HIDE DEF a, st
  <2>3. [c EXCEPT !.pc = "apply", !.answer = a, !.prior = st] \in Call
    BY <2>1 DEF Call
  <2>4. [c EXCEPT !.pc = "apply", !.answer = a, !.prior = st].pc = "apply"
    BY <2>1 DEF Call
  <2> QED BY <2>2, <2>3, <2>4
<1>6. ASSUME NEW pc \in {"claim", "stale", "save_failed", "begin"},
             Resumed(c, row) = [c EXCEPT !.pc = pc]
      PROVE  /\ Resumed(c, row) \in Call
             /\ Resumed(c, row).pc \in {"idle", "apply", "claim", "stale",
                                        "save_failed", "begin"}
  <2>1. [c EXCEPT !.pc = pc] \in Call
    BY DEF Call
  <2>2. [c EXCEPT !.pc = pc].pc = pc
    BY DEF Call
  <2> QED BY <1>6, <2>1, <2>2
<1> QED BY <1>1, <1>4, <1>5, <1>6, Zenon

(* Every state the two failure paths write is an operation. *)
LEMMA SubmissionFailureType ==
  ASSUME TypeOK, NEW c \in Call
  PROVE  SubmissionFailure(c) \in Operation
<1> DEFINE state == CASE c.answer = "unsent" -> "not_sent"
                      [] c.answer = "refused" -> "failed_terminal"
                      [] OTHER -> "response_unknown"
           next == IF state = "not_sent" THEN NextRecoveryAt(c.now, 1) ELSE 0
           flag == state = "response_unknown"
<1>1. state \in States
  BY DEF States
<1>2. next \in Nat
  BY NextRecoveryAtType DEF Call
<1>3. flag \in BOOLEAN
  OBVIOUS
<1>4. SubmissionFailure(c) = [op EXCEPT !.state = state, !.next = next,
                                        !.flagged = flag]
  BY Zenon DEF SubmissionFailure
<1> HIDE DEF state, next, flag
<1> QED BY <1>1, <1>2, <1>3, <1>4 DEF TypeOK, Operation

-----------------------------------------------------------------------------
(* Type correctness, action by action. *)

LEMMA InitType == Init => TypeOK
<1> SUFFICES ASSUME Init PROVE TypeOK
  OBVIOUS
<1>1. op \in Operation
  BY DEF Init, Operation, NoOperation, States
<1>2. task \in LocalTask
  BY DEF Init, LocalTask, NewTask, TaskStatuses
<1>3. Idle \in Call
  BY DEF Idle, Call, Snapshot, TaskStatuses, States
<1> QED BY <1>1, <1>2, <1>3 DEF Init, TypeOK

LEMMA CallType ==
  ASSUME TypeOK, NEW h \in Handlers
  PROVE  /\ call[h] \in Call
         /\ Idle \in Call
         /\ SnapshotOf(task) \in Snapshot
BY DEF TypeOK, Idle, Call, Snapshot, TaskStatuses, States, SnapshotOf, LocalTask

LEMMA EnvironmentType ==
  ASSUME TypeOK, Tick \/ RemoteProgress \/ LocalMove \/ UNCHANGED vars
  PROVE  TypeOK'
<1>1. CASE Tick
  BY <1>1 DEF Tick, TypeOK
<1>2. CASE RemoteProgress
  BY <1>2 DEF RemoteProgress, TypeOK
<1>3. CASE LocalMove
  <2>1. PICK s \in AllowedTransitions[task.status] \cap LocalTargets :
          task' = [status |-> s, len |-> task.len + 1, at |-> clock,
                   by |-> "assignee"]
    BY <1>3, Zenon DEF LocalMove
  <2>2. s \in TaskStatuses
    <3> DEFINE st == task.status
    <3>1. st \in TaskStatuses
      BY DEF TypeOK, LocalTask
    <3>2. s \in AllowedTransitions[st]
      BY <2>1
    <3> HIDE DEF st
    <3> QED BY <3>1, <3>2 DEF AllowedTransitions, TaskStatuses
  <2>3. task' \in LocalTask
    BY <2>1, <2>2 DEF TypeOK, LocalTask
  <2> QED BY <1>3, <2>3 DEF LocalMove, TypeOK
<1>4. CASE UNCHANGED vars
  BY <1>4 DEF vars, TypeOK
<1> QED BY <1>1, <1>2, <1>3, <1>4

LEMMA StartType ==
  ASSUME TypeOK, NEW h \in Handlers, Start(h) \/ Crash(h)
  PROVE  TypeOK'
<1>1. CASE Start(h)
  <2>1. [Idle EXCEPT !.pc = "reserve", !.now = clock,
                     !.snap = SnapshotOf(task)] \in Call
    BY CallType DEF TypeOK, Call
  <2> QED BY <1>1, <2>1 DEF Start, Moved, TypeOK
<1>2. CASE Crash(h)
  BY <1>2, CallType DEF Crash, TypeOK
<1> QED BY <1>1, <1>2

LEMMA ReserveType ==
  ASSUME TypeOK, NEW h \in Handlers, Reserve(h) \/ Reread(h)
  PROVE  TypeOK'
<1>1. call[h] \in Call
  BY CallType
<1>2. CASE Reserve(h)
  <2> DEFINE c == call[h]
             fresh == [NoOperation EXCEPT !.state = "reserved",
                                          !.deadline = c.now + Deadline,
                                          !.updated = c.now]
             row == IF op.state # "none" THEN op ELSE fresh
  <2>1. NoOperation \in Operation
    BY DEF NoOperation, Operation, States
  <2>2. c.now \in Nat /\ c.now + Deadline \in Nat
    BY <1>1, DelegationAssumption DEF Call
  <2>3. fresh \in Operation
    <3> DEFINE d == c.now + Deadline
               n == c.now
    <3> HIDE DEF d, n
    <3>1. [NoOperation EXCEPT !.state = "reserved", !.deadline = d,
                              !.updated = n] \in Operation
      BY <2>1, <2>2 DEF Operation, States, d, n
    <3> QED BY <3>1 DEF d, n
  <2>4. row \in Operation
    BY <2>3 DEF TypeOK
  <2>5. op' = row /\ call' = [call EXCEPT ![h] = Resumed(c, row)]
    BY <1>2, Zenon DEF Reserve, Moved
  <2>6. Resumed(c, row) \in Call
    BY <1>1, <2>4, ResumedType
  <2> HIDE DEF row
  <2> QED BY <1>2, <2>4, <2>5, <2>6 DEF Reserve, TypeOK
<1>3. CASE Reread(h)
  <2>1. Resumed(call[h], op) \in Call
    BY <1>1, ResumedType DEF TypeOK
  <2> QED BY <1>3, <2>1 DEF Reread, Moved, TypeOK
<1> QED BY <1>2, <1>3

LEMMA BeginType ==
  ASSUME TypeOK, NEW h \in Handlers, Begin(h) \/ BeginRefused(h)
  PROVE  TypeOK'
<1>1. call[h] \in Call /\ Idle \in Call
  BY CallType
<1>2. CASE Begin(h)
  <2>1. task' \in LocalTask
    BY <1>1, <1>2 DEF Begin, LocalTask, TaskStatuses, Call, Snapshot
  <2>2. op' \in Operation
    BY <1>1, <1>2 DEF Begin, TypeOK, Operation, States, Call
  <2>3. SnapshotOf(task') \in Snapshot
    BY <2>1 DEF SnapshotOf, Snapshot, LocalTask
  <2>4. call' \in [Handlers -> Call]
    <3>1. PICK new \in Snapshot : call' = [call EXCEPT ![h] = [call[h] EXCEPT
                    !.pc = "send", !.prior = "submitting", !.snap = new]]
      BY <1>2, <2>3, Zenon DEF Begin, Moved
    <3>2. [call[h] EXCEPT !.pc = "send", !.prior = "submitting", !.snap = new]
            \in Call
      BY <1>1 DEF Call, States
    <3> QED BY <3>1, <3>2 DEF TypeOK
  <2> QED BY <1>2, <2>1, <2>2, <2>4 DEF Begin, TypeOK
<1>3. CASE BeginRefused(h)
  BY <1>1, <1>3 DEF BeginRefused, Moved, Returned, TypeOK, Call
<1> QED BY <1>2, <1>3

LEMMA GatewayType ==
  ASSUME TypeOK, NEW h \in Handlers, Send(h) \/ Answer(h)
  PROVE  TypeOK'
<1>1. call[h] \in Call /\ call \in [Handlers -> Call]
  BY CallType DEF TypeOK
<1>2. CASE Send(h)
  <2>1. call' \in [Handlers -> Call]
    <3>1. CASE Moved(h, [call[h] EXCEPT !.pc = "await"])
      BY <1>1, <3>1 DEF Moved, Call
    <3>2. ASSUME NEW f \in {"unsent", "interrupted"},
                 Moved(h, [call[h] EXCEPT !.pc = "fail", !.answer = f])
          PROVE  call' \in [Handlers -> Call]
      BY <1>1, <3>2 DEF Moved, Call, Failures
    <3> QED BY <1>2, <3>1, <3>2 DEF Send
  <2>2. sends' \in Nat /\ remote' \in RemoteStatuses \cup {"none"}
    BY <1>2 DEF Send, TypeOK
  <2> QED BY <1>2, <2>1, <2>2 DEF Send, TypeOK
<1>3. CASE Answer(h)
  <2>1. call' \in [Handlers -> Call]
    <3>1. CASE remote # "none" /\ Moved(h, Answered(call[h]))
      BY <1>1, <3>1 DEF Moved, Answered, Call, TypeOK
    <3>2. ASSUME NEW f \in Failures,
                 Moved(h, [call[h] EXCEPT !.pc = "fail", !.answer = f])
          PROVE  call' \in [Handlers -> Call]
      BY <1>1, <3>2 DEF Moved, Call
    <3> QED BY <1>3, <3>1, <3>2 DEF Answer
  <2>2. denied' \in {denied, denied + 1}
    BY <1>3, Zenon DEF Answer
  <2>3. denied' \in Nat
    BY <2>2 DEF TypeOK
  <2> QED BY <1>3, <2>1, <2>3 DEF Answer, TypeOK
<1> QED BY <1>2, <1>3

LEMMA FailureType ==
  ASSUME TypeOK, CallsConsistent, NEW h \in Handlers,
         FailSubmission(h) \/ FailRecovery(h)
  PROVE  TypeOK'
<1>1. call[h] \in Call /\ Idle \in Call /\ call \in [Handlers -> Call]
  BY CallType DEF TypeOK
<1>2. CASE FailSubmission(h)
  <2>1. op' \in Operation
    BY <1>1, <1>2, SubmissionFailureType DEF FailSubmission, TypeOK
  <2>2. [call[h] EXCEPT !.pc = "save_failed"] \in Call
    BY <1>1 DEF Call
  <2>3. call' \in [Handlers -> Call]
    BY <1>1, <1>2, <2>2 DEF FailSubmission, Moved, Returned
  <2> QED BY <1>2, <2>1, <2>3 DEF FailSubmission, TypeOK
<1>3. CASE FailRecovery(h)
  <2> DEFINE c == call[h]
             lost == c.prior = "not_sent" /\ c.answer # "unsent"
             flag == lost \/ c.answer = "refused"
             state == IF lost THEN "response_unknown" ELSE c.prior
             next == IF flag THEN 0 ELSE NextRecoveryAt(c.now, c.attempt)
             failed == [op EXCEPT !.state = state, !.claimed = FALSE,
                                  !.started = 0, !.flagged = flag, !.next = next]
  <2>1. op' \in {op, failed}
    BY <1>3, Zenon DEF FailRecovery, MayHaveArrived, NeedsReconciliation
  <2>2. state \in States /\ flag \in BOOLEAN
    BY <1>1 DEF Call, States
  <2>3. next \in Nat
    BY <1>1, NextRecoveryAtType DEF Call
  <2>4. failed \in Operation
    <3> HIDE DEF state, flag, next
    <3> QED BY <2>2, <2>3 DEF TypeOK, Operation
  <2>5. op' \in Operation
    <3> HIDE DEF failed
    <3> QED BY <2>1, <2>4 DEF TypeOK
  <2>6. call' \in [Handlers -> Call]
    BY <1>1, <1>3 DEF FailRecovery,
         MayHaveArrived, NeedsReconciliation, Moved, Returned
  <2> QED BY <1>3, <2>5, <2>6 DEF FailRecovery,
       MayHaveArrived, NeedsReconciliation, TypeOK
<1> QED BY <1>2, <1>3

LEMMA RecordType ==
  ASSUME TypeOK, CallsConsistent, NEW h \in Handlers, Record(h)
  PROVE  TypeOK'
<1> DEFINE c == call[h]
           final == c.answer \in TerminalStatuses
           state == IF final THEN "remote_terminal_unrecorded"
                    ELSE "remote_active"
           next == IF final THEN 0 ELSE NextRecoveryAt(c.now, c.attempt)
           recorded == [op EXCEPT !.state = state, !.remote = c.answer,
                                  !.claimed = FALSE, !.started = 0,
                                  !.flagged = FALSE, !.next = next]
<1>1. c \in Call /\ Idle \in Call /\ call \in [Handlers -> Call]
  BY CallType DEF TypeOK
<1>2. c.answer \in RemoteStatuses
  BY DEF Record, CallsConsistent
<1>3. state \in States /\ next \in Nat
  BY <1>1, NextRecoveryAtType DEF Call, States
<1>4. recorded \in Operation
  <2> DEFINE answer == c.answer
  <2> HIDE DEF answer, state, next
  <2>1. answer \in RemoteStatuses
    BY <1>2 DEF answer
  <2>2. [op EXCEPT !.state = state, !.remote = answer, !.claimed = FALSE,
                   !.started = 0, !.flagged = FALSE, !.next = next]
          \in Operation
    BY <1>3, <2>1 DEF TypeOK, Operation
  <2> QED BY <2>2 DEF answer
<1>5. op' \in {op, recorded}
  BY Zenon DEF Record
<1>6. op' \in Operation
  <2> HIDE DEF recorded
  <2> QED BY <1>4, <1>5 DEF TypeOK
<1>7. op'.state \in States
  BY <1>6 DEF Operation
<1>8. [c EXCEPT !.pc = "apply", !.prior = op'.state] \in Call
  BY <1>1, <1>7 DEF Call
<1>9. call' \in [Handlers -> Call]
  BY <1>1, <1>8 DEF Record, Moved, Returned
<1> QED BY <1>6, <1>9 DEF Record, TypeOK

(* Saving a snapshot that was moved along a path leaves a Task. *)
LEMMA SavedTaskType ==
  ASSUME NEW snap \in Snapshot, NEW time \in Nat, NEW path,
         Len(path) \in 1..3, path[Len(path)] \in TaskStatuses
  PROVE  SavedTask(snap, path, time) \in LocalTask
<1> DEFINE last == path[Len(path)]
           n == Len(path)
<1>1. last \in TaskStatuses /\ n \in 1..3
  OBVIOUS
<1>2. SavedTask(snap, path, time) = [status |-> last, len |-> snap.len + n - 1,
                                     at |-> time, by |-> "bridge"]
  BY DEF SavedTask
<1> HIDE DEF last, n
<1>3. snap.len + n - 1 \in Nat
  BY <1>1 DEF Snapshot
<1> QED BY <1>1, <1>2, <1>3 DEF LocalTask

LEMMA ApplyType ==
  ASSUME TypeOK, NEW h \in Handlers,
         Apply(h) \/ Complete(h) \/ SaveFailed(h)
  PROVE  TypeOK'
<1>1. call[h] \in Call /\ Idle \in Call /\ call \in [Handlers -> Call]
  BY CallType DEF TypeOK
<1>2. call[h].snap \in Snapshot /\ call[h].now \in Nat
  BY <1>1 DEF Call
<1>3. CASE Apply(h)
  <2> DEFINE path == ApplyPath(call[h].snap.status, call[h].answer)
  <2>1. Len(path) \in 1..3 /\ path[Len(path)] \in TaskStatuses
    BY <1>2, ApplyPathType DEF Snapshot
  <2>2. task' \in {task, SavedTask(call[h].snap, path, clock)}
    BY <1>3, Zenon DEF Apply
  <2>3. SavedTask(call[h].snap, path, clock) \in LocalTask
    BY <1>2, <2>1, SavedTaskType DEF TypeOK
  <2>4. task' \in LocalTask
    BY <2>2, <2>3, Zenon DEF TypeOK
  <2>5. [call[h] EXCEPT !.pc = "complete"] \in Call
    BY <1>1 DEF Call
  <2>6. call' \in [Handlers -> Call]
    <3>1. \/ call' = [call EXCEPT ![h] = [call[h] EXCEPT !.pc = "complete"]]
          \/ call' = [call EXCEPT ![h] = Idle]
      BY <1>3, Zenon DEF Apply, Moved
    <3> QED BY <1>1, <2>5, <3>1
  <2> QED BY <1>3, <2>4, <2>6 DEF Apply, TypeOK
<1>4. CASE Complete(h)
  <2>1. op' \in Operation
    BY <1>4 DEF Complete, TypeOK, Operation, States
  <2> QED BY <1>1, <1>4, <2>1 DEF Complete, Returned, Moved, TypeOK
<1>5. CASE SaveFailed(h)
  <2> DEFINE path == <<"working", "failed">>
  <2>1. Len(path) \in 1..3 /\ path[Len(path)] \in TaskStatuses
    BY DEF TaskStatuses
  <2>2. task' \in {task, SavedTask(call[h].snap, path, call[h].now)}
    BY <1>5, Zenon DEF SaveFailed
  <2>3. SavedTask(call[h].snap, path, call[h].now) \in LocalTask
    <3> HIDE DEF path
    <3> QED BY <1>2, <2>1, SavedTaskType
  <2>4. task' \in LocalTask
    BY <2>2, <2>3, Zenon DEF TypeOK
  <2> QED BY <1>1, <1>5, <2>4 DEF SaveFailed, Returned, Moved, TypeOK
<1> QED BY <1>3, <1>4, <1>5

LEMMA RecoveryType ==
  ASSUME TypeOK, NEW h \in Handlers,
         GiveUpSubmission(h) \/ ClaimRefused(h) \/ Claim(h)
  PROVE  TypeOK'
<1>1. call[h] \in Call /\ Idle \in Call /\ call \in [Handlers -> Call]
  BY CallType DEF TypeOK
<1>2. CASE GiveUpSubmission(h)
  <2>1. op' \in Operation
    BY <1>2 DEF GiveUpSubmission, TypeOK, Operation, States
  <2> QED BY <1>1, <1>2, <2>1 DEF GiveUpSubmission, Returned, Moved, TypeOK
<1>3. CASE ClaimRefused(h)
  <2>1. op' \in Operation
    <3> DEFINE exhausted == [op EXCEPT !.flagged = TRUE, !.next = 0]
               interrupted == [op EXCEPT !.state = "response_unknown",
                                         !.claimed = FALSE, !.started = 0,
                                         !.flagged = TRUE, !.next = 0]
    <3>1. op' \in {op, exhausted, interrupted}
      BY <1>3, Zenon DEF ClaimRefused
    <3>2. exhausted \in Operation
      BY DEF TypeOK, Operation
    <3>3. interrupted \in Operation
      BY DEF TypeOK, Operation, States
    <3> HIDE DEF exhausted, interrupted
    <3> QED BY <3>1, <3>2, <3>3 DEF TypeOK
  <2> QED BY <1>1, <1>3, <2>1 DEF ClaimRefused, Returned, Moved, TypeOK
<1>4. CASE Claim(h)
  <2> DEFINE c == call[h]
             pc == IF op.state = "not_sent" THEN "send" ELSE "await"
             now == c.now
             n == op.attempts + 1
             st == op.state
  <2>1. now \in Nat /\ n \in Nat /\ st \in States /\ pc \in {"send", "await"}
    BY <1>1 DEF Call, TypeOK, Operation
  <2>2. op' = [op EXCEPT !.claimed = TRUE, !.started = now, !.attempts = n]
    BY <1>4, Zenon DEF Claim
  <2>3. call' = [call EXCEPT ![h] = [c EXCEPT !.pc = pc, !.prior = st,
                                              !.attempt = n]]
    BY <1>4, Zenon DEF Claim, Moved
  <2>4. op' \in Operation
    <3> HIDE DEF now, n
    <3> QED BY <2>1, <2>2 DEF TypeOK, Operation
  <2>5. call' \in [Handlers -> Call]
    <3> HIDE DEF pc, n, st
    <3>1. [c EXCEPT !.pc = pc, !.prior = st, !.attempt = n] \in Call
      BY <1>1, <2>1 DEF Call
    <3> QED BY <1>1, <2>3, <3>1
  <2> QED BY <1>4, <2>4, <2>5 DEF Claim, TypeOK
<1> QED BY <1>2, <1>3, <1>4

LEMMA NextType ==
  ASSUME TypeOK, CallsConsistent, [Next]_vars
  PROVE  TypeOK'
<1>1. ASSUME NEW h \in Handlers, Step(h)
      PROVE  TypeOK'
  BY <1>1, ReserveType, BeginType, GatewayType, FailureType, RecordType,
     ApplyType, RecoveryType, Zenon DEF Step
<1> QED BY <1>1, EnvironmentType, StartType, Zenon DEF Next

-----------------------------------------------------------------------------
(* One send per denial. *)

SendInv == /\ CallsConsistent
           /\ OneInFlight
           /\ PristineMeansDenied
           /\ CountsAgree
           /\ OneSendPerDenial

GatewaySteps == {"send", "await", "fail", "record"}

(* A step that takes its call out of the gateway steps, or keeps it out,   *)
(* sends nothing; it may say that nothing was sent only if that was said   *)
(* before or the call in flight knows it.                                  *)
LEMMA Landing ==
  ASSUME TypeOK, SendInv, NEW h \in Handlers,
         call' = [call EXCEPT ![h] = call'[h]],
         call'[h].pc \notin GatewaySteps,
         sends' = sends, denied' = denied,
         Pristine' => Pristine \/ (sends = denied /\ InFlight(h))
  PROVE  SendInv'
<1>1. \A g \in Handlers : g # h => call'[g] = call[g]
  BY DEF TypeOK
<1>2. \A g \in Handlers : InFlight(g)' => g # h /\ InFlight(g)
  BY <1>1 DEF InFlight, GatewaySteps
<1>3. CallsConsistent'
  BY <1>1 DEF SendInv, CallsConsistent, GatewaySteps
<1>4. OneInFlight'
  BY <1>2 DEF SendInv, OneInFlight
<1>5. PristineMeansDenied'
  <2>1. CASE Pristine
    BY <1>2, <2>1 DEF SendInv, PristineMeansDenied
  <2>2. CASE sends = denied /\ InFlight(h)
    BY <1>2, <2>2 DEF SendInv, OneInFlight, PristineMeansDenied
  <2> QED BY <2>1, <2>2 DEF PristineMeansDenied
<1>6. CountsAgree'
  <2> SUFFICES ASSUME NEW g \in Handlers
               PROVE  /\ MayStillSend(g)' => MayStillSend(g)
                      /\ Awaiting(g)' => Awaiting(g)
    BY DEF SendInv, CountsAgree
  <2>1. InFlight(g)' => call'[g] = call[g] /\ InFlight(g)
    BY <1>1, <1>2
  <2> QED BY <2>1 DEF MayStillSend, Awaiting
<1>7. OneSendPerDenial'
  BY DEF SendInv, OneSendPerDenial
<1> QED BY <1>3, <1>4, <1>5, <1>6, <1>7 DEF SendInv

LEMMA InitSend == Init => SendInv
BY DEF Init, SendInv, CallsConsistent, OneInFlight, PristineMeansDenied,
       CountsAgree, Awaiting, MayStillSend, OneSendPerDenial, InFlight, Idle

LEMMA EnvironmentSend ==
  ASSUME TypeOK, SendInv, Tick \/ RemoteProgress \/ LocalMove \/ UNCHANGED vars
  PROVE  SendInv'
<1>1. op' = op /\ sends' = sends /\ denied' = denied /\ call' = call
  BY DEF Tick, RemoteProgress, LocalMove, vars
<1> QED BY <1>1 DEF SendInv, CallsConsistent, OneInFlight, PristineMeansDenied,
             CountsAgree, Awaiting, MayStillSend, OneSendPerDenial, InFlight, Pristine

LEMMA StartSend ==
  ASSUME TypeOK, SendInv, NEW h \in Handlers, Start(h) \/ Crash(h)
  PROVE  SendInv'
<1>1. call' = [call EXCEPT ![h] = call'[h]] /\ call'[h].pc \notin GatewaySteps
  <2>1. CASE Start(h)
    <3>1. PICK snap : call' = [call EXCEPT ![h] =
            [Idle EXCEPT !.pc = "reserve", !.now = clock, !.snap = snap]]
      BY <2>1, Zenon DEF Start, Moved
    <3> QED BY <3>1 DEF TypeOK, Idle, GatewaySteps
  <2>2. CASE Crash(h)
    BY <2>2 DEF Crash, TypeOK, Idle, GatewaySteps
  <2> QED BY <2>1, <2>2
<1>2. op' = op /\ sends' = sends /\ denied' = denied
  BY DEF Start, Crash
<1> QED BY <1>1, <1>2, Landing DEF Pristine

LEMMA ReserveSend ==
  ASSUME TypeOK, SendInv, NEW h \in Handlers,
         Reserve(h) \/ Reread(h) \/ BeginRefused(h)
  PROVE  SendInv'
<1>0. call[h] \in Call /\ op \in Operation
  BY CallType DEF TypeOK
<1>1. CASE Reserve(h)
  <2>1. PICK row \in Operation : op' = row /\ Moved(h, Resumed(call[h], row))
    <3>1. op' \in Operation
      BY <1>1, ReserveType DEF TypeOK
    <3> QED BY <1>1, <3>1, Zenon DEF Reserve
  <2>2. call' = [call EXCEPT ![h] = call'[h]] /\ call'[h].pc \notin GatewaySteps
    BY <1>0, <2>1, ResumedType DEF Moved, TypeOK, GatewaySteps
  <2>3. Pristine' => Pristine
    BY <1>1 DEF Reserve, Pristine
  <2>4. sends' = sends /\ denied' = denied
    BY <1>1 DEF Reserve
  <2> QED BY <2>2, <2>3, <2>4, Landing
<1>2. CASE Reread(h)
  <2>1. call' = [call EXCEPT ![h] = call'[h]] /\ call'[h].pc \notin GatewaySteps
    BY <1>0, <1>2, ResumedType DEF Reread, Moved, TypeOK, GatewaySteps
  <2>2. op' = op /\ sends' = sends /\ denied' = denied
    BY <1>2 DEF Reread
  <2> QED BY <2>1, <2>2, Landing DEF Pristine
<1>3. CASE BeginRefused(h)
  <2>1. call' = [call EXCEPT ![h] = call'[h]] /\ call'[h].pc \notin GatewaySteps
    BY <1>0, <1>3 DEF BeginRefused, Moved, Returned, TypeOK, Call, GatewaySteps, Idle
  <2>2. op' = op /\ sends' = sends /\ denied' = denied
    BY <1>3 DEF BeginRefused
  <2> QED BY <2>1, <2>2, Landing DEF Pristine
<1> QED BY <1>1, <1>2, <1>3

(* Steps that end the call, or take it out of the gateway, without writing *)
(* a state in which a resend is safe.                                      *)
LEMMA LandingStepsSend ==
  ASSUME TypeOK, SendInv, NEW h \in Handlers,
         Apply(h) \/ Complete(h) \/ SaveFailed(h) \/ Record(h)
           \/ GiveUpSubmission(h) \/ ClaimRefused(h)
  PROVE  SendInv'
<1>0. /\ call[h] \in Call /\ op \in Operation
      /\ call \in [Handlers -> Call] /\ Idle.pc = "idle"
  BY CallType DEF TypeOK, Idle
<1>1. sends' = sends /\ denied' = denied
  BY DEF Apply, Complete, SaveFailed, Record, GiveUpSubmission, ClaimRefused
<1>2. /\ call' = [call EXCEPT ![h] = call'[h]]
      /\ call'[h].pc \notin GatewaySteps
  <2>1. \/ call' = [call EXCEPT ![h] = Idle]
        \/ call' = [call EXCEPT ![h] = [call[h] EXCEPT !.pc = "complete"]]
        \/ \E st : call' = [call EXCEPT ![h] =
                              [call[h] EXCEPT !.pc = "apply", !.prior = st]]
    BY Zenon DEF Apply, Complete, SaveFailed, Record, GiveUpSubmission,
                 ClaimRefused, Moved, Returned
  <2> QED BY <1>0, <2>1 DEF Call, GatewaySteps
<1>3. Pristine' => Pristine
  <2>1. CASE Apply(h) \/ SaveFailed(h)
    BY <2>1 DEF Apply, SaveFailed, Pristine
  <2>2. CASE Complete(h)
    BY <1>0, <2>2 DEF Complete, Pristine, Operation
  <2>3. CASE Record(h)
    <3> DEFINE state == IF call[h].answer \in TerminalStatuses
                        THEN "remote_terminal_unrecorded" ELSE "remote_active"
    <3>1. op' = op \/ op'.state = state
      BY <1>0, <2>3 DEF Record, Operation
    <3> QED BY <3>1 DEF Pristine
  <2>4. CASE GiveUpSubmission(h)
    BY <1>0, <2>4 DEF GiveUpSubmission, Pristine, Operation
  <2>5. CASE ClaimRefused(h)
    BY <1>0, <2>5 DEF ClaimRefused, Pristine, Operation
  <2> QED BY <2>1, <2>2, <2>3, <2>4, <2>5
<1> QED BY <1>1, <1>2, <1>3, Landing

(* Only a call that the gateway told so says that nothing was sent.        *)
LEMMA FailureSend ==
  ASSUME TypeOK, SendInv, NEW h \in Handlers,
         FailSubmission(h) \/ FailRecovery(h)
  PROVE  SendInv'
<1>0. /\ call[h] \in Call /\ op \in Operation
      /\ call \in [Handlers -> Call] /\ Idle.pc = "idle"
  BY CallType DEF TypeOK, Idle
<1>1. sends' = sends /\ denied' = denied
  BY DEF FailSubmission, FailRecovery
<1>2. /\ call' = [call EXCEPT ![h] = call'[h]]
      /\ call'[h].pc \notin GatewaySteps
  <2>1. \/ call' = [call EXCEPT ![h] = Idle]
        \/ call' = [call EXCEPT ![h] = [call[h] EXCEPT !.pc = "save_failed"]]
    BY Zenon DEF FailSubmission, FailRecovery, Moved, Returned
  <2> QED BY <1>0, <2>1 DEF Call, GatewaySteps
<1>3. Pristine' => Pristine \/ (sends = denied /\ InFlight(h))
  <2>1. CASE FailSubmission(h)
    <3> SUFFICES ASSUME Pristine', ~Pristine PROVE sends = denied /\ InFlight(h)
      OBVIOUS
    <3>1. op' = SubmissionFailure(call[h])
      BY <2>1 DEF FailSubmission, Pristine
    <3>2. call[h].answer = "unsent"
      <4> DEFINE state == CASE call[h].answer = "unsent" -> "not_sent"
                            [] call[h].answer = "refused" -> "failed_terminal"
                            [] OTHER -> "response_unknown"
      <4>1. op'.state = state
        BY <1>0, <3>1 DEF SubmissionFailure, Operation
      <4>2. op'.state \in {"none", "reserved", "not_sent"}
        BY DEF Pristine
      <4> QED BY <4>1, <4>2
    <3>3. InFlight(h) /\ MayStillSend(h)
      BY <2>1, <3>2 DEF FailSubmission, InFlight, MayStillSend
    <3> QED BY <3>3 DEF SendInv, CountsAgree
  <2>2. CASE FailRecovery(h)
    <3> SUFFICES ASSUME Pristine', ~Pristine PROVE sends = denied /\ InFlight(h)
      OBVIOUS
    <3> DEFINE lost == call[h].prior = "not_sent" /\ call[h].answer # "unsent"
               state == IF lost THEN "response_unknown" ELSE call[h].prior
    <3>1. op' # op
      BY DEF Pristine
    <3>2. op'.state = state
      BY <1>0, <2>2, <3>1 DEF FailRecovery,
           MayHaveArrived, NeedsReconciliation, Operation
    <3>3. call[h].prior \in {"not_sent", "remote_active"}
      BY <2>2 DEF FailRecovery,
           MayHaveArrived, NeedsReconciliation, SendInv, CallsConsistent
    <3>4. call[h].prior = "not_sent" /\ call[h].answer = "unsent"
      BY <3>2, <3>3 DEF Pristine
    <3>5. InFlight(h) /\ MayStillSend(h)
      BY <2>2, <3>4 DEF FailRecovery,
           MayHaveArrived, NeedsReconciliation, InFlight, MayStillSend
    <3> QED BY <3>5 DEF SendInv, CountsAgree
  <2> QED BY <2>1, <2>2
<1> QED BY <1>1, <1>2, <1>3, Landing

(* The right to send is taken only where no message is out that was not    *)
(* denied, and no call is in flight: the new one is the only one.          *)
LEMMA TakeOff ==
  ASSUME TypeOK, SendInv, NEW h \in Handlers, Pristine,
         call' = [call EXCEPT ![h] = call'[h]],
         call'[h].pc = "send",
         call'[h].prior \in {"submitting", "not_sent"},
         sends' = sends, denied' = denied, ~Pristine'
  PROVE  SendInv'
<1>1. \A g \in Handlers : g # h => call'[g] = call[g]
  BY DEF TypeOK
<1>2. sends = denied /\ \A g \in Handlers : ~InFlight(g)
  BY DEF SendInv, PristineMeansDenied
<1>3. \A g \in Handlers : InFlight(g)' => g = h
  BY <1>1, <1>2 DEF InFlight
<1>4. CallsConsistent'
  BY <1>1 DEF SendInv, CallsConsistent
<1>5. OneInFlight' /\ PristineMeansDenied' /\ CountsAgree' /\ OneSendPerDenial'
  BY <1>2, <1>3 DEF OneInFlight, PristineMeansDenied, CountsAgree,
       MayStillSend, Awaiting, OneSendPerDenial, TypeOK
<1> QED BY <1>4, <1>5 DEF SendInv

LEMMA BeginSend ==
  ASSUME TypeOK, SendInv, NEW h \in Handlers, Begin(h)
  PROVE  SendInv'
<1>0. call[h] \in Call /\ op \in Operation /\ call \in [Handlers -> Call]
  BY CallType DEF TypeOK
<1>1. PICK snap : call' = [call EXCEPT ![h] = [call[h] EXCEPT
                    !.pc = "send", !.prior = "submitting", !.snap = snap]]
  BY Zenon DEF Begin, Moved
<1>2. call' = [call EXCEPT ![h] = call'[h]] /\ call'[h].pc = "send"
        /\ call'[h].prior \in {"submitting", "not_sent"}
  BY <1>0, <1>1 DEF Call
<1>3. Pristine /\ ~Pristine' /\ sends' = sends /\ denied' = denied
  BY <1>0 DEF Begin, Pristine, Operation
<1> QED BY <1>2, <1>3, TakeOff

(* A claim of a silent lookup sends nothing, and a claim of a resend finds *)
(* the row unclaimed.                                                      *)
LEMMA ClaimSend ==
  ASSUME TypeOK, SendInv, NEW h \in Handlers, Claim(h)
  PROVE  SendInv'
<1>0. call[h] \in Call /\ op \in Operation /\ call \in [Handlers -> Call]
  BY CallType DEF TypeOK
<1> DEFINE pc == IF op.state = "not_sent" THEN "send" ELSE "await"
<1>1. PICK n : call' = [call EXCEPT ![h] = [call[h] EXCEPT
                    !.pc = pc, !.prior = op.state, !.attempt = n]]
  BY Zenon DEF Claim, Moved
<1>2. call' = [call EXCEPT ![h] = call'[h]] /\ call'[h].pc = pc
        /\ call'[h].prior = op.state
  BY <1>0, <1>1 DEF Call
<1>3. sends' = sends /\ denied' = denied /\ op'.state = op.state /\ op'.claimed
  BY <1>0 DEF Claim, Operation
<1>4. CASE op.state = "not_sent"
  <2>1. Pristine /\ ~Pristine'
    BY <1>0, <1>3, <1>4 DEF Claim, ResendInterrupted, Pristine, Operation
  <2> QED BY <1>2, <1>3, <1>4, <2>1, TakeOff
<1>5. CASE op.state = "remote_active"
  <2>1. \A g \in Handlers : g # h => call'[g] = call[g]
    BY <1>2 DEF TypeOK
  <2>2. \A g \in Handlers : InFlight(g)' => g # h /\ InFlight(g)
    BY <1>2, <1>5, <2>1 DEF InFlight
  <2>3. CallsConsistent'
    BY <1>2, <1>5, <2>1 DEF SendInv, CallsConsistent
  <2>5. ~Pristine'
    BY <1>3, <1>5 DEF Pristine
  <2>6. CountsAgree'
    <3> SUFFICES ASSUME NEW g \in Handlers
                 PROVE  /\ MayStillSend(g)' => MayStillSend(g)
                        /\ Awaiting(g)' => Awaiting(g)
      BY <1>3 DEF SendInv, CountsAgree
    <3> QED BY <2>1, <2>2 DEF MayStillSend, Awaiting
  <2>7. OneInFlight' /\ PristineMeansDenied' /\ OneSendPerDenial'
    BY <1>3, <2>2, <2>5 DEF SendInv, OneInFlight, PristineMeansDenied,
                            OneSendPerDenial
  <2> QED BY <2>3, <2>6, <2>7 DEF SendInv
<1> QED BY <1>4, <1>5 DEF Claim, Recoverable

(* The one call in flight sends, and every message before was denied. *)
LEMMA SendSend ==
  ASSUME TypeOK, SendInv, NEW h \in Handlers, Send(h)
  PROVE  SendInv'
<1>0. /\ call[h] \in Call /\ op \in Operation /\ call \in [Handlers -> Call]
      /\ sends \in Nat /\ denied \in Nat
  BY CallType DEF TypeOK
<1>1. \A g \in Handlers : g # h => call'[g] = call[g]
  BY <1>0 DEF Send, Moved
<1>2. InFlight(h) /\ MayStillSend(h)
  BY DEF Send, InFlight, MayStillSend, SendInv, CallsConsistent
<1>3. ~Pristine' /\ sends = denied /\ denied' = denied
  BY <1>2 DEF Send, SendInv, PristineMeansDenied, CountsAgree, Pristine
<1>4. \A g \in Handlers : InFlight(g) => g = h
  BY <1>2 DEF SendInv, OneInFlight
<1>5. \/ /\ call'[h] = [call[h] EXCEPT !.pc = "await"]
         /\ sends' = denied + 1
      \/ /\ \E f \in {"unsent", "interrupted"} :
              call'[h] = [call[h] EXCEPT !.pc = "fail", !.answer = f]
         /\ sends' = denied
  <2>1. CASE sends' = sends + 1 /\ Moved(h, [call[h] EXCEPT !.pc = "await"])
    BY <1>0, <1>3, <2>1 DEF Moved
  <2>2. ASSUME NEW f \in {"unsent", "interrupted"}, sends' = sends,
               Moved(h, [call[h] EXCEPT !.pc = "fail", !.answer = f])
        PROVE  /\ call'[h] = [call[h] EXCEPT !.pc = "fail", !.answer = f]
               /\ sends' = denied
    BY <1>0, <1>3, <2>2 DEF Moved
  <2> QED BY <2>1, <2>2 DEF Send
<1>6. /\ call'[h].prior = call[h].prior
      /\ \/ call'[h].pc = "await" /\ sends' = denied + 1
         \/ call'[h].pc = "fail" /\ sends' = denied
  BY <1>0, <1>5 DEF Call
<1>7. CallsConsistent'
  BY <1>1, <1>2, <1>6 DEF SendInv, CallsConsistent, InFlight
<1>8. \A g \in Handlers : InFlight(g)' => g = h
  BY <1>1, <1>4 DEF InFlight
<1>9. OneInFlight' /\ PristineMeansDenied' /\ OneSendPerDenial'
  BY <1>0, <1>3, <1>6, <1>8 DEF OneInFlight, PristineMeansDenied, OneSendPerDenial
<1>10. CountsAgree'
  BY <1>0, <1>3, <1>6, <1>8 DEF CountsAgree, MayStillSend, Awaiting
<1> QED BY <1>7, <1>9, <1>10 DEF SendInv

(* An error that denies the awaited message leaves every one denied. *)
LEMMA AnswerSend ==
  ASSUME TypeOK, SendInv, NEW h \in Handlers, Answer(h)
  PROVE  SendInv'
<1>0. /\ call[h] \in Call /\ op \in Operation /\ call \in [Handlers -> Call]
      /\ sends \in Nat /\ denied \in Nat
  BY CallType DEF TypeOK
<1>1. \A g \in Handlers : g # h => call'[g] = call[g]
  BY <1>0 DEF Answer, Moved
<1>2. (Pristine' <=> Pristine) /\ sends' = sends /\ call[h].pc = "await"
  BY DEF Answer, Pristine
<1>3. \/ /\ remote \in RemoteStatuses /\ denied' = denied
         /\ call'[h] = [call[h] EXCEPT !.pc = "record", !.answer = remote]
      \/ \E f \in Failures :
           /\ call'[h] = [call[h] EXCEPT !.pc = "fail", !.answer = f]
           /\ denied' = IF f = "unsent" /\ call[h].prior # "remote_active"
                        THEN denied + 1 ELSE denied
  BY <1>0 DEF Answer, Answered, Moved, TypeOK
<1>4. /\ call'[h].prior = call[h].prior
      /\ call'[h].pc \in {"record", "fail"}
      /\ call'[h].pc = "record" => call'[h].answer \in RemoteStatuses
      /\ denied' = IF /\ call'[h].pc = "fail" /\ call'[h].answer = "unsent"
                      /\ call[h].prior # "remote_active"
                   THEN denied + 1 ELSE denied
  BY <1>0, <1>3 DEF Call
<1>5. CallsConsistent'
  BY <1>1, <1>2, <1>4 DEF SendInv, CallsConsistent
<1>6. \A g \in Handlers : InFlight(g)' => InFlight(g)
  BY <1>1, <1>2, <1>4 DEF InFlight
<1>7. OneInFlight'
  BY <1>6 DEF SendInv, OneInFlight
<1>8. CASE InFlight(h)
  <2>1. sends = denied + 1 /\ ~Pristine
    BY <1>2, <1>8 DEF SendInv, CountsAgree, Awaiting, PristineMeansDenied
  <2>2. \A g \in Handlers : InFlight(g)' => g = h
    BY <1>6, <1>8 DEF SendInv, OneInFlight
  <2>3. call[h].prior # "remote_active"
    BY <1>8 DEF InFlight
  <2>4. MayStillSend(h)' => sends' = denied'
    BY <1>0, <1>2, <1>4, <2>1, <2>3 DEF MayStillSend
  <2>5. ~Awaiting(h)'
    BY <1>4 DEF Awaiting
  <2>6. CountsAgree'
    BY <2>2, <2>4, <2>5 DEF CountsAgree, MayStillSend, Awaiting
  <2>7. PristineMeansDenied' /\ OneSendPerDenial'
    BY <1>0, <1>2, <1>4, <2>1 DEF PristineMeansDenied, OneSendPerDenial
  <2> QED BY <1>5, <1>7, <2>6, <2>7 DEF SendInv
<1>9. CASE ~InFlight(h)
  <2>1. call[h].prior = "remote_active"
    BY <1>2, <1>9 DEF SendInv, CallsConsistent, InFlight
  <2>2. denied' = denied
    BY <1>4, <2>1
  <2>3. \A g \in Handlers : InFlight(g)' => call'[g] = call[g] /\ InFlight(g)
    BY <1>1, <1>6, <1>9
  <2>5. CountsAgree'
    <3> SUFFICES ASSUME NEW g \in Handlers
                 PROVE  /\ MayStillSend(g)' => MayStillSend(g)
                        /\ Awaiting(g)' => Awaiting(g)
      BY <1>2, <2>2 DEF SendInv, CountsAgree
    <3> QED BY <2>3 DEF MayStillSend, Awaiting
  <2>6. PristineMeansDenied' /\ OneSendPerDenial'
    BY <1>2, <1>6, <2>2 DEF SendInv, PristineMeansDenied, OneSendPerDenial
  <2> QED BY <1>5, <1>7, <2>5, <2>6 DEF SendInv
<1> QED BY <1>8, <1>9

LEMMA NextSend ==
  ASSUME TypeOK, SendInv, [Next]_vars
  PROVE  SendInv'
<1>1. ASSUME NEW h \in Handlers, Step(h)
      PROVE  SendInv'
  BY <1>1, ReserveSend, LandingStepsSend, FailureSend, BeginSend, ClaimSend,
     SendSend, AnswerSend, Zenon DEF Step
<1> QED BY <1>1, EnvironmentSend, StartSend, Zenon DEF Next

-----------------------------------------------------------------------------
(* What a step may do to the row. *)

RowInv == ColumnsConsistent /\ FlagConsistent

FlagKept ==
    op.flagged =>
        /\ op'.flagged
        /\ op'.remote = op.remote
        /\ op'.state # op.state =>
             op.state = "not_sent" /\ op'.state = "response_unknown"

OutcomeKept ==
    /\ op.state \in Recorded => op'.state \in Recorded /\ op'.remote = op.remote
    /\ op.state = "failed_terminal" => op'.state = "failed_terminal"

RowStep == RowInv' /\ FlagKept /\ OutcomeKept

LEMMA InitRow == Init => RowInv
BY DEF Init, NoOperation, RowInv, ColumnsConsistent, FlagConsistent, Recorded,
       Recoverable

LEMMA RowUnchanged ==
  ASSUME RowInv, op' = op
  PROVE  RowStep
BY DEF RowStep, RowInv, FlagKept, OutcomeKept, ColumnsConsistent,
       FlagConsistent, Recoverable

LEMMA SubmissionRow ==
  ASSUME TypeOK, RowInv, NEW h \in Handlers,
         Reserve(h) \/ Begin(h) \/ FailSubmission(h) \/ GiveUpSubmission(h)
  PROVE  RowStep
<1>0. op \in Operation
  BY DEF TypeOK
<1>1. CASE op' = op
  BY <1>1, RowUnchanged
<1>2. CASE Reserve(h) /\ op' # op
  <2>1. op.state = "none" /\ ~op.flagged
    BY <1>2 DEF Reserve, RowInv, FlagConsistent
  <2>2. /\ op'.state = "reserved" /\ op'.remote = "none" /\ ~op'.claimed
        /\ ~op'.flagged
    BY <1>2, <2>1 DEF Reserve, NoOperation
  <2> QED BY <2>1, <2>2 DEF RowStep, RowInv, FlagKept, OutcomeKept,
               ColumnsConsistent, FlagConsistent, Recorded, Recoverable
<1>3. CASE Begin(h)
  <2>1. /\ op.state = "reserved" /\ ~op.flagged /\ ~op.claimed
        /\ op.remote = "none"
    BY <1>3 DEF Begin, RowInv, FlagConsistent, ColumnsConsistent, Recoverable,
                Recorded
  <2>2. /\ op'.state = "submitting" /\ op'.remote = "none" /\ ~op'.claimed
        /\ ~op'.flagged
    BY <1>0, <1>3, <2>1 DEF Begin, Operation
  <2> QED BY <2>1, <2>2 DEF RowStep, RowInv, FlagKept, OutcomeKept,
               ColumnsConsistent, FlagConsistent, Recorded, Recoverable
<1>4. CASE (FailSubmission(h) \/ GiveUpSubmission(h)) /\ op' # op
  <2>1. /\ op.state = "submitting" /\ ~op.flagged /\ ~op.claimed
        /\ op.remote = "none"
    BY <1>4 DEF FailSubmission, GiveUpSubmission, RowInv, FlagConsistent,
                ColumnsConsistent, Recoverable, Recorded
  <2>2. /\ op'.remote = "none" /\ ~op'.claimed
        /\ op'.state \in {"not_sent", "failed_terminal", "response_unknown"}
        /\ op'.flagged => op'.state = "response_unknown" /\ op'.next = 0
    <3>1. CASE FailSubmission(h)
      <4> DEFINE state == CASE call[h].answer = "unsent" -> "not_sent"
                            [] call[h].answer = "refused" -> "failed_terminal"
                            [] OTHER -> "response_unknown"
                 next == IF state = "not_sent"
                         THEN NextRecoveryAt(call[h].now, 1) ELSE 0
      <4>1. op' = [op EXCEPT !.state = state, !.next = next,
                             !.flagged = state = "response_unknown"]
        BY <1>4, <3>1, Zenon DEF FailSubmission, SubmissionFailure
      <4>2. state \in {"not_sent", "failed_terminal", "response_unknown"}
        OBVIOUS
      <4>3. state # "not_sent" => next = 0
        OBVIOUS
      <4> HIDE DEF state, next
      <4> QED BY <1>0, <2>1, <4>1, <4>2, <4>3 DEF Operation
    <3>2. CASE GiveUpSubmission(h)
      BY <1>0, <1>4, <2>1, <3>2 DEF GiveUpSubmission, Operation
    <3> QED BY <1>4, <3>1, <3>2
  <2> QED BY <2>1, <2>2 DEF RowStep, RowInv, FlagKept, OutcomeKept,
               ColumnsConsistent, FlagConsistent, Recorded, Recoverable
<1> QED BY <1>1, <1>2, <1>3, <1>4

LEMMA RecordRow ==
  ASSUME TypeOK, CallsConsistent, RowInv, NEW h \in Handlers,
         Record(h) \/ Complete(h)
  PROVE  RowStep
<1>0. op \in Operation
  BY DEF TypeOK
<1>1. CASE op' = op
  BY <1>1, RowUnchanged
<1>2. CASE Record(h) /\ op' # op
  <2> DEFINE answer == call[h].answer
             final == answer \in TerminalStatuses
             state == IF final THEN "remote_terminal_unrecorded"
                      ELSE "remote_active"
  <2>1. /\ AcceptsAnswer(op)
        /\ op'.state = state /\ op'.remote = answer
        /\ ~op'.claimed /\ ~op'.flagged
    BY <1>0, <1>2 DEF Record, Operation
  <2>2. /\ answer \in RemoteStatuses
        /\ final \/ answer \in OngoingStatuses
    BY <1>2, DelegationAssumption DEF Record, CallsConsistent
  <2>3. answer # "none"
    BY <2>2 DEF TerminalStatuses, OngoingStatuses
  <2>4. ~op.flagged /\ op.state \in {"submitting", "not_sent", "remote_active"}
    BY <2>1 DEF AcceptsAnswer
  <2> HIDE DEF answer
  <2> QED BY <2>1, <2>2, <2>3, <2>4 DEF RowStep, RowInv, FlagKept, OutcomeKept,
               ColumnsConsistent, FlagConsistent, Recorded, Recoverable
<1>3. CASE Complete(h) /\ op' # op
  <2>1. /\ op.state = "remote_terminal_unrecorded"
        /\ ~op.flagged /\ ~op.claimed
        /\ op.remote # "none" /\ op.remote \in TerminalStatuses
    BY <1>3 DEF Complete, RowInv, FlagConsistent, ColumnsConsistent,
                Recoverable, Recorded
  <2>2. /\ op'.state = "completed" /\ op'.remote = op.remote
        /\ ~op'.claimed /\ ~op'.flagged
    BY <1>0, <1>3, <2>1 DEF Complete, Operation
  <2> QED BY <2>1, <2>2 DEF RowStep, RowInv, FlagKept, OutcomeKept,
               ColumnsConsistent, FlagConsistent, Recorded, Recoverable
<1> QED BY <1>1, <1>2, <1>3

LEMMA RecoveryRow ==
  ASSUME TypeOK, CallsConsistent, RowInv, NEW h \in Handlers,
         FailRecovery(h) \/ ClaimRefused(h) \/ Claim(h)
  PROVE  RowStep
<1>0. op \in Operation
  BY DEF TypeOK
<1>1. CASE op' = op
  BY <1>1, RowUnchanged
<1>2. CASE FailRecovery(h) /\ op' # op
  <2> DEFINE c == call[h]
             lost == c.prior = "not_sent" /\ c.answer # "unsent"
             flag == lost \/ c.answer = "refused"
             state == IF lost THEN "response_unknown" ELSE c.prior
             next == IF flag THEN 0 ELSE NextRecoveryAt(c.now, c.attempt)
  <2>1. /\ op.state = c.prior /\ op.claimed /\ (op.flagged => flag)
        /\ op' = [op EXCEPT !.state = state, !.claimed = FALSE,
                            !.started = 0, !.flagged = flag, !.next = next]
    BY <1>2, Zenon DEF FailRecovery, MayHaveArrived, NeedsReconciliation
  <2>2. op.state \in {"not_sent", "remote_active"}
    BY <2>1 DEF RowInv, ColumnsConsistent, Recoverable
  <2>3. /\ flag \in BOOLEAN
        /\ flag => next = 0
        /\ state # op.state =>
             op.state = "not_sent" /\ state = "response_unknown" /\ flag
        /\ state \in {"not_sent", "remote_active", "response_unknown"}
    BY <2>1, <2>2
  <2> HIDE DEF flag, state, next
  <2>4. /\ op'.state = state /\ op'.remote = op.remote /\ ~op'.claimed
        /\ op'.flagged = flag /\ op'.next = next
    BY <1>0, <2>1 DEF Operation
  <2> QED BY <2>1, <2>2, <2>3, <2>4 DEF RowStep, RowInv, FlagKept, OutcomeKept,
               ColumnsConsistent, FlagConsistent, Recorded, Recoverable
<1>3. CASE ClaimRefused(h) /\ op' # op
  <2>1. op.state \in {"not_sent", "remote_active"}
    BY <1>3 DEF ClaimRefused, Recoverable
  <2>2. /\ op'.remote = op.remote /\ op'.flagged /\ op'.next = 0
        /\ \/ op'.state = op.state
           \/ /\ op.state = "not_sent" /\ op'.state = "response_unknown"
              /\ ~op'.claimed
    BY <1>0, <1>3 DEF ClaimRefused, ResendInterrupted, Operation
  <2> QED BY <2>1, <2>2 DEF RowStep, RowInv, FlagKept, OutcomeKept,
               ColumnsConsistent, FlagConsistent, Recorded, Recoverable
<1>4. CASE Claim(h)
  <2>1. op.state \in {"not_sent", "remote_active"} /\ ~op.flagged
    BY <1>4 DEF Claim, Recoverable, Exhausted
  <2>2. op'.remote = op.remote /\ op'.state = op.state /\ ~op'.flagged
    BY <1>0, <1>4, <2>1 DEF Claim, Operation
  <2> QED BY <2>1, <2>2 DEF RowStep, RowInv, FlagKept, OutcomeKept,
               ColumnsConsistent, FlagConsistent, Recorded, Recoverable
<1> QED BY <1>1, <1>2, <1>3, <1>4

LEMMA NextRow ==
  ASSUME TypeOK, CallsConsistent, RowInv, [Next]_vars
  PROVE  RowStep
<1>1. CASE op' = op
  BY <1>1, RowUnchanged
<1>2. ASSUME NEW h \in Handlers, Step(h), op' # op
      PROVE  RowStep
  <2>1. \/ Reserve(h) \/ Begin(h) \/ FailSubmission(h) \/ GiveUpSubmission(h)
        \/ Record(h) \/ Complete(h)
        \/ FailRecovery(h) \/ ClaimRefused(h) \/ Claim(h)
    BY <1>2, Zenon DEF Step, BeginRefused, Reread, Send, Answer, Apply, SaveFailed
  <2> QED BY <2>1, SubmissionRow, RecordRow, RecoveryRow, Zenon
<1>3. ASSUME op' # op
      PROVE  \E h \in Handlers : Step(h)
  BY <1>3, Zenon DEF Next, vars, Tick, RemoteProgress, LocalMove, Start, Crash
<1> QED BY <1>1, <1>2, <1>3, Zenon

-----------------------------------------------------------------------------
(* The Task follows the record. *)

(* Where a path that moves a Task ends. *)
LEMMA ApplyPathEnd ==
  ASSUME NEW s \in TaskStatuses, NEW target,
         Len(ApplyPath(s, target)) > 1,
         NEW last, last = ApplyPath(s, target)[Len(ApplyPath(s, target))]
  PROVE  \/ last \in {"completed", "cancelled", "failed"} /\ target = last
         \/ last = "failed" /\ target = "rejected"
         \/ last \in {"input_required", "working"}
<1> DEFINE resumed == IF s = "input_required" /\ target # "input_required"
                      THEN <<s, "working">> ELSE <<s>>
           working == resumed[Len(resumed)] = "working"
<1>1. /\ resumed \in Seq(TaskStatuses)
      /\ Len(resumed) > 1 => resumed[Len(resumed)] = "working"
  <2>1. CASE resumed = <<s, "working">>
    <3>1. "working" \in TaskStatuses
      BY DEF TaskStatuses
    <3> HIDE DEF resumed
    <3> QED BY <2>1, <3>1
  <2>2. CASE resumed = <<s>>
    <3> HIDE DEF resumed
    <3> QED BY <2>2
  <2> QED BY <2>1, <2>2, Zenon
<1>2. ASSUME NEW x \in TaskStatuses
      PROVE  Append(resumed, x)[Len(Append(resumed, x))] = x
  <2> HIDE DEF resumed
  <2> QED BY <1>1
<1>3. \/ /\ target \in TerminalStatuses \ {"rejected"}
         /\ ApplyPath(s, target) = Append(resumed, target)
      \/ /\ target = "input_required"
         /\ ApplyPath(s, target) = Append(resumed, target)
      \/ /\ target = "rejected"
         /\ ApplyPath(s, target) = Append(resumed, "failed")
      \/ ApplyPath(s, target) = resumed
  <2>1. ApplyPath(s, target) =
          CASE working /\ target \in TerminalStatuses \ {"rejected"} ->
                  Append(resumed, target)
            [] working /\ target = "input_required" -> Append(resumed, target)
            [] working /\ target = "rejected" -> Append(resumed, "failed")
            [] OTHER -> resumed
    BY Zenon DEF ApplyPath
  <2> HIDE DEF resumed, working
  <2> QED BY <2>1
<1>4. TerminalStatuses \cup {"input_required"} \subseteq TaskStatuses
  BY DEF TerminalStatuses, TaskStatuses
<1> HIDE DEF resumed
<1>5. CASE ApplyPath(s, target) = resumed
  BY <1>1, <1>5
<1>6. CASE /\ target \in TerminalStatuses \ {"rejected"}
           /\ ApplyPath(s, target) = Append(resumed, target)
  <2>1. last = target
    BY <1>2, <1>4, <1>6
  <2> QED BY <1>6, <2>1 DEF TerminalStatuses
<1>7. CASE target = "input_required" /\ ApplyPath(s, target) = Append(resumed, target)
  BY <1>2, <1>4, <1>7
<1>8. CASE target = "rejected" /\ ApplyPath(s, target) = Append(resumed, "failed")
  <2>1. "failed" \in TaskStatuses
    BY DEF TaskStatuses
  <2> QED BY <1>2, <1>8, <2>1
<1> QED BY <1>3, <1>5, <1>6, <1>7, <1>8

FollowInv == AppliesRecord /\ TaskFollowsRecord

LEMMA InitFollow == Init => FollowInv
BY DEF Init, FollowInv, AppliesRecord, TaskFollowsRecord, Idle, NewTask

(* A call comes to the save steps only with what the row says.             *)
LEMMA ResumedFollows ==
  ASSUME NEW c \in Call, NEW row \in Operation
  PROVE  /\ Resumed(c, row).pc = "apply" =>
              row.state \in Recorded /\ row.remote = Resumed(c, row).answer
         /\ Resumed(c, row).pc = "save_failed" => row.state = "failed_terminal"
<1>1. CASE row.state \in Recorded
  <2>1. Resumed(c, row) = [c EXCEPT !.pc = "apply", !.answer = row.remote,
                                    !.prior = row.state]
    BY <1>1 DEF Resumed, HasOutcome, Recorded
  <2> QED BY <1>1, <2>1 DEF Call
<1>2. CASE row.state \notin Recorded
  <2>1. \/ Resumed(c, row) \in {[c EXCEPT !.pc = "claim"], Idle,
                                [c EXCEPT !.pc = "stale"],
                                [c EXCEPT !.pc = "begin"]}
        \/ /\ row.state = "failed_terminal"
           /\ Resumed(c, row) = [c EXCEPT !.pc = "save_failed"]
    BY <1>2, Zenon DEF Resumed, HasOutcome
  <2> QED BY <2>1 DEF Call, Idle
<1> QED BY <1>1, <1>2

LEMMA NextApplies ==
  ASSUME TypeOK, CallsConsistent, RowInv, AppliesRecord, [Next]_vars
  PROVE  AppliesRecord'
<1>0. OutcomeKept
  BY NextRow DEF RowStep
<1>1. \A g \in Handlers : call'[g] = call[g] =>
        (/\ call'[g].pc = "apply" /\ call'[g].answer \in TerminalStatuses =>
                op'.state \in Recorded /\ op'.remote = call'[g].answer
         /\ call'[g].pc = "save_failed" => op'.state = "failed_terminal")
  BY <1>0 DEF OutcomeKept, AppliesRecord
<1>2. ASSUME NEW h \in Handlers, Start(h) \/ Step(h) \/ Crash(h)
      PROVE  /\ \A g \in Handlers : g # h => call'[g] = call[g]
             /\ call'[h].pc = "apply" /\ call'[h].answer \in TerminalStatuses =>
                  op'.state \in Recorded /\ op'.remote = call'[h].answer
             /\ call'[h].pc = "save_failed" => op'.state = "failed_terminal"
  <2>0. /\ call[h] \in Call /\ op \in Operation /\ op' \in Operation
        /\ call \in [Handlers -> Call] /\ Idle.pc = "idle"
    BY CallType, NextType DEF TypeOK, Idle
  <2>1. \A g \in Handlers : g # h => call'[g] = call[g]
    BY <1>2, <2>0 DEF Start, Crash, Step, Reserve, Begin, BeginRefused, Reread,
       Send, Answer, FailSubmission, FailRecovery,
            MayHaveArrived, NeedsReconciliation, Record, Apply, Complete,
       SaveFailed, GiveUpSubmission, ClaimRefused, Claim, Moved, Returned
  <2>2. CASE Reserve(h) \/ Reread(h)
    <3>1. call'[h] = Resumed(call[h], op')
      BY <2>0, <2>2 DEF Reserve, Reread, Moved
    <3> QED BY <2>0, <2>1, <3>1, ResumedFollows
  <2>3. CASE Record(h)
    <3> DEFINE final == call[h].answer \in TerminalStatuses
    <3>1. CASE ~AcceptsAnswer(op)
      BY <2>0, <2>1, <2>3, <3>1 DEF Record, Returned, Moved
    <3>2. CASE AcceptsAnswer(op)
      <4> DEFINE state == IF final THEN "remote_terminal_unrecorded"
                          ELSE "remote_active"
      <4>1. op'.state = state /\ op'.remote = call[h].answer
        BY <2>0, <2>3, <3>2 DEF Record, Operation
      <4>2. call'[h].pc = "apply" /\ call'[h].answer = call[h].answer
        BY <2>0, <2>3, <3>2 DEF Record, Moved, Call
      <4> QED BY <2>1, <4>1, <4>2 DEF Recorded
    <3> QED BY <3>1, <3>2
  <2>4. CASE FailSubmission(h)
    <3>1. CASE call'[h] = Idle
      BY <2>0, <2>1, <3>1
    <3>2. CASE /\ op' = SubmissionFailure(call[h])
               /\ call[h].answer = "refused"
               /\ call'[h] = [call[h] EXCEPT !.pc = "save_failed"]
      BY <2>0, <2>1, <3>2 DEF SubmissionFailure, Operation, Call
    <3> QED BY <2>0, <2>4, <3>1, <3>2 DEF FailSubmission, Returned, Moved
  <2>5. CASE ~(Reserve(h) \/ Reread(h) \/ Record(h) \/ FailSubmission(h))
    <3>1. call'[h].pc \notin {"apply", "save_failed"}
      <4>1. CASE Start(h)
        <5>1. PICK snap : call' = [call EXCEPT ![h] =
                [Idle EXCEPT !.pc = "reserve", !.now = clock, !.snap = snap]]
          BY <4>1, Zenon DEF Start, Moved
        <5> QED BY <2>0, <5>1 DEF Idle
      <4>2. CASE Begin(h)
        <5>1. PICK snap : call' = [call EXCEPT ![h] = [call[h] EXCEPT
                !.pc = "send", !.prior = "submitting", !.snap = snap]]
          BY <4>2, Zenon DEF Begin, Moved
        <5> QED BY <2>0, <5>1 DEF Call
      <4>3. CASE Send(h) \/ Answer(h)
        <5>1. \/ call'[h] = [call[h] EXCEPT !.pc = "await"]
              \/ call'[h] = [call[h] EXCEPT !.pc = "record", !.answer = remote]
              \/ \E f : call'[h] = [call[h] EXCEPT !.pc = "fail", !.answer = f]
          BY <2>0, <4>3 DEF Send, Answer, Answered, Moved
        <5> QED BY <2>0, <5>1 DEF Call
      <4>4. CASE Claim(h)
        <5> DEFINE pc == IF op.state = "not_sent" THEN "send" ELSE "await"
        <5>1. PICK n : call' = [call EXCEPT ![h] = [call[h] EXCEPT
                         !.pc = pc, !.prior = op.state, !.attempt = n]]
          BY <4>4, Zenon DEF Claim, Moved
        <5> QED BY <2>0, <5>1 DEF Call
      <4>5. CASE Crash(h) \/ BeginRefused(h) \/ FailRecovery(h) \/ Apply(h)
                   \/ Complete(h) \/ SaveFailed(h) \/ GiveUpSubmission(h)
                   \/ ClaimRefused(h)
        <5>1. \/ call'[h] = Idle
              \/ call'[h] = [call[h] EXCEPT !.pc = "reread"]
              \/ call'[h] = [call[h] EXCEPT !.pc = "complete"]
          BY <2>0, <4>5 DEF Crash, BeginRefused, FailRecovery,
               MayHaveArrived, NeedsReconciliation, Apply, Complete,
             SaveFailed, GiveUpSubmission, ClaimRefused, Moved, Returned
        <5> QED BY <2>0, <5>1 DEF Call
      <4> QED BY <1>2, <2>5, <4>1, <4>2, <4>3, <4>4, <4>5, Zenon DEF Step
    <3> QED BY <2>1, <3>1
  <2> QED BY <2>2, <2>3, <2>4, <2>5
<1>3. ASSUME call' = call
      PROVE  AppliesRecord'
  BY <1>1, <1>3 DEF AppliesRecord
<1>4. ASSUME NEW h \in Handlers, Start(h) \/ Step(h) \/ Crash(h)
      PROVE  AppliesRecord'
  BY <1>1, <1>2, <1>4 DEF AppliesRecord
<1> QED BY <1>3, <1>4, Zenon DEF Next, vars, Tick, RemoteProgress, LocalMove

(* Only the two save steps put the bridge's name on a finished Task.       *)
LEMMA NextTaskFollows ==
  ASSUME TypeOK, CallsConsistent, RowInv, FollowInv, [Next]_vars
  PROVE  TaskFollowsRecord'
<1>0. OutcomeKept
  BY NextRow DEF RowStep
<1>1. CASE task' = task
  BY <1>0, <1>1 DEF FollowInv, TaskFollowsRecord, OutcomeKept
<1>2. CASE LocalMove
  <2>1. task'.by = "assignee"
    BY <1>2 DEF LocalMove
  <2> QED BY <2>1 DEF TaskFollowsRecord
<1>3. ASSUME NEW h \in Handlers, Begin(h)
      PROVE  TaskFollowsRecord'
  <2>1. task'.status = "working"
    BY <1>3 DEF Begin
  <2> QED BY <2>1 DEF TaskFollowsRecord
<1>4. ASSUME NEW h \in Handlers, SaveFailed(h), task' # task
      PROVE  TaskFollowsRecord'
  <2>1. task'.status = "failed"
    BY <1>4 DEF SaveFailed, SavedTask
  <2>2. op' = op /\ op.state = "failed_terminal"
    BY <1>4 DEF SaveFailed, FollowInv, AppliesRecord
  <2> QED BY <2>1, <2>2 DEF TaskFollowsRecord
<1>5. ASSUME NEW h \in Handlers, Apply(h), task' # task
      PROVE  TaskFollowsRecord'
  <2> DEFINE s == call[h].snap.status
             target == call[h].answer
             path == ApplyPath(s, target)
             last == path[Len(path)]
  <2>1. s \in TaskStatuses
    BY CallType DEF Call, Snapshot
  <2>2. Len(path) > 1 /\ task' = SavedTask(call[h].snap, path, clock)
    BY <1>5, Zenon DEF Apply
  <2>3. task'.status = last
    BY <2>2 DEF SavedTask
  <2>4. \/ last \in {"completed", "cancelled", "failed"} /\ target = last
        \/ last = "failed" /\ target = "rejected"
        \/ last \in {"input_required", "working"}
    BY <2>1, <2>2, ApplyPathEnd
  <2>5. op' = op
    BY <1>5 DEF Apply
  <2>6. target \in TerminalStatuses => op.state \in Recorded /\ op.remote = target
    BY <1>5 DEF Apply, FollowInv, AppliesRecord
  <2> HIDE DEF last, target, path
  <2> QED BY <2>3, <2>4, <2>5, <2>6 DEF TaskFollowsRecord, TerminalStatuses
<1>6. ASSUME NEW h \in Handlers, Start(h) \/ Step(h) \/ Crash(h)
      PROVE  task' = task \/ Begin(h) \/ SaveFailed(h) \/ Apply(h)
  BY <1>6, Zenon DEF Start, Crash, Step, Reserve, BeginRefused, Reread, Send,
     Answer, FailSubmission, FailRecovery,
          MayHaveArrived, NeedsReconciliation, Record, Complete, GiveUpSubmission,
     ClaimRefused, Claim
<1>7. task' # task => LocalMove \/ \E h \in Handlers : Start(h) \/ Step(h) \/ Crash(h)
  BY Zenon DEF Next, vars, Tick, RemoteProgress
<1> QED BY <1>1, <1>2, <1>3, <1>4, <1>5, <1>6, <1>7, Zenon

-----------------------------------------------------------------------------
(* Towards OneShot: what is known of a message that has left. *)

(* The steps after which a call is not at the gateway. *)
LEMMA AwayFromGateway ==
  ASSUME TypeOK, NEW h \in Handlers,
         \/ Start(h) \/ Crash(h) \/ Reserve(h) \/ Reread(h) \/ BeginRefused(h)
         \/ FailSubmission(h) \/ FailRecovery(h) \/ Record(h) \/ Apply(h)
         \/ Complete(h) \/ SaveFailed(h) \/ GiveUpSubmission(h)
         \/ ClaimRefused(h)
  PROVE  /\ \A g \in Handlers : g # h => call'[g] = call[g]
         /\ call'[h].pc \notin GatewaySteps
         /\ sends' = sends
<1>0. /\ call[h] \in Call /\ op \in Operation
      /\ call \in [Handlers -> Call] /\ Idle.pc = "idle"
  BY CallType DEF TypeOK, Idle
<1>1. CASE Start(h)
  <2>1. PICK snap : call' = [call EXCEPT ![h] =
          [Idle EXCEPT !.pc = "reserve", !.now = clock, !.snap = snap]]
    BY <1>1, Zenon DEF Start, Moved
  <2> QED BY <1>0, <1>1, <2>1 DEF Start, Idle, GatewaySteps
<1>2. CASE Crash(h)
  BY <1>0, <1>2 DEF Crash, GatewaySteps
<1>3. CASE Reserve(h)
  <2>1. PICK row \in Operation : op' = row /\ Moved(h, Resumed(call[h], row))
    <3>1. op' \in Operation
      BY <1>3, ReserveType DEF TypeOK
    <3> QED BY <1>3, <3>1, Zenon DEF Reserve
  <2>2. sends' = sends
    BY <1>3 DEF Reserve
  <2> QED BY <1>0, <2>1, <2>2, ResumedType DEF Moved, GatewaySteps
<1>4. CASE Reread(h)
  BY <1>0, <1>4, ResumedType DEF Reread, Moved, GatewaySteps
<1>5. CASE BeginRefused(h)
  BY <1>0, <1>5 DEF BeginRefused, Moved, Returned, Call, GatewaySteps
<1>6. CASE FailSubmission(h) \/ FailRecovery(h)
  <2>1. \/ call' = [call EXCEPT ![h] = Idle]
        \/ call' = [call EXCEPT ![h] = [call[h] EXCEPT !.pc = "save_failed"]]
    BY <1>6, Zenon DEF FailSubmission, FailRecovery, Moved, Returned
  <2>2. sends' = sends
    BY <1>6 DEF FailSubmission, FailRecovery
  <2> QED BY <1>0, <2>1, <2>2 DEF Call, GatewaySteps
<1>7. CASE \/ Record(h) \/ Apply(h) \/ Complete(h) \/ SaveFailed(h)
           \/ GiveUpSubmission(h) \/ ClaimRefused(h)
  <2>1. \/ call' = [call EXCEPT ![h] = Idle]
        \/ call' = [call EXCEPT ![h] = [call[h] EXCEPT !.pc = "complete"]]
        \/ \E st : call' = [call EXCEPT ![h] =
                              [call[h] EXCEPT !.pc = "apply", !.prior = st]]
    BY <1>7, Zenon DEF Record, Apply, Complete, SaveFailed, GiveUpSubmission,
                       ClaimRefused, Moved, Returned
  <2>2. sends' = sends
    BY <1>7 DEF Record, Apply, Complete, SaveFailed, GiveUpSubmission,
                ClaimRefused
  <2> QED BY <1>0, <2>1, <2>2 DEF Call, GatewaySteps
<1> QED BY <1>1, <1>2, <1>3, <1>4, <1>5, <1>6, <1>7

(* What a step does to the row's state, and when it tells of an answer.    *)
RowMoves ==
    \/ op'.state = op.state
    \/ op.state = "none" /\ op'.state = "reserved"
    \/ op.state = "reserved" /\ op'.state = "submitting"
    \/ /\ op.state \in {"submitting", "not_sent"}
       /\ \/ op'.state \in {"not_sent", "response_unknown"}
          \/ op'.state \in Settled /\ sends > 0
    \/ op.state \in Settled /\ op'.state \in Settled

LEMMA NextRowMoves ==
  ASSUME TypeOK, RowInv, SentBefore, [Next]_vars
  PROVE  RowMoves
<1>0. op \in Operation
  BY DEF TypeOK
<1>1. CASE op' = op
  BY <1>1 DEF RowMoves
<1>2. ASSUME NEW h \in Handlers, Step(h), op' # op
      PROVE  RowMoves
  <2>1. CASE Reserve(h)
    <3>1. op.state = "none" /\ op'.state = "reserved"
      BY <1>2, <2>1 DEF Reserve, NoOperation
    <3> QED BY <3>1 DEF RowMoves
  <2>2. CASE Begin(h)
    <3>1. op.state = "reserved" /\ op'.state = "submitting"
      BY <1>0, <2>2 DEF Begin, Operation
    <3> QED BY <3>1 DEF RowMoves
  <2>3. CASE FailSubmission(h)
    <3> DEFINE state == CASE call[h].answer = "unsent" -> "not_sent"
                          [] call[h].answer = "refused" -> "failed_terminal"
                          [] OTHER -> "response_unknown"
    <3>1. op.state = "submitting" /\ op' = SubmissionFailure(call[h])
          /\ call[h].pc = "fail"
      BY <1>2, <2>3 DEF FailSubmission
    <3>2. op'.state = state
      BY <1>0, <3>1 DEF SubmissionFailure, Operation
    <3>3. CASE state = "failed_terminal"
      <4>1. call[h].answer = "refused"
        BY <3>3
      <4>2. sends > 0
        BY <3>1, <4>1 DEF SentBefore, KnowsSent
      <4> QED BY <3>1, <3>2, <3>3, <4>2 DEF RowMoves, Settled
    <3>4. CASE state # "failed_terminal"
      <4>1. state \in {"not_sent", "response_unknown"}
        BY <3>4
      <4> QED BY <3>1, <3>2, <4>1 DEF RowMoves
    <3> QED BY <3>3, <3>4
  <2>4. CASE GiveUpSubmission(h)
    <3>1. op.state = "submitting" /\ op'.state = "response_unknown"
      BY <1>0, <1>2, <2>4 DEF GiveUpSubmission, Operation
    <3> QED BY <3>1 DEF RowMoves
  <2>5. CASE Record(h)
    <3> DEFINE state == IF call[h].answer \in TerminalStatuses
                        THEN "remote_terminal_unrecorded"
                        ELSE "remote_active"
    <3>1. /\ AcceptsAnswer(op) /\ op'.state = state /\ call[h].pc = "record"
      BY <1>0, <1>2, <2>5 DEF Record, Operation
    <3>2. op.state \in {"submitting", "not_sent"} \cup Settled
      BY <3>1 DEF AcceptsAnswer, Settled
    <3>3. op'.state \in Settled
      BY <3>1 DEF Settled, Recorded
    <3>4. sends > 0
      BY <3>1 DEF SentBefore, KnowsSent
    <3> QED BY <3>2, <3>3, <3>4 DEF RowMoves
  <2>6. CASE Complete(h)
    <3>1. op.state = "remote_terminal_unrecorded" /\ op'.state = "completed"
      BY <1>0, <1>2, <2>6 DEF Complete, Operation
    <3> QED BY <3>1 DEF RowMoves, Settled, Recorded
  <2>7. CASE FailRecovery(h)
    <3>1. /\ op.state = call[h].prior
          /\ op'.state = IF MayHaveArrived(call[h]) THEN "response_unknown"
                         ELSE call[h].prior
      BY <1>0, <1>2, <2>7 DEF FailRecovery, Operation
    <3> QED BY <3>1 DEF MayHaveArrived, RowMoves
  <2>8. CASE ClaimRefused(h)
    <3>1. \/ op'.state = op.state
          \/ op.state = "not_sent" /\ op'.state = "response_unknown"
      BY <1>0, <1>2, <2>8 DEF ClaimRefused, ResendInterrupted, Operation
    <3> QED BY <3>1 DEF RowMoves
  <2>9. CASE Claim(h)
    BY <1>0, <2>9 DEF Claim, Operation, RowMoves
  <2> QED BY <1>2, <2>1, <2>2, <2>3, <2>4, <2>5, <2>6, <2>7, <2>8, <2>9, Zenon
          DEF Step, BeginRefused, Reread, Send, Answer, Apply, SaveFailed
<1>3. ASSUME op' # op
      PROVE  \E h \in Handlers : Step(h)
  BY <1>3, Zenon DEF Next, vars, Tick, RemoteProgress, LocalMove, Start, Crash
<1> QED BY <1>1, <1>2, <1>3, Zenon

(* Messages leave one by one, from a call that may still send.             *)
LEMMA SendsGrow ==
  ASSUME TypeOK, SendInv, [Next]_vars
  PROVE  \/ sends' = sends
         \/ /\ \E h \in Handlers : Send(h)
            /\ sends' = sends + 1 /\ op' = op /\ ~Pristine
<1>1. ASSUME NEW h \in Handlers, Send(h), sends' # sends
      PROVE  sends' = sends + 1 /\ op' = op /\ ~Pristine
  <2>1. InFlight(h)
    BY <1>1 DEF Send, InFlight, SendInv, CallsConsistent
  <2>2. ~Pristine
    BY <2>1 DEF SendInv, PristineMeansDenied
  <2> QED BY <1>1, <2>2 DEF Send
<1>2. ASSUME sends' # sends
      PROVE  \E h \in Handlers : Send(h)
  BY <1>2, Zenon
  DEF Next, vars, Tick, RemoteProgress, LocalMove, Start, Crash, Step, Reserve,
      Begin, BeginRefused, Reread, Answer, FailSubmission, FailRecovery,
      Record, Apply, Complete, SaveFailed, GiveUpSubmission, ClaimRefused, Claim
<1> QED BY <1>1, <1>2, Zenon

LEMMA NextSentBefore ==
  ASSUME TypeOK, RowInv, SendInv, SentBefore, [Next]_vars
  PROVE  SentBefore'
<1>0. /\ op \in Operation /\ call \in [Handlers -> Call] /\ sends \in Nat
  BY DEF TypeOK
<1>1. sends > 0 => sends' > 0
  BY <1>0, SendsGrow
<1>2. op'.state \in Settled => sends' > 0
  <2>1. RowMoves
    BY NextRowMoves
  <2> QED BY <1>1, <2>1 DEF RowMoves, SentBefore, Settled, Recorded
<1>3. CASE call' = call
  BY <1>1, <1>2, <1>3 DEF SentBefore
<1>4. ASSUME NEW h \in Handlers, \A g \in Handlers : g # h => call'[g] = call[g],
             KnowsSent(call'[h]) => KnowsSent(call[h]) \/ sends' > 0
      PROVE  SentBefore'
  BY <1>1, <1>2, <1>4 DEF SentBefore
<1>5. ASSUME NEW h \in Handlers, call'[h].pc \notin GatewaySteps
      PROVE  ~KnowsSent(call'[h])
  BY <1>5 DEF KnowsSent, GatewaySteps
<1>6. ASSUME NEW h \in Handlers,
             \/ Start(h) \/ Crash(h) \/ Reserve(h) \/ Reread(h)
             \/ BeginRefused(h) \/ FailSubmission(h) \/ FailRecovery(h)
             \/ Record(h) \/ Apply(h) \/ Complete(h) \/ SaveFailed(h)
             \/ GiveUpSubmission(h) \/ ClaimRefused(h)
      PROVE  SentBefore'
  BY <1>4, <1>5, <1>6, AwayFromGateway
<1>7. ASSUME NEW h \in Handlers, Begin(h) PROVE SentBefore'
  <2>1. PICK snap : call' = [call EXCEPT ![h] = [call[h] EXCEPT
                      !.pc = "send", !.prior = "submitting", !.snap = snap]]
    BY <1>7, Zenon DEF Begin, Moved
  <2>2. call'[h].pc = "send"
    BY <1>0, <2>1 DEF Call
  <2>3. ~KnowsSent(call'[h])
    BY <2>2 DEF KnowsSent
  <2> QED BY <1>0, <1>4, <2>1, <2>3
<1>8. ASSUME NEW h \in Handlers, Claim(h) PROVE SentBefore'
  <2> DEFINE pc == IF op.state = "not_sent" THEN "send" ELSE "await"
  <2>1. PICK n : call' = [call EXCEPT ![h] = [call[h] EXCEPT
                    !.pc = pc, !.prior = op.state, !.attempt = n]]
    BY <1>8, Zenon DEF Claim, Moved
  <2>2. call'[h].pc = pc
    BY <1>0, <2>1 DEF Call
  <2>3. op.state \in {"not_sent", "remote_active"}
    BY <1>8 DEF Claim, Recoverable
  <2>4. KnowsSent(call'[h]) => sends > 0
    BY <2>2, <2>3 DEF KnowsSent, SentBefore, Settled
  <2> QED BY <1>0, <1>1, <1>4, <2>1, <2>4
<1>9. ASSUME NEW h \in Handlers, Send(h) PROVE SentBefore'
  <2>1. /\ \A g \in Handlers : g # h => call'[g] = call[g]
        /\ \/ sends' = sends + 1
           \/ \E f \in {"unsent", "interrupted"} :
                call'[h] = [call[h] EXCEPT !.pc = "fail", !.answer = f]
    BY <1>0, <1>9 DEF Send, Moved
  <2>2. CASE sends' = sends + 1
    BY <1>0, <1>4, <2>1, <2>2
  <2>3. ASSUME NEW f \in {"unsent", "interrupted"},
               call'[h] = [call[h] EXCEPT !.pc = "fail", !.answer = f]
        PROVE  ~KnowsSent(call'[h])
    <3>1. call'[h].pc = "fail" /\ call'[h].answer = f
      BY <1>0, <2>3 DEF Call
    <3> QED BY <3>1 DEF KnowsSent
  <2> QED BY <1>4, <2>1, <2>2, <2>3
<1>10. ASSUME NEW h \in Handlers, Answer(h) PROVE SentBefore'
  <2>1. KnowsSent(call[h])
    BY <1>10 DEF Answer, KnowsSent
  <2>2. \A g \in Handlers : g # h => call'[g] = call[g]
    BY <1>0, <1>10 DEF Answer, Moved
  <2> QED BY <1>4, <2>1, <2>2
<1>11. CASE Tick \/ RemoteProgress \/ LocalMove \/ UNCHANGED vars
  BY <1>3, <1>11 DEF Tick, RemoteProgress, LocalMove, vars
<1> QED BY <1>6, <1>7, <1>8, <1>9, <1>10, <1>11, Zenon DEF Next, Step

LEMMA InitSentBefore == Init => SentBefore
BY DEF Init, NoOperation, SentBefore, Settled, Recorded, KnowsSent, Idle

-----------------------------------------------------------------------------
(* The inductive invariant and what follows from it. *)

LEMMA Invariance == Spec => []IInv
<1>1. Init => IInv
  BY InitType, InitSend, InitRow, InitFollow, InitSentBefore
     DEF IInv, SendInv, RowInv, FollowInv
<1>2. IInv /\ [Next]_vars => IInv'
  <2> SUFFICES ASSUME IInv, [Next]_vars PROVE IInv'
    OBVIOUS
  <2>1. TypeOK /\ CallsConsistent /\ SendInv /\ RowInv /\ FollowInv
    BY DEF IInv, SendInv, RowInv, FollowInv
  <2>2. TypeOK' /\ SendInv' /\ RowStep
    BY <2>1, NextType, NextSend, NextRow
  <2>3. AppliesRecord' /\ TaskFollowsRecord'
    BY <2>1, NextApplies, NextTaskFollows DEF FollowInv
  <2>4. SentBefore'
    BY <2>1, NextSentBefore DEF IInv
  <2> QED BY <2>2, <2>3, <2>4 DEF IInv, SendInv, RowInv, RowStep
<1> QED BY <1>1, <1>2, PTL DEF Spec

(* Every variable of the bridge keeps its type; among others the delays of *)
(* the recovery policy are never negative.                                 *)
THEOREM TypeCorrect == Spec => []TypeOK
<1>1. IInv => TypeOK
  BY DEF IInv
<1> QED BY <1>1, Invariance, PTL

(* Whatever calls are repeated, overlap, time out, are cancelled or        *)
(* killed, a second message leaves only after the gateway said of the one  *)
(* before that it was not sent.                                            *)
THEOREM SentOncePerDenial == Spec => []OneSendPerDenial
<1>1. IInv => OneSendPerDenial
  BY DEF IInv
<1> QED BY <1>1, Invariance, PTL

(* A row that lets a later call send again tells what the gateway told of  *)
(* every message that left, and no call is about to send.                  *)
THEOREM ResendAlwaysDenied == Spec => []ResendIsDenied
<1>1. IInv => ResendIsDenied
  BY DEF IInv, ResendIsDenied, PristineMeansDenied, Pristine, InFlight,
         CallsConsistent
<1> QED BY <1>1, Invariance, PTL

(* The columns of the row never contradict each other, so that no trigger  *)
(* or CHECK of migrations 0037 and 0038 aborts a step of the bridge.       *)
THEOREM ColumnsAlwaysConsistent == Spec => []ColumnsConsistent
<1>1. IInv => ColumnsConsistent
  BY DEF IInv
<1> QED BY <1>1, Invariance, PTL

(* A Task closed by the bridge agrees with the recorded outcome.           *)
THEOREM TaskAlwaysFollowsRecord == Spec => []TaskFollowsRecord
<1>1. IInv => TaskFollowsRecord
  BY DEF IInv
<1> QED BY <1>1, Invariance, PTL

(* Required reconciliation is never taken back, and no late answer changes *)
(* the record any more.                                                    *)
THEOREM ReconciliationStaysFinal == Spec => ReconciliationIsFinal
<1>1. IInv /\ [Next]_vars =>
        [op.flagged =>
          /\ op'.flagged
          /\ op'.remote = op.remote
          /\ op'.state # op.state =>
               op.state = "not_sent" /\ op'.state = "response_unknown"]_vars
  BY NextRow DEF IInv, RowInv, RowStep, FlagKept
<1> QED BY <1>1, Invariance, PTL DEF Spec, ReconciliationIsFinal

-----------------------------------------------------------------------------
(* The refinement of OneShot. *)

phaseBar == [a \in {"delegation"} |-> Phase]
performedBar == [a \in {"delegation"} |-> sends > 0]

PhaseFacts ==
    /\ op.state \in {"none", "reserved"} => Phase = "none"
    /\ op.state \in {"submitting", "not_sent"} => Phase = "authorized"
    /\ op.state = "response_unknown" => Phase = "unknown"
    /\ op.state \in Settled => Phase = "done"
    /\ op.state \in {"none", "reserved", "submitting", "not_sent",
                     "response_unknown"} \cup Settled

LEMMA PhaseOf == TypeOK => PhaseFacts
BY DEF PhaseFacts, TypeOK, Operation, States, Phase, Settled, Recorded

LEMMA AbstractStep ==
  ASSUME IInv, [Next]_vars, TypeOK'
  PROVE  [S!SNext]_(S!svars)
<1>1. TypeOK /\ RowInv /\ SendInv /\ SentBefore
  BY DEF IInv, RowInv, SendInv
<1>2. sends \in Nat
  BY <1>1 DEF TypeOK
<1>3. CASE sends' = sends
  <2>1. RowMoves /\ UNCHANGED performedBar
    BY <1>1, <1>3, NextRowMoves DEF performedBar
  <2>2. CASE Phase' = Phase
    BY <2>1, <2>2 DEF S!svars, performedBar
  <2>3. ASSUME S!Authorize("delegation") \/ S!LoseTrack("delegation")
                 \/ S!Confirm("delegation")
        PROVE  S!SNext
    BY <2>3 DEF S!SNext
  <2>4. phaseBar' = [phaseBar EXCEPT !["delegation"] = Phase']
    BY DEF phaseBar
  <2>5. CASE Phase = "none" /\ Phase' = "authorized"
    BY <2>1, <2>3, <2>4, <2>5 DEF S!Authorize, phaseBar, performedBar
  <2>6. CASE Phase = "authorized" /\ Phase' = "unknown"
    BY <2>1, <2>3, <2>4, <2>6 DEF S!LoseTrack, phaseBar, performedBar
  <2>7. CASE Phase = "authorized" /\ Phase' = "done" /\ sends > 0
    BY <2>1, <2>3, <2>4, <2>7 DEF S!Confirm, phaseBar, performedBar
  <2>8. \/ Phase' = Phase
        \/ Phase = "none" /\ Phase' = "authorized"
        \/ Phase = "authorized" /\ Phase' = "unknown"
        \/ Phase = "authorized" /\ Phase' = "done" /\ sends > 0
    <3>1. PhaseFacts /\ PhaseFacts'
      BY <1>1, PhaseOf, PTL
    <3> QED BY <2>1, <3>1 DEF PhaseFacts, RowMoves, Settled, Recorded
  <2> QED BY <2>2, <2>5, <2>6, <2>7, <2>8
<1>4. CASE sends' # sends
  <2>1. sends' = sends + 1 /\ op' = op /\ ~Pristine
    BY <1>1, <1>4, SendsGrow
  <2>2. phaseBar' = phaseBar
    BY <2>1 DEF phaseBar, Phase
  <2>3. CASE sends = 0
    <3>1. op.state \notin {"none", "reserved"} \cup Settled
      BY <1>1, <2>1, <2>3 DEF Pristine, SentBefore
    <3>2. Phase \in {"authorized", "unknown"}
      BY <1>1, <3>1, PhaseOf DEF PhaseFacts
    <3>3. (sends > 0) = FALSE /\ (sends' > 0) = TRUE
      BY <2>1, <2>3
    <3>4. /\ performedBar["delegation"] = FALSE
          /\ performedBar' = [performedBar EXCEPT !["delegation"] = TRUE]
      BY <3>3 DEF performedBar
    <3>5. S!Perform("delegation")
      BY <2>2, <3>2, <3>4 DEF S!Perform, phaseBar, performedBar
    <3> QED BY <3>5 DEF S!SNext
  <2>4. CASE sends # 0
    <3>1. (sends > 0) = TRUE /\ (sends' > 0) = TRUE
      BY <1>2, <2>1, <2>4
    <3>2. performedBar' = performedBar
      BY <3>1 DEF performedBar
    <3> QED BY <2>2, <3>2 DEF S!svars, phaseBar, performedBar
  <2> QED BY <2>3, <2>4
<1> QED BY <1>3, <1>4

LEMMA AbstractInit == Init => S!SInit
<1> SUFFICES ASSUME Init PROVE S!SInit
  OBVIOUS
<1>1. Phase = "none" /\ (sends > 0) = FALSE
  BY DEF Init, NoOperation, Phase
<1> QED BY <1>1 DEF S!SInit

(* However calls are repeated, overlap, are cancelled or killed, the       *)
(* delegation does what OneShot promises of the first message.             *)
THEOREM DelegatesOnce == Spec => ImplementsOneShot
<1>1. IInv /\ [Next]_vars => [S!SNext]_(S!svars)
  <2> SUFFICES ASSUME IInv, [Next]_vars
               PROVE  [S!SNext]_(S!svars)
    OBVIOUS
  <2>1. TypeOK /\ CallsConsistent
    BY DEF IInv
  <2>2. TypeOK'
    BY <2>1, NextType
  <2> QED BY <2>2, AbstractStep
<1> QED BY AbstractInit, Invariance, <1>1, PTL
        DEF Spec, ImplementsOneShot, S!SSpec
=============================================================================
