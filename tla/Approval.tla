------------------------------ MODULE Approval ------------------------------
(***************************************************************************)
(* Approvals: the assignee of a Task asks for one, the Task waits, and the *)
(* Owner whose resource is touched decides, or decides too late.           *)
(*                                                                         *)
(* A handler reads the clock when it starts and runs its transaction up to *)
(* Lag later (it waits for a thread and for SQLite's write lock), so every *)
(* transaction works with some reading of the last Lag ticks.  Reading the *)
(* clock is all a handler does before its transaction, hence one action    *)
(* per command.  An Approval is named by the idempotency key it was        *)
(* requested under: a repeated key finds the row and writes nothing.       *)
(***************************************************************************)
EXTENDS Integers, TaskLifecycle

CONSTANTS
    Tasks,
    Approvals,   \* request keys, hence Approvals
    TaskOf,      \* TaskOf[a]: the Task a is requested for
    Versions,    \* versions of the receiving Owner's Policy
    Demanding,   \* the versions that demand an Approval of the intent
    NoPolicy,    \* no version is selected yet
    Lifetimes,   \* lifetimes an Approval may be requested with
    Lag,         \* how old a handler's reading of the clock may get
    MaxTime      \* bound: the clock stops here

ASSUME ApprovalAssumption ==
    /\ TaskOf \in [Approvals -> Tasks]
    /\ Demanding \subseteq Versions
    /\ NoPolicy \notin Versions
    /\ Lifetimes \subseteq Nat \ {0}
    /\ {Lag, MaxTime} \subseteq Nat

VARIABLES
    clock,      \* the server's clock
    policy,     \* the current version of the receiving Owner's Policy
    tasks,      \* tas_tasks and the last row of tas_task_transitions
    approvals   \* tas_approvals

approvalVars == <<clock, policy, tasks, approvals>>

ApprovalStatuses == {"absent", "pending", "approved", "rejected", "expired"}

(* at: when the last transition occurred.  chronological: the history is   *)
(* in the order of its times.                                              *)
Task == [status : TaskStatuses, at : Nat, chronological : BOOLEAN]

ApprovalRow == [status : ApprovalStatuses, requested : Nat, expires : Nat,
                resolved : Nat, version : Versions \cup {NoPolicy}]

Absent == [status |-> "absent", requested |-> 0, expires |-> 0,
           resolved |-> 0, version |-> NoPolicy]

ApprovalInit ==
    /\ clock = 0
    /\ policy = NoPolicy
    /\ tasks = [t \in Tasks |->
                  [status |-> "submitted", at |-> 0, chronological |-> TRUE]]
    /\ approvals = [a \in Approvals |-> Absent]

-----------------------------------------------------------------------------

(* What a handler whose transaction runs now may have read. *)
Readings == {t \in 0..clock : clock - t <= Lag}

(* A row is appended to the history, whatever its time. *)
Moved(t, status, now) ==
    [status |-> status, at |-> now,
     chronological |-> tasks[t].chronological /\ tasks[t].at <= now]

Pending(a) == approvals[a].status = "pending"

Tick ==
    /\ clock < MaxTime
    /\ clock' = clock + 1
    /\ UNCHANGED <<policy, tasks, approvals>>

(* select_current_with_audit: any version, an older one too. *)
SelectPolicy(v) ==
    /\ policy # v
    /\ policy' = v
    /\ UNCHANGED <<clock, tasks, approvals>>

(* Mutant: the assignee may withdraw a Task that waits for a decision. *)
ProtectedMutant(t, target) == target = "approval_required"

(* _protect_approval_boundary *)
Protected(t, target) ==
    "approval_required" \in {tasks[t].status, target}

(* The assignee moves its Task.  The Task is restored from its history and *)
(* refuses to be, or to become, one whose history is not chronological.    *)
Transition(t, target) ==
    /\ tasks[t].chronological
    /\ ~Protected(t, target)
    /\ target \in AllowedTransitions[tasks[t].status]
    /\ \E now \in Readings :
        /\ tasks[t].at <= now
        /\ tasks' = [tasks EXCEPT ![t] = Moved(t, target, now)]
    /\ UNCHANGED <<clock, policy, approvals>>

(* The Task is not restored: the transaction reads its status and appends. *)
RequestApproval(a) ==
    LET t == TaskOf[a]
    IN  /\ approvals[a].status = "absent"
        /\ tasks[t].status = "working"
        /\ policy \in Demanding
        /\ \E now \in Readings, lifetime \in Lifetimes :
            /\ approvals' = [approvals EXCEPT ![a] =
                               [status |-> "pending", requested |-> now,
                                expires |-> now + lifetime, resolved |-> 0,
                                version |-> policy]]
            /\ tasks' = [tasks EXCEPT ![t] = Moved(t, "approval_required", now)]
        /\ UNCHANGED <<clock, policy>>

(* Mutant: a decision at the very end of the lifetime still counts. *)
ResolutionMutant(a, now, verdict) ==
    IF now > approvals[a].expires THEN "expired" ELSE verdict

(* A decision that comes too late expires the Approval. *)
Resolution(a, now, verdict) ==
    IF now >= approvals[a].expires THEN "expired" ELSE verdict

(* Mutant: the Task goes on whatever the decision is. *)
DispositionMutant(status) == "working"

(* What becomes of the Task: the target of _persist_resolution. *)
Disposition(status) == IF status = "approved" THEN "working" ELSE status

(* The Owner names an Approval it was told of, so its handler read the     *)
(* clock after the request had.                                            *)
Decide(a, verdict) ==
    LET t == TaskOf[a]
    IN  /\ Pending(a)
        /\ tasks[t].status = "approval_required"
        /\ \E now \in Readings :
            LET status == Resolution(a, now, verdict)
            IN  /\ approvals[a].requested <= now
                /\ approvals' = [approvals EXCEPT ![a].status = status,
                                                  ![a].resolved = now]
                /\ tasks' = [tasks EXCEPT ![t] =
                               Moved(t, Disposition(status), now)]
        /\ UNCHANGED <<clock, policy>>

ApprovalNext ==
    \/ Tick
    \/ \E v \in Versions : SelectPolicy(v)
    \/ \E t \in Tasks, target \in TaskStatuses : Transition(t, target)
    \/ \E a \in Approvals : RequestApproval(a)
    \/ \E a \in Approvals, verdict \in {"approved", "rejected"} :
            Decide(a, verdict)

ApprovalSpec == ApprovalInit /\ [][ApprovalNext]_approvalVars

-----------------------------------------------------------------------------
(* Properties *)

(* Every variable holds values of its kind, and every resolution is one    *)
(* that Approval.__post_init__ restores: a person decides after the        *)
(* request and before the expiry, and nothing expires early.               *)
ApprovalTypeOK ==
    /\ clock \in Nat
    /\ policy \in Versions \cup {NoPolicy}
    /\ tasks \in [Tasks -> Task]
    /\ approvals \in [Approvals -> ApprovalRow]
    /\ \A a \in Approvals :
        LET row == approvals[a]
        IN  /\ row.status # "absent" => row.requested < row.expires
            /\ row.status \in {"approved", "rejected"} =>
                    row.requested <= row.resolved /\ row.resolved < row.expires
            /\ row.status = "expired" => row.expires <= row.resolved

(* A Task waits exactly while one Approval of it is pending, and never for *)
(* two: the assignee can neither withdraw a Task that waits nor make it    *)
(* wait for nothing, and no decision finds the Task gone.                  *)
TaskAwaitsDecision ==
    \A t \in Tasks :
        /\ tasks[t].status = "approval_required" <=>
                \E a \in Approvals : TaskOf[a] = t /\ Pending(a)
        /\ \A a, b \in Approvals :
                Pending(a) /\ Pending(b) /\ TaskOf[a] = TaskOf[b] => a = b

(* Decisions are final, and a waiting Task leaves only by the decision of  *)
(* the Approval it waits for, to where that decision sends it.             *)
DecisionMovesTask ==
    [][/\ \A a \in Approvals :
            approvals[a].status \notin {"absent", "pending"} =>
                approvals'[a] = approvals[a]
       /\ \A t \in Tasks :
            tasks[t].status = "approval_required" /\ tasks'[t] # tasks[t] =>
                \E a \in Approvals :
                    /\ TaskOf[a] = t /\ Pending(a)
                    /\ \/ /\ approvals'[a].status = "approved"
                          /\ tasks'[t].status = "working"
                       \/ /\ approvals'[a].status \in {"rejected", "expired"}
                          /\ tasks'[t].status = approvals'[a].status
      ]_approvalVars

(* collaboration.py: "Task transition history must be chronological".  A   *)
(* Task whose history is not cannot be restored, so nobody can read it.    *)
HistoriesAreChronological == \A t \in Tasks : tasks[t].chronological

=============================================================================
