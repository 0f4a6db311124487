------------------------- MODULE ActionGrantProofs -------------------------
(***************************************************************************)
(* Proofs about Approval and about ActionGrant, for any number of          *)
(* Approvals, Adapters, workspaces and Evidence, any clock skew and any    *)
(* windows.                                                                *)
(*                                                                         *)
(* None of ActionGrant's invariants is inductive: each rests on what a     *)
(* call carries with it.  Inv says it of every call (CallOK), of every ref *)
(* update whose Adapter was killed (OrphanOK), of the server's row         *)
(* (GrantOK) and of the refs in the workspaces (PlaceOK, TriesOK).  What   *)
(* keeps the unmoved calls right is that the rest of the state only grows  *)
(* (Grows).                                                                *)
(***************************************************************************)
EXTENDS ActionGrant, TLAPS
----------------------------------------------------------------------------
(* Approval.  ApprovalTypeOK /\ TaskAwaitsDecision is inductive as it      *)
(* stands: the decision of an Approval needs to know that its Task waits   *)
(* for it and for no other.                                                *)

LEMMA ReadingsAreTimes == ApprovalTypeOK => Readings \subseteq Nat
BY DEF ApprovalTypeOK, Readings

LEMMA InitApprovalTypeOK == ApprovalInit => ApprovalTypeOK
BY DEF ApprovalInit, ApprovalTypeOK, Task, ApprovalRow, Absent,
       ApprovalStatuses, TaskStatuses

(* What a transition leaves in the row of the Task. *)
LEMMA MovedIsTask ==
  ASSUME ApprovalTypeOK, NEW t \in Tasks, NEW status \in TaskStatuses,
         NEW now \in Nat
  PROVE  /\ Moved(t, status, now) \in Task
         /\ Moved(t, status, now).status = status
<1> DEFINE ordered == tasks[t].chronological /\ tasks[t].at <= now
<1>1. ordered \in BOOLEAN
  OBVIOUS
<1>2. Moved(t, status, now) = [status |-> status, at |-> now,
                               chronological |-> ordered]
  BY DEF Moved
<1> HIDE DEF ordered
<1> QED BY <1>1, <1>2 DEF Task

(* A decision resolves the Approval to one of three statuses, at a time    *)
(* that fits the status, and sends the Task to the status that goes with   *)
(* it, which is not waiting.                                               *)
LEMMA ResolutionFits ==
  ASSUME ApprovalTypeOK, NEW a \in Approvals, NEW now \in Nat,
         NEW verdict \in {"approved", "rejected"}
  PROVE  LET status == Resolution(a, now, verdict)
         IN  /\ status \in {"approved", "rejected", "expired"}
             /\ status = "expired" <=> approvals[a].expires <= now
             /\ Disposition(status) \in TaskStatuses \ {"approval_required"}
             /\ status = "approved" => Disposition(status) = "working"
             /\ status # "approved" => Disposition(status) = status
<1>1. approvals[a].expires \in Nat
  BY DEF ApprovalTypeOK, ApprovalRow
<1> QED BY <1>1 DEF Resolution, Disposition, TaskStatuses

-----------------------------------------------------------------------------

LEMMA ApprovalTypeStep ==
  ASSUME ApprovalAssumption, ApprovalTypeOK, [ApprovalNext]_approvalVars
  PROVE  ApprovalTypeOK'
<1> USE DEF ApprovalTypeOK
<1>1. CASE Tick
  BY <1>1 DEF Tick
<1>2. ASSUME NEW v \in Versions, SelectPolicy(v)
      PROVE  ApprovalTypeOK'
  BY <1>2 DEF SelectPolicy
<1>3. ASSUME NEW t \in Tasks, NEW target \in TaskStatuses, Transition(t, target)
      PROVE  ApprovalTypeOK'
  <2>1. PICK now \in Readings :
            tasks' = [tasks EXCEPT ![t] = Moved(t, target, now)]
    BY <1>3 DEF Transition
  <2>2. tasks' \in [Tasks -> Task]
    <3>1. now \in Nat
      BY ReadingsAreTimes
    <3> QED BY <2>1, <3>1, MovedIsTask
  <2> QED BY <1>3, <2>2 DEF Transition
<1>4. ASSUME NEW a \in Approvals, RequestApproval(a)
      PROVE  ApprovalTypeOK'
  <2> DEFINE t == TaskOf[a]
  <2>0. t \in Tasks
    BY DEF ApprovalAssumption
  <2>1. PICK now \in Readings, lifetime \in Lifetimes :
            /\ approvals' = [approvals EXCEPT ![a] =
                               [status |-> "pending", requested |-> now,
                                expires |-> now + lifetime, resolved |-> 0,
                                version |-> policy]]
            /\ tasks' = [tasks EXCEPT ![t] = Moved(t, "approval_required", now)]
    BY <1>4 DEF RequestApproval
  <2>2. now \in Nat /\ lifetime \in Nat \ {0}
    BY ReadingsAreTimes DEF ApprovalAssumption
  <2>3. tasks' \in [Tasks -> Task]
    BY <2>0, <2>1, <2>2, MovedIsTask DEF TaskStatuses
  <2> DEFINE row == [status |-> "pending", requested |-> now,
                     expires |-> now + lifetime, resolved |-> 0,
                     version |-> policy]
  <2>4. row \in ApprovalRow /\ row.status = "pending" /\ row.requested < row.expires
    BY <2>2 DEF ApprovalRow, ApprovalStatuses
  <2>5. approvals' = [approvals EXCEPT ![a] = row]
    BY <2>1
  <2> HIDE DEF row
  <2> QED BY <1>4, <2>3, <2>4, <2>5 DEF RequestApproval
<1>5. ASSUME NEW a \in Approvals, NEW verdict \in {"approved", "rejected"},
             Decide(a, verdict)
      PROVE  ApprovalTypeOK'
  <2> DEFINE t == TaskOf[a]
  <2>0. t \in Tasks
    BY DEF ApprovalAssumption
  <2>1. PICK now \in Readings :
            /\ approvals[a].requested <= now
            /\ approvals' = [approvals EXCEPT
                               ![a].status = Resolution(a, now, verdict),
                               ![a].resolved = now]
            /\ tasks' = [tasks EXCEPT ![t] =
                           Moved(t, Disposition(Resolution(a, now, verdict)), now)]
    BY <1>5 DEF Decide
  <2>2. now \in Nat
    BY ReadingsAreTimes
  <2> DEFINE status == Resolution(a, now, verdict)
  <2>3. /\ status \in {"approved", "rejected", "expired"}
        /\ status = "expired" <=> approvals[a].expires <= now
        /\ Disposition(status) \in TaskStatuses
    BY <2>2, ResolutionFits
  <2>4. tasks' \in [Tasks -> Task]
    BY <2>0, <2>1, <2>2, <2>3, MovedIsTask
  <2> DEFINE row == [approvals[a] EXCEPT !.status = status, !.resolved = now]
  <2>5. approvals' = [approvals EXCEPT ![a] = row]
    BY <2>1
  <2>6. /\ row \in ApprovalRow
        /\ row.status = status /\ row.resolved = now
        /\ row.requested = approvals[a].requested
        /\ row.expires = approvals[a].expires
    BY <2>2, <2>3 DEF ApprovalRow, ApprovalStatuses
  <2>7. row.requested < row.expires
    BY <1>5, <2>6 DEF Decide, Pending
  <2>8. /\ approvals[a].expires \in Nat /\ approvals[a].requested \in Nat
    BY DEF ApprovalRow
  <2> HIDE DEF row, status
  <2>9. status \in {"approved", "rejected"} =>
            row.requested <= row.resolved /\ row.resolved < row.expires
    BY <2>1, <2>2, <2>3, <2>6, <2>8
  <2>10. approvals' \in [Approvals -> ApprovalRow]
    BY <2>5, <2>6
  <2>11. clock' \in Nat /\ policy' \in Versions \cup {NoPolicy}
    BY <1>5 DEF Decide
  <2>12. ASSUME NEW b \in Approvals
         PROVE  /\ approvals'[b].status # "absent" =>
                       approvals'[b].requested < approvals'[b].expires
                /\ approvals'[b].status \in {"approved", "rejected"} =>
                       /\ approvals'[b].requested <= approvals'[b].resolved
                       /\ approvals'[b].resolved < approvals'[b].expires
                /\ approvals'[b].status = "expired" =>
                       approvals'[b].expires <= approvals'[b].resolved
    <3>1. CASE b = a
      BY <3>1, <2>3, <2>5, <2>6, <2>7, <2>8, <2>9 DEF status
    <3>2. CASE b # a
      BY <3>2, <2>5
    <3> QED BY <3>1, <3>2
  <2> QED BY <2>4, <2>10, <2>11, <2>12
<1>6. CASE UNCHANGED approvalVars
  BY <1>6 DEF approvalVars
<1> QED BY <1>1, <1>2, <1>3, <1>4, <1>5, <1>6 DEF ApprovalNext

(* Every Approval and every Task keep to their types, and every resolution *)
(* fits its Approval, for any set of Tasks, lifetimes and clock readings.  *)
THEOREM ApprovalTypeCorrect == ApprovalSpec => []ApprovalTypeOK
<1> USE ApprovalAssumption
<1>1. ApprovalTypeOK /\ [ApprovalNext]_approvalVars => ApprovalTypeOK'
  BY ApprovalTypeStep
<1> QED BY InitApprovalTypeOK, <1>1, PTL DEF ApprovalSpec

-----------------------------------------------------------------------------

(* A step moves a Task without its Approvals, a Task and one Approval of   *)
(* it, or neither.                                                         *)
Unmoved == UNCHANGED <<tasks, approvals>>

OwnStep(t) ==
    /\ tasks[t].status # "approval_required"
    /\ tasks'[t].status # "approval_required"
    /\ \A u \in Tasks \ {t} : tasks'[u] = tasks[u]
    /\ approvals' = approvals

Requested(a) ==
    /\ approvals[a].status = "absent"
    /\ approvals'[a].status = "pending"
    /\ tasks[TaskOf[a]].status = "working"
    /\ tasks'[TaskOf[a]].status = "approval_required"

Decided(a) ==
    /\ Pending(a)
    /\ tasks[TaskOf[a]].status = "approval_required"
    /\ \/ /\ approvals'[a].status = "approved"
          /\ tasks'[TaskOf[a]].status = "working"
       \/ /\ approvals'[a].status \in {"rejected", "expired"}
          /\ tasks'[TaskOf[a]].status = approvals'[a].status

CommandOn(a) ==
    /\ Requested(a) \/ Decided(a)
    /\ \A u \in Tasks \ {TaskOf[a]} : tasks'[u] = tasks[u]
    /\ \A b \in Approvals \ {a} : approvals'[b] = approvals[b]

LEMMA Effects ==
  ASSUME ApprovalAssumption, ApprovalTypeOK, [ApprovalNext]_approvalVars
  PROVE  \/ Unmoved
         \/ \E t \in Tasks : OwnStep(t)
         \/ \E a \in Approvals : CommandOn(a)
<1>1. CASE Tick
  BY <1>1 DEF Tick, Unmoved
<1>2. ASSUME NEW v \in Versions, SelectPolicy(v)
      PROVE  Unmoved
  BY <1>2 DEF SelectPolicy, Unmoved
<1>3. ASSUME NEW t \in Tasks, NEW target \in TaskStatuses, Transition(t, target)
      PROVE  OwnStep(t)
  <2>1. PICK now \in Readings :
            tasks' = [tasks EXCEPT ![t] = Moved(t, target, now)]
    BY <1>3 DEF Transition
  <2>2. Moved(t, target, now).status = target
    BY <2>1, ReadingsAreTimes, MovedIsTask
  <2>3. t \in DOMAIN tasks
    BY DEF ApprovalTypeOK
  <2> QED BY <1>3, <2>1, <2>2, <2>3
          DEF Transition, Protected, OwnStep, ApprovalTypeOK
<1>4. ASSUME NEW a \in Approvals, RequestApproval(a)
      PROVE  CommandOn(a)
  <2>0. TaskOf[a] \in Tasks
    BY DEF ApprovalAssumption
  <2>1. PICK now \in Readings, lifetime \in Lifetimes :
            /\ approvals' = [approvals EXCEPT ![a] =
                               [status |-> "pending", requested |-> now,
                                expires |-> now + lifetime, resolved |-> 0,
                                version |-> policy]]
            /\ tasks' = [tasks EXCEPT ![TaskOf[a]] =
                           Moved(TaskOf[a], "approval_required", now)]
    BY <1>4 DEF RequestApproval
  <2>2. Moved(TaskOf[a], "approval_required", now).status = "approval_required"
    BY <2>0, <2>1, ReadingsAreTimes, MovedIsTask DEF TaskStatuses
  <2>3. tasks \in [Tasks -> Task] /\ approvals \in [Approvals -> ApprovalRow]
    BY DEF ApprovalTypeOK
  <2> QED BY <1>4, <2>0, <2>1, <2>2, <2>3
          DEF RequestApproval, CommandOn, Requested
<1>5. ASSUME NEW a \in Approvals, NEW verdict \in {"approved", "rejected"},
             Decide(a, verdict)
      PROVE  CommandOn(a)
  <2>0. TaskOf[a] \in Tasks
    BY DEF ApprovalAssumption
  <2>1. PICK now \in Readings :
            /\ approvals' = [approvals EXCEPT
                               ![a].status = Resolution(a, now, verdict),
                               ![a].resolved = now]
            /\ tasks' = [tasks EXCEPT ![TaskOf[a]] =
                           Moved(TaskOf[a],
                                 Disposition(Resolution(a, now, verdict)), now)]
    BY <1>5 DEF Decide
  <2> DEFINE status == Resolution(a, now, verdict)
  <2>2. now \in Nat
    BY ReadingsAreTimes
  <2>3. /\ status \in {"approved", "rejected", "expired"}
        /\ Disposition(status) \in TaskStatuses
        /\ status = "approved" => Disposition(status) = "working"
        /\ status # "approved" => Disposition(status) = status
    BY <2>2, ResolutionFits
  <2>4. Moved(TaskOf[a], Disposition(status), now).status = Disposition(status)
    BY <2>0, <2>2, <2>3, MovedIsTask
  <2>5. tasks \in [Tasks -> Task] /\ approvals \in [Approvals -> ApprovalRow]
    BY DEF ApprovalTypeOK
  <2> DEFINE row == [approvals[a] EXCEPT !.status = status, !.resolved = now]
  <2>6. approvals' = [approvals EXCEPT ![a] = row]
    BY <2>1
  <2>7. row.status = status
    BY <2>5 DEF ApprovalRow
  <2>8. /\ approvals'[a].status = status
        /\ \A b \in Approvals \ {a} : approvals'[b] = approvals[b]
    BY <2>5, <2>6, <2>7
  <2>9. /\ tasks'[TaskOf[a]].status = Disposition(status)
        /\ \A u \in Tasks \ {TaskOf[a]} : tasks'[u] = tasks[u]
    BY <2>0, <2>1, <2>4, <2>5
  <2> HIDE DEF status, row
  <2> QED BY <1>5, <2>3, <2>8, <2>9 DEF Decide, CommandOn, Decided
<1>6. CASE UNCHANGED approvalVars
  BY <1>6 DEF approvalVars, Unmoved
<1> QED BY <1>1, <1>2, <1>3, <1>4, <1>5, <1>6 DEF ApprovalNext

LEMMA AwaitsStep ==
  ASSUME ApprovalAssumption, ApprovalTypeOK, TaskAwaitsDecision,
         [ApprovalNext]_approvalVars
  PROVE  TaskAwaitsDecision'
<1>0. \A a \in Approvals : TaskOf[a] \in Tasks
  BY DEF ApprovalAssumption
<1>1. CASE Unmoved
  BY <1>1 DEF Unmoved, TaskAwaitsDecision, Pending
<1>2. ASSUME NEW t \in Tasks, OwnStep(t)
      PROVE  TaskAwaitsDecision'
  BY <1>2 DEF OwnStep, TaskAwaitsDecision, Pending
<1>3. ASSUME NEW a \in Approvals, CommandOn(a), Requested(a)
      PROVE  TaskAwaitsDecision'
  <2>1. \A b \in Approvals : TaskOf[b] = TaskOf[a] => ~Pending(b)
    BY <1>0, <1>3 DEF Requested, TaskAwaitsDecision
  <2>2. Pending(a)' /\ \A b \in Approvals \ {a} : Pending(b)' <=> Pending(b)
    BY <1>3 DEF CommandOn, Requested, Pending
  <2>3. ASSUME NEW t \in Tasks
        PROVE  /\ tasks'[t].status = "approval_required" <=>
                      \E b \in Approvals : TaskOf[b] = t /\ Pending(b)'
               /\ \A b, c \in Approvals :
                      Pending(b)' /\ Pending(c)' /\ TaskOf[b] = TaskOf[c] => b = c
    <3>1. CASE t = TaskOf[a]
      BY <1>3, <2>1, <2>2, <3>1 DEF Requested, TaskAwaitsDecision
    <3>2. CASE t # TaskOf[a]
      BY <1>3, <2>1, <2>2, <3>2 DEF CommandOn, TaskAwaitsDecision
    <3> QED BY <3>1, <3>2
  <2> QED BY <2>3 DEF TaskAwaitsDecision
<1>4. ASSUME NEW a \in Approvals, CommandOn(a), Decided(a)
      PROVE  TaskAwaitsDecision'
  <2>1. \A b \in Approvals \ {a} : TaskOf[b] = TaskOf[a] => ~Pending(b)
    BY <1>0, <1>4 DEF Decided, TaskAwaitsDecision
  <2>2. ~Pending(a)' /\ \A b \in Approvals \ {a} : Pending(b)' <=> Pending(b)
    BY <1>4 DEF CommandOn, Decided, Pending
  <2>3. ASSUME NEW t \in Tasks
        PROVE  /\ tasks'[t].status = "approval_required" <=>
                      \E b \in Approvals : TaskOf[b] = t /\ Pending(b)'
               /\ \A b, c \in Approvals :
                      Pending(b)' /\ Pending(c)' /\ TaskOf[b] = TaskOf[c] => b = c
    <3>1. CASE t = TaskOf[a]
      BY <1>4, <2>1, <2>2, <3>1 DEF Decided, TaskAwaitsDecision
    <3>2. CASE t # TaskOf[a]
      BY <1>4, <2>1, <2>2, <3>2 DEF CommandOn, TaskAwaitsDecision
    <3> QED BY <3>1, <3>2
  <2> QED BY <2>3 DEF TaskAwaitsDecision
<1> QED BY Effects, <1>1, <1>2, <1>3, <1>4 DEF CommandOn

LEMMA InitAwaits == ApprovalInit => TaskAwaitsDecision
BY DEF ApprovalInit, TaskAwaitsDecision, Pending, Absent

(* A Task waits exactly while one Approval of it is pending, whatever the  *)
(* assignee and the Owner do, for any number of Tasks and Approvals.       *)
THEOREM TasksAwaitDecisions == ApprovalSpec => []TaskAwaitsDecision
<1> USE ApprovalAssumption
<1>1. ApprovalTypeOK /\ TaskAwaitsDecision /\ [ApprovalNext]_approvalVars
        => TaskAwaitsDecision'
  BY AwaitsStep
<1> QED BY ApprovalTypeCorrect, InitAwaits, <1>1, PTL DEF ApprovalSpec

-----------------------------------------------------------------------------

LEMMA DecisionStep ==
  ASSUME ApprovalAssumption, ApprovalTypeOK, [ApprovalNext]_approvalVars
  PROVE  /\ \A a \in Approvals :
                approvals[a].status \notin {"absent", "pending"} =>
                    approvals'[a] = approvals[a]
         /\ \A t \in Tasks :
                tasks[t].status = "approval_required" /\ tasks'[t] # tasks[t] =>
                    \E a \in Approvals : TaskOf[a] = t /\ Decided(a)
<1>1. CASE Unmoved
  BY <1>1 DEF Unmoved
<1>2. ASSUME NEW t \in Tasks, OwnStep(t)
      PROVE  /\ approvals' = approvals
             /\ \A u \in Tasks : tasks[u].status = "approval_required"
                                    => tasks'[u] = tasks[u]
  BY <1>2 DEF OwnStep
<1>3. ASSUME NEW a \in Approvals, CommandOn(a)
      PROVE  /\ \A b \in Approvals :
                    approvals[b].status \notin {"absent", "pending"} =>
                        approvals'[b] = approvals[b]
             /\ \A t \in Tasks :
                    tasks[t].status = "approval_required" /\ tasks'[t] # tasks[t]
                        => TaskOf[a] = t /\ Decided(a)
  BY <1>3 DEF CommandOn, Requested, Decided, Pending
<1> QED BY Effects, <1>1, <1>2, <1>3

(* Decisions are final and move the Task that waited for them, in every    *)
(* step of every instance.                                                 *)
THEOREM DecisionsMoveTasks == ApprovalSpec => DecisionMovesTask
<1> USE ApprovalAssumption
<1>1. ApprovalTypeOK /\ [ApprovalNext]_approvalVars
        => [/\ \A a \in Approvals :
                  approvals[a].status \notin {"absent", "pending"} =>
                      approvals'[a] = approvals[a]
            /\ \A t \in Tasks :
                  tasks[t].status = "approval_required" /\ tasks'[t] # tasks[t] =>
                      \E a \in Approvals :
                          /\ TaskOf[a] = t /\ Pending(a)
                          /\ \/ /\ approvals'[a].status = "approved"
                                /\ tasks'[t].status = "working"
                             \/ /\ approvals'[a].status \in {"rejected", "expired"}
                                /\ tasks'[t].status = approvals'[a].status
           ]_approvalVars
  BY DecisionStep DEF Decided
<1> QED BY ApprovalTypeCorrect, <1>1, PTL DEF ApprovalSpec, DecisionMovesTask
----------------------------------------------------------------------------
(* ActionGrant.                                                            *)

Types ==
    /\ ApprovalTypeOK
    /\ grant \in [Approvals -> Grant]
    /\ head \in [Workspaces -> Heads \cup {None}]
    /\ staged \in [Workspaces -> Evidences \cup {None}]
    /\ attempts \in [Workspaces -> SUBSET Approvals]
    /\ refs \in [Workspaces -> [Approvals -> Commit \cup {None}]]
    /\ lock \in [Workspaces -> Adapters \cup {None}]
    /\ orphans \subseteq Orphan
    /\ run \in [Adapters -> Run]
    /\ tries \in [Approvals -> Nat]

(* Where the Adapter knows of its grant. *)
PastRead == {"look", "lock", "locked", "tree", "commit", "update", "failed",
             "mark", "submit"}

CallOK(r) ==
    /\ r.pc # "idle" => /\ r.approval \in Approvals
                        /\ r.evidence \in Evidences
                        /\ approvals[r.approval].status = "approved"
    /\ r.pc \in PastRead => grant[r.approval].evidence = r.evidence
    /\ r.pc \in {"tree", "commit", "update"} =>
            r.approval \in attempts[WorkspaceOf[r.evidence]]
    /\ r.pc \in {"commit", "update"} =>
            r.commit \in Commit /\ r.commit.at < grant[r.approval].before
    /\ r.pc = "submit" =>
            /\ r.commit \in Commit
            /\ r.commit = refs[WorkspaceOf[r.evidence]][r.approval]

OrphanOK(o) ==
    /\ o.approval \in attempts[o.workspace]
    /\ o.commit.at < grant[o.approval].before

GrantOK(a) ==
    /\ Granted(a) => /\ approvals[a].status = "approved"
                     /\ grant[a].started < grant[a].before
                     /\ grant[a].before <= approvals[a].expires
    /\ grant[a].unknown \/ grant[a].receipt # None => Granted(a)
    /\ grant[a].receipt # None =>
            /\ grant[a].receipt = refs[WorkspaceOf[grant[a].evidence]][a]
            /\ grant[a].started <= grant[a].receipt.at
            /\ grant[a].receipt.at <= grant[a].before

TriesOK(a) ==
    /\ tries[a] <= 1
    /\ tries[a] = 1 => /\ Granted(a)
                       /\ a \in attempts[WorkspaceOf[grant[a].evidence]]

PlaceOK(w, a) ==
    /\ a \in attempts[w] => Granted(a) /\ w = WorkspaceOf[grant[a].evidence]
    /\ refs[w][a] # None => /\ a \in attempts[w]
                            /\ refs[w][a].at < grant[a].before

Inv ==
    /\ Types
    /\ \A p \in Adapters : CallOK(run[p])
    /\ \A o \in orphans : OrphanOK(o)
    /\ \A a \in Approvals : GrantOK(a) /\ TriesOK(a)
    /\ \A w \in Workspaces, a \in Approvals : PlaceOK(w, a)

(* What no step takes back. *)
Grows ==
    /\ \A a \in Approvals :
        /\ approvals[a].status = "approved" => approvals'[a] = approvals[a]
        /\ Granted(a) => /\ grant'[a].evidence = grant[a].evidence
                         /\ grant'[a].started = grant[a].started
                         /\ grant'[a].before = grant[a].before
    /\ \A w \in Workspaces :
        /\ attempts[w] \subseteq attempts'[w]
        /\ \A a \in Approvals :
            refs[w][a] # None => refs'[w][a] = refs[w][a]

-----------------------------------------------------------------------------

LEMMA Nones ==
  ASSUME GrantAssumption
  PROVE  /\ None \notin Approvals /\ None \notin Evidences
         /\ None \notin Adapters /\ None \notin Heads /\ None \notin Commit
         /\ Second \in Nat \ {0} /\ Window \in Nat \ {0}
         /\ Ahead \in Nat /\ Skew \in Int
         /\ \A e \in Evidences : WorkspaceOf[e] \in Workspaces
         /\ \A e \in Evidences : HeadOf[e] \in Heads
BY DEF GrantAssumption

LEMMA InitInv ==
  ASSUME GrantAssumption, Init
  PROVE  Inv
<1>1. ApprovalTypeOK
  BY InitApprovalTypeOK DEF Init
<1>2. NoGrant \in Grant /\ ~NoGrant.unknown /\ NoGrant.receipt = None
      /\ NoGrant.evidence = None
  BY DEF NoGrant, Grant
<1>3. Idle \in Run /\ Idle.pc = "idle"
  BY DEF Idle, Run
<1>4. Types
  BY <1>1, <1>2, <1>3 DEF Init, Types
<1>5. \A p \in Adapters : CallOK(run[p])
  BY <1>3 DEF Init, CallOK, PastRead
<1>6. \A a \in Approvals : GrantOK(a) /\ TriesOK(a)
  BY <1>2 DEF Init, GrantOK, TriesOK, Granted
<1>7. \A w \in Workspaces, a \in Approvals : PlaceOK(w, a)
  BY DEF Init, PlaceOK
<1> QED BY <1>4, <1>5, <1>6, <1>7 DEF Init, Inv

(* A call that did not move stays right while the rest grows. *)
LEMMA CallsPersist ==
  ASSUME GrantAssumption, Types, Grows, NEW r, CallOK(r)
  PROVE  CallOK(r)'
<1>1. r.pc # "idle" => /\ r.approval \in Approvals
                       /\ r.evidence \in Evidences
                       /\ approvals'[r.approval].status = "approved"
  BY DEF CallOK, Grows
<1>2. r.pc \in PastRead =>
        /\ r.pc # "idle"
        /\ Granted(r.approval)
        /\ grant'[r.approval].evidence = r.evidence
        /\ grant'[r.approval].before = grant[r.approval].before
  BY Nones DEF CallOK, Grows, PastRead, Granted
<1>3. r.pc \in {"tree", "commit", "update"} =>
        r.approval \in attempts'[WorkspaceOf[r.evidence]]
  BY <1>1, Nones DEF CallOK, Grows
<1>4. r.pc \in {"commit", "update"} =>
        r.commit \in Commit /\ r.commit.at < grant'[r.approval].before
  BY <1>2 DEF CallOK, PastRead
<1>5. r.pc = "submit" =>
        /\ r.commit \in Commit
        /\ r.commit = refs'[WorkspaceOf[r.evidence]][r.approval]
  BY <1>1, Nones DEF CallOK, Grows
<1> QED BY <1>1, <1>2, <1>3, <1>4, <1>5 DEF CallOK

(* One call moves, what it carries is right, the rest only grows. *)
LEMMA CallsAfter ==
  ASSUME GrantAssumption, Inv, Grows, NEW p \in Adapters, NEW r,
         Goes(p, r), CallOK(r)'
  PROVE  \A q \in Adapters : CallOK(run[q])'
<1> SUFFICES ASSUME NEW q \in Adapters
             PROVE  CallOK(run[q])'
  OBVIOUS
<1>1. CASE q = p
  <2>1. run'[q] = r
    BY <1>1 DEF Goes, Inv, Types
  <2> QED BY <2>1 DEF CallOK
<1>2. CASE q # p
  <2>1. run'[q] = run[q]
    BY <1>2 DEF Goes, Inv, Types
  <2>2. PICK s : s = run[q]
    OBVIOUS
  <2>3. CallOK(s)
    BY <2>2 DEF Inv
  <2>4. CallOK(s)'
    BY <2>3, CallsPersist DEF Inv
  <2> QED BY <2>1, <2>2, <2>4 DEF CallOK
<1> QED BY <1>1, <1>2

(* The steps that move nothing but one call, and the lock. *)
Local(p, r) ==
    /\ Goes(p, r)
    /\ UNCHANGED <<approvalVars, grant, head, staged, attempts, refs, orphans,
                   tries>>

LEMMA LocalStep ==
  ASSUME GrantAssumption, Inv, NEW p \in Adapters, NEW r \in Run, Local(p, r),
         CallOK(r), lock' \in [Workspaces -> Adapters \cup {None}]
  PROVE  Inv'
<1>1. Types'
  BY DEF Inv, Types, Local, Goes, approvalVars, ApprovalTypeOK
<1>2. Grows
  BY DEF Local, Grows, approvalVars
<1>3. CallOK(r)'
  BY <1>2, CallsPersist DEF Inv
<1>4. \A q \in Adapters : CallOK(run[q])'
  BY <1>2, <1>3, CallsAfter DEF Local
<1>5. \A o \in orphans' : OrphanOK(o)'
  BY DEF Inv, Local, OrphanOK
<1>6. \A a \in Approvals : GrantOK(a)' /\ TriesOK(a)'
  BY DEF Inv, Local, GrantOK, TriesOK, Granted, approvalVars
<1>7. \A w \in Workspaces, a \in Approvals : PlaceOK(w, a)'
  BY DEF Inv, Local, PlaceOK, Granted
<1> QED BY <1>1, <1>4, <1>5, <1>6, <1>7 DEF Inv

-----------------------------------------------------------------------------
(* The calls. *)

LEMMA IdleIsRight == Idle \in Run /\ CallOK(Idle)
BY DEF Idle, Run, CallOK, PastRead

(* The next part of a call that carries nothing new. *)
LEMMA MovedOn ==
  ASSUME NEW r \in Run, CallOK(r), r.pc # "idle",
         NEW pc \in {"read", "lock", "locked", "failed", "mark", "tree"},
         pc # "read" => r.pc \in PastRead,
         pc = "tree" => r.approval \in attempts[WorkspaceOf[r.evidence]]
  PROVE  [r EXCEPT !.pc = pc] \in Run /\ CallOK([r EXCEPT !.pc = pc])
<1> DEFINE s == [r EXCEPT !.pc = pc]
<1>1. /\ s \in Run /\ s.pc = pc /\ s.approval = r.approval
      /\ s.evidence = r.evidence /\ s.commit = r.commit
  BY DEF Run
<1> HIDE DEF s
<1>2. CallOK(s)
  BY <1>1 DEF CallOK, PastRead
<1> QED BY <1>1, <1>2 DEF s

(* A call that found the commit of its Approval, and will report it. *)
LEMMA Submits ==
  ASSUME GrantAssumption, Types, NEW r \in Run, CallOK(r), r.pc \in PastRead,
         NEW c, c = refs[WorkspaceOf[r.evidence]][r.approval], c # None
  PROVE  Submitting(r, c) \in Run /\ CallOK(Submitting(r, c))
<1> DEFINE s == Submitting(r, c)
<1>1. WorkspaceOf[r.evidence] \in Workspaces /\ r.approval \in Approvals
  BY Nones DEF CallOK, PastRead
<1>2. c \in Commit
  BY <1>1 DEF Types
<1>3. clock \in Nat
  BY DEF Types, ApprovalTypeOK
<1>4. /\ s \in Run /\ s.pc = "submit" /\ s.approval = r.approval
      /\ s.evidence = r.evidence /\ s.commit = c
  BY <1>2, <1>3 DEF Run, Submitting
<1> HIDE DEF s
<1>5. CallOK(s)
  BY <1>2, <1>4 DEF CallOK, PastRead
<1> QED BY <1>4, <1>5 DEF s

(* What a grant does to the call that read it. *)
LEMMA ViewedIsRight ==
  ASSUME NEW r \in Run, CallOK(r), r.pc \in {"read", "prepare"},
         Granted(r.approval), grant[r.approval].unknown \in BOOLEAN
  PROVE  /\ Viewed(r, grant[r.approval]) \in Run
         /\ CallOK(Viewed(r, grant[r.approval]))
<1> DEFINE s == [r EXCEPT !.pc = "look", !.open = ~grant[r.approval].unknown]
<1>1. CASE grant[r.approval].evidence # r.evidence \/ grant[r.approval].receipt # None
  BY <1>1, IdleIsRight DEF Viewed
<1>2. CASE ~(grant[r.approval].evidence # r.evidence
             \/ grant[r.approval].receipt # None)
  <2>1. /\ s \in Run /\ s.pc = "look" /\ s.approval = r.approval
        /\ s.evidence = r.evidence
    BY DEF Run
  <2>2. Viewed(r, grant[r.approval]) = s
    BY <1>2 DEF Viewed
  <2> HIDE DEF s
  <2>3. CallOK(s)
    BY <1>2, <2>1 DEF CallOK, PastRead
  <2> QED BY <2>1, <2>2, <2>3
<1> QED BY <1>1, <1>2

-----------------------------------------------------------------------------

(* All steps of calls that change no row and no ref. *)
LEMMA LocalSteps ==
  ASSUME GrantAssumption, Inv, NEW p \in Adapters,
         \/ \E a \in Approvals, e \in Evidences : Call(p, a, e)
         \/ GivesUp(p) \/ ReadGrant(p) \/ Look(p) \/ Lock(p) \/ LockTimeout(p)
         \/ GitFails(p) \/ FindUnderLock(p) \/ Refuse(p) \/ WriteTree(p)
         \/ CommitTree(p) \/ UpdateRefused(p) \/ Failed(p)
  PROVE  Inv'
<1> DEFINE r == run[p]
<1>0. /\ r \in Run /\ CallOK(r) /\ Types
      /\ clock \in Nat
      /\ r.pc # "idle" => /\ r.approval \in Approvals /\ r.evidence \in Evidences
                          /\ WorkspaceOf[r.evidence] \in Workspaces
  BY Nones DEF Inv, Types, CallOK, ApprovalTypeOK
<1>l. /\ lock \in [Workspaces -> Adapters \cup {None}]
      /\ \A w : Unlocked(w) => lock' \in [Workspaces -> Adapters \cup {None}]
  BY DEF Inv, Types, Unlocked
<1>s. ASSUME NEW s \in Run, CallOK(s), Goes(p, s), UNCHANGED <<server, workspace>>,
             lock' \in [Workspaces -> Adapters \cup {None}]
      PROVE  Inv'
  BY <1>s, LocalStep DEF Local, server, workspace
<1>1. ASSUME NEW a \in Approvals, NEW e \in Evidences, Call(p, a, e)
      PROVE  Inv'
  <2> DEFINE s == [Idle EXCEPT !.pc = "read", !.approval = a, !.evidence = e]
  <2>1. /\ s \in Run /\ s.pc = "read" /\ s.approval = a /\ s.evidence = e
    BY IdleIsRight DEF Run
  <2>2. Goes(p, s) /\ UNCHANGED <<server, workspace, lock>>
        /\ approvals[a].status = "approved"
    BY <1>1 DEF Call
  <2> HIDE DEF s
  <2>3. CallOK(s)
    BY <2>1, <2>2 DEF CallOK, PastRead
  <2> QED BY <1>l, <1>s, <2>1, <2>2, <2>3
<1>2. CASE GivesUp(p)
  BY <1>2, <1>l, <1>s, IdleIsRight DEF GivesUp, Ends
<1>3. CASE ReadGrant(p)
  <2>1. r.pc = "read" /\ UNCHANGED <<server, workspace, lock>>
    BY <1>3 DEF ReadGrant
  <2>2. CASE Granted(r.approval)
    <3>1. Goes(p, Viewed(r, grant[r.approval]))
      BY <1>3, <2>2 DEF ReadGrant
    <3>2. grant[r.approval].unknown \in BOOLEAN
      BY <1>0, <2>1 DEF Types, Grant
    <3>3. Viewed(r, grant[r.approval]) \in Run /\ CallOK(Viewed(r, grant[r.approval]))
      BY <1>0, <2>1, <2>2, <3>2, ViewedIsRight
    <3> QED BY <1>l, <1>s, <2>1, <3>1, <3>3
  <2> DEFINE s == [r EXCEPT !.pc = "prepare", !.now = clock]
  <2>3. CASE ~Granted(r.approval) /\ Goes(p, s)
    <3>1. /\ s \in Run /\ s.pc = "prepare" /\ s.approval = r.approval
          /\ s.evidence = r.evidence
      BY <1>0 DEF Run
    <3> HIDE DEF s
    <3>2. CallOK(s)
      BY <1>0, <2>1, <3>1 DEF CallOK, PastRead
    <3> QED BY <1>l, <1>s, <2>1, <2>3, <3>1, <3>2
  <2>4. CASE ~Granted(r.approval) /\ Goes(p, Idle)
    BY <1>l, <1>s, <2>1, <2>4, IdleIsRight
  <2> QED BY <1>3, <2>2, <2>3, <2>4 DEF ReadGrant
<1>4. CASE Look(p)
  <2>1. /\ r.pc = "look" /\ r.pc \in PastRead /\ UNCHANGED <<server, workspace, lock>>
    BY <1>4 DEF Look, PastRead
  <2>2. CASE Found(p) # None
    <3>1. Goes(p, Submitting(r, Found(p)))
      BY <1>4, <2>2 DEF Look
    <3>2. Submitting(r, Found(p)) \in Run /\ CallOK(Submitting(r, Found(p)))
      BY <1>0, <2>1, <2>2, Submits DEF Found, Place
    <3> QED BY <1>l, <1>s, <2>1, <3>1, <3>2
  <2>3. CASE Goes(p, [r EXCEPT !.pc = "lock"])
    <3>1. [r EXCEPT !.pc = "lock"] \in Run /\ CallOK([r EXCEPT !.pc = "lock"])
      BY <1>0, <2>1, MovedOn
    <3> QED BY <1>l, <1>s, <2>1, <2>3, <3>1
  <2>4. CASE Goes(p, Idle)
    BY <1>l, <1>s, <2>1, <2>4, IdleIsRight
  <2> QED BY <1>4, <2>2, <2>3, <2>4 DEF Look
<1>5. CASE Lock(p)
  <2>1. r.pc \in PastRead /\ r.pc # "idle" /\ Goes(p, [r EXCEPT !.pc = "locked"])
    BY <1>5 DEF Lock, PastRead
  <2>2. [r EXCEPT !.pc = "locked"] \in Run /\ CallOK([r EXCEPT !.pc = "locked"])
    BY <1>0, <2>1, MovedOn
  <2>3. lock' \in [Workspaces -> Adapters \cup {None}]
    BY <1>5, <1>l DEF Lock
  <2> QED BY <1>5, <1>s, <2>1, <2>2, <2>3 DEF Lock
<1>f. ASSUME r.pc \in PastRead, Goes(p, [r EXCEPT !.pc = "failed"]),
             UNCHANGED <<server, workspace>>,
             lock' \in [Workspaces -> Adapters \cup {None}]
      PROVE  Inv'
  <2>1. [r EXCEPT !.pc = "failed"] \in Run /\ CallOK([r EXCEPT !.pc = "failed"])
    BY <1>0, <1>f, MovedOn DEF PastRead
  <2> QED BY <1>f, <1>s, <2>1
<1>g. ASSUME r.pc \in PastRead, Found(p) # None, Goes(p, Submitting(r, Found(p))),
             UNCHANGED <<server, workspace>>,
             lock' \in [Workspaces -> Adapters \cup {None}]
      PROVE  Inv'
  <2>1. Submitting(r, Found(p)) \in Run /\ CallOK(Submitting(r, Found(p)))
    BY <1>0, <1>g, Submits DEF Found, Place
  <2> QED BY <1>g, <1>s, <2>1
<1>6. CASE LockTimeout(p)
  BY <1>6, <1>f, <1>l DEF LockTimeout, PastRead
<1>7. CASE GitFails(p)
  BY <1>7, <1>f, <1>l DEF GitFails, PastRead
<1>8. CASE FindUnderLock(p)
  BY <1>8, <1>g, <1>l DEF FindUnderLock, PastRead
<1>9. CASE Refuse(p)
  BY <1>9, <1>f, <1>l DEF Refuse, PastRead
<1>10. CASE WriteTree(p)
  <2> DEFINE at == OnSecond(AdapterClock)
             c == [at |-> at, tree |-> staged[Place(p)]]
             s == [r EXCEPT !.pc = "commit", !.commit = c]
  <2>1. /\ r.pc = "tree" /\ at < grant[r.approval].before /\ Goes(p, s)
        /\ UNCHANGED <<server, workspace, lock>>
    BY <1>10 DEF WriteTree
  <2>2. at \in Int
    BY <1>0, Nones DEF OnSecond, AdapterClock
  <2> HIDE DEF at
  <2>3. c \in Commit /\ c.at = at
    BY <1>0, <2>1, <2>2 DEF Commit, Types, Place
  <2> HIDE DEF c
  <2>4. /\ s \in Run /\ s.pc = "commit" /\ s.approval = r.approval
        /\ s.evidence = r.evidence /\ s.commit = c
    BY <1>0, <2>3 DEF Run
  <2> HIDE DEF s
  <2>5. CallOK(s)
    BY <1>0, <2>1, <2>3, <2>4 DEF CallOK, PastRead
  <2> QED BY <1>l, <1>s, <2>1, <2>4, <2>5
<1>11. CASE CommitTree(p)
  <2> DEFINE s == [r EXCEPT !.pc = "update"]
  <2>1. r.pc = "commit" /\ Goes(p, s) /\ UNCHANGED <<server, workspace, lock>>
    BY <1>11 DEF CommitTree
  <2>2. /\ s \in Run /\ s.pc = "update" /\ s.approval = r.approval
        /\ s.evidence = r.evidence /\ s.commit = r.commit
    BY <1>0 DEF Run
  <2> HIDE DEF s
  <2>3. CallOK(s)
    BY <1>0, <2>1, <2>2 DEF CallOK, PastRead
  <2> QED BY <1>l, <1>s, <2>1, <2>2, <2>3
<1>12. CASE UpdateRefused(p)
  BY <1>12, <1>f, <1>g, <1>l DEF UpdateRefused, PastRead
<1>13. CASE Failed(p)
  <2>1. r.pc = "failed" /\ r.pc \in PastRead /\ UNCHANGED <<server, workspace, lock>>
    BY <1>13 DEF Failed, PastRead
  <2>2. CASE Found(p) # None /\ Goes(p, Submitting(r, Found(p)))
    BY <1>g, <1>l, <2>1, <2>2
  <2>3. CASE Goes(p, [r EXCEPT !.pc = "mark"])
    <3>1. [r EXCEPT !.pc = "mark"] \in Run /\ CallOK([r EXCEPT !.pc = "mark"])
      BY <1>0, <2>1, MovedOn
    <3> QED BY <1>l, <1>s, <2>1, <2>3, <3>1
  <2> QED BY <1>13, <2>2, <2>3 DEF Failed
<1> QED BY <1>1, <1>2, <1>3, <1>4, <1>5, <1>6, <1>7, <1>8, <1>9, <1>10, <1>11,
           <1>12, <1>13

-----------------------------------------------------------------------------
(* The server's rows. *)

(* Approvals, Tasks, the Policy and the clock move.  What was approved     *)
(* stays as it is.                                                         *)
LEMMA ApprovalsStep ==
  ASSUME ApprovalAssumption, GrantAssumption, Inv, ApprovalNext,
         UNCHANGED grantVars
  PROVE  Inv'
<1>1. ApprovalTypeOK'
  BY ApprovalTypeStep DEF Inv, Types
<1>2. Types'
  BY <1>1 DEF Inv, Types, grantVars
<1>3. \A a \in Approvals :
        approvals[a].status = "approved" => approvals'[a] = approvals[a]
  BY DecisionStep DEF Inv, Types
<1>4. Grows
  BY <1>3 DEF Grows, grantVars
<1>5. \A p \in Adapters : CallOK(run[p])'
  <2> SUFFICES ASSUME NEW p \in Adapters
               PROVE  CallOK(run[p])'
    OBVIOUS
  <2>1. PICK r : r = run[p]
    OBVIOUS
  <2>2. CallOK(r) /\ r = run'[p]
    BY <2>1 DEF Inv, grantVars
  <2>3. CallOK(r)'
    BY <1>4, <2>2, CallsPersist DEF Inv
  <2> QED BY <2>2, <2>3 DEF CallOK
<1>6. \A o \in orphans' : OrphanOK(o)'
  BY DEF Inv, OrphanOK, grantVars
<1>7. \A a \in Approvals : GrantOK(a)' /\ TriesOK(a)'
  BY <1>3 DEF Inv, GrantOK, TriesOK, Granted, grantVars
<1>8. \A w \in Workspaces, a \in Approvals : PlaceOK(w, a)'
  BY DEF Inv, PlaceOK, Granted, grantVars
<1> QED BY <1>2, <1>5, <1>6, <1>7, <1>8 DEF Inv

(* One row of the grants changes, consistently, and one call moves.        *)
LEMMA RowStep ==
  ASSUME GrantAssumption, Inv, NEW p \in Adapters, NEW a \in Approvals,
         NEW g \in Grant, grant' = [grant EXCEPT ![a] = g],
         NEW r \in Run, Goes(p, r),
         UNCHANGED <<approvalVars, workspace, lock>>,
         Granted(a) => /\ g.evidence = grant[a].evidence
                       /\ g.started = grant[a].started
                       /\ g.before = grant[a].before,
         GrantOK(a)', CallOK(r)'
  PROVE  Inv'
<1>1. Types'
  BY DEF Inv, Types, Goes, approvalVars, workspace, ApprovalTypeOK
<1>2. grant'[a] = g /\ \A b \in Approvals \ {a} : grant'[b] = grant[b]
  BY DEF Inv, Types
<1>3. Grows
  BY <1>2 DEF Grows, approvalVars, workspace
<1>4. \A q \in Adapters : CallOK(run[q])'
  BY <1>3, CallsAfter
<1>g. \A b \in Approvals : Granted(b) =>
        /\ Granted(b)' /\ grant'[b].evidence = grant[b].evidence
        /\ grant'[b].before = grant[b].before
  BY <1>2 DEF Granted
<1>5. \A o \in orphans' : OrphanOK(o)'
  <2> SUFFICES ASSUME NEW o \in orphans
               PROVE  OrphanOK(o)'
    BY DEF workspace
  <2>1. OrphanOK(o) /\ o.approval \in Approvals /\ o.workspace \in Workspaces
    BY DEF Inv, Types, Orphan
  <2>2. Granted(o.approval)
    BY <2>1 DEF Inv, PlaceOK, OrphanOK
  <2> QED BY <1>g, <2>1, <2>2 DEF OrphanOK, workspace
<1>6. \A b \in Approvals : GrantOK(b)' /\ TriesOK(b)'
  <2> SUFFICES ASSUME NEW b \in Approvals
               PROVE  GrantOK(b)' /\ TriesOK(b)'
    OBVIOUS
  <2>1. GrantOK(b) /\ TriesOK(b)
    BY DEF Inv
  <2>2. TriesOK(b)'
    BY <1>g, <2>1 DEF TriesOK, workspace
  <2>3. CASE b = a
    BY <2>2, <2>3
  <2>4. CASE b # a
    BY <1>2, <2>1, <2>2, <2>4 DEF GrantOK, Granted, workspace, approvalVars
  <2> QED BY <2>3, <2>4
<1>7. \A w \in Workspaces, b \in Approvals : PlaceOK(w, b)'
  <2> SUFFICES ASSUME NEW w \in Workspaces, NEW b \in Approvals
               PROVE  PlaceOK(w, b)'
    OBVIOUS
  <2>1. PlaceOK(w, b)
    BY DEF Inv
  <2> QED BY <1>g, <2>1 DEF PlaceOK, workspace
<1> QED BY <1>1, <1>4, <1>5, <1>6, <1>7 DEF Inv

(* Nothing was attempted or committed for an Approval without a grant.     *)
LEMMA NothingWithoutGrant ==
  ASSUME Inv, NEW a \in Approvals, ~Granted(a)
  PROVE  /\ tries[a] # 1 /\ ~grant[a].unknown /\ grant[a].receipt = None
         /\ \A w \in Workspaces : a \notin attempts[w] /\ refs[w][a] = None
BY DEF Inv, TriesOK, GrantOK, PlaceOK

LEMMA GrantIsRight ==
  ASSUME GrantAssumption, Types, NEW r \in Run, r.approval \in Approvals,
         r.evidence \in Evidences, NEW now \in Nat, Authorized(r.approval, now)
  PROVE  LET g == GrantFor(r, now)
         IN  /\ g \in Grant /\ g.evidence = r.evidence /\ g.started < g.before
             /\ g.before <= approvals[r.approval].expires
             /\ g.receipt = None /\ g.unknown = FALSE
<1>1. approvals[r.approval].expires \in Nat /\ now < approvals[r.approval].expires
  BY DEF Types, ApprovalTypeOK, ApprovalRow, Authorized
<1> DEFINE end == approvals[r.approval].expires
           before == IF end < now + Window THEN end ELSE now + Window
<1>2. before \in Nat /\ now < before /\ before <= end
  BY <1>1, Nones
<1>g. GrantFor(r, now) = [NoGrant EXCEPT !.evidence = r.evidence,
                                         !.started = now, !.before = before]
  BY DEF GrantFor
<1> HIDE DEF before
<1>3. GrantFor(r, now) = [evidence |-> r.evidence, started |-> now,
                          before |-> before, unknown |-> FALSE, receipt |-> None]
  BY <1>g DEF NoGrant
<1> HIDE DEF end
<1>4. GrantFor(r, now) \in Grant
  BY <1>2, <1>3 DEF Grant
<1> QED BY <1>2, <1>3, <1>4 DEF end

LEMMA PrepareStep ==
  ASSUME GrantAssumption, Inv, NEW p \in Adapters, Prepare(p)
  PROVE  Inv'
<1> DEFINE r == run[p]
           a == run[p].approval
<1>0. /\ r \in Run /\ CallOK(r) /\ Types /\ r.pc = "prepare"
      /\ a \in Approvals /\ r.evidence \in Evidences
      /\ approvals[a].status = "approved"
      /\ UNCHANGED <<approvalVars, workspace, lock>>
  BY DEF Inv, Types, CallOK, Prepare
<1>1. PICK now \in HandlerReadings(r) :
        \/ /\ ~Granted(a) /\ Authorized(a, now)
           /\ grant' = [grant EXCEPT ![a] = GrantFor(r, now)]
           /\ Goes(p, Viewed(r, GrantFor(r, now)))
        \/ /\ Replays(r, now)
           /\ Goes(p, Viewed(r, grant[a]))
           /\ UNCHANGED grant
        \/ /\ Ends(p)
           /\ UNCHANGED grant
  BY DEF Prepare
<1>2. now \in Nat
  BY <1>0, ReadingsAreTimes DEF HandlerReadings, Types
<1>l. ASSUME NEW s \in Run, CallOK(s), Goes(p, s), UNCHANGED grant
      PROVE  Inv'
  <2>1. lock' \in [Workspaces -> Adapters \cup {None}]
    BY <1>0 DEF Types
  <2> QED BY <1>0, <1>l, <2>1, LocalStep DEF Local, workspace
<1>3. CASE /\ ~Granted(a) /\ Authorized(a, now)
           /\ grant' = [grant EXCEPT ![a] = GrantFor(r, now)]
           /\ Goes(p, Viewed(r, GrantFor(r, now)))
  <2> DEFINE g == GrantFor(r, now)
             s == [r EXCEPT !.pc = "look", !.open = ~g.unknown]
  <2>1. /\ g \in Grant /\ g.evidence = r.evidence /\ g.started < g.before
        /\ g.before <= approvals[a].expires
        /\ g.receipt = None /\ g.unknown = FALSE
    BY <1>0, <1>2, <1>3, GrantIsRight
  <2>2. Goes(p, s)
    BY <1>3, <2>1 DEF Viewed
  <2> HIDE DEF g
  <2>3. /\ s \in Run /\ s.pc = "look" /\ s.approval = a
        /\ s.evidence = r.evidence
    BY <1>0, <2>1 DEF Run
  <2>4. grant' = [grant EXCEPT ![a] = g] /\ grant'[a] = g
    BY <1>0, <1>3 DEF g, Types
  <2> HIDE DEF s
  <2>5. PICK s1 \in Run : s1 = s
    BY <2>3
  <2>6. CallOK(s1)'
    BY <1>0, <2>1, <2>3, <2>4, <2>5 DEF CallOK, PastRead, approvalVars
  <2>7. PICK g1 \in Grant : g1 = g
    BY <2>1
  <2>8. PICK b \in Approvals : b = a
    BY <1>0
  <2>9. /\ grant' = [grant EXCEPT ![b] = g1] /\ ~Granted(b) /\ Goes(p, s1)
    BY <1>3, <2>2, <2>4, <2>5, <2>7, <2>8
  <2>10. GrantOK(b)'
    BY <1>0, <2>1, <2>4, <2>8, Nones DEF GrantOK, approvalVars, Granted
  <2> QED BY <1>0, <2>6, <2>9, <2>10, RowStep
<1>4. CASE Replays(r, now) /\ Goes(p, Viewed(r, grant[a])) /\ UNCHANGED grant
  <2>1. Granted(a) /\ grant[a].unknown \in BOOLEAN
    BY <1>0, <1>4 DEF Replays, Types, Grant
  <2>2. Viewed(r, grant[a]) \in Run /\ CallOK(Viewed(r, grant[a]))
    BY <1>0, <2>1, ViewedIsRight
  <2> QED BY <1>4, <1>l, <2>2
<1>5. CASE Ends(p) /\ UNCHANGED grant
  BY <1>5, <1>l, IdleIsRight DEF Ends
<1> QED BY <1>1, <1>3, <1>4, <1>5

LEMMA MarkUnknownStep ==
  ASSUME GrantAssumption, Inv, NEW p \in Adapters, MarkUnknown(p)
  PROVE  Inv'
<1> DEFINE r == run[p]
<1>0. /\ r \in Run /\ CallOK(r) /\ Types /\ r.pc = "mark" /\ Ends(p)
      /\ r.approval \in Approvals /\ r.evidence \in Evidences
      /\ grant[r.approval].evidence = r.evidence
      /\ UNCHANGED <<approvalVars, workspace, lock>>
  BY DEF Inv, Types, CallOK, MarkUnknown, PastRead
<1>1. CASE UNCHANGED grant
  <2>1. lock' \in [Workspaces -> Adapters \cup {None}]
    BY <1>0 DEF Types
  <2> QED BY <1>0, <1>1, <2>1, IdleIsRight, LocalStep DEF Local, workspace, Ends
<1>2. CASE grant' = [grant EXCEPT ![r.approval].unknown = TRUE]
  <2>1. PICK a \in Approvals : a = r.approval
    BY <1>0
  <2>2. PICK g : g = [grant[a] EXCEPT !.unknown = TRUE]
    OBVIOUS
  <2>3. /\ g \in Grant /\ g.unknown = TRUE /\ g.evidence = grant[a].evidence
        /\ g.started = grant[a].started /\ g.before = grant[a].before
        /\ g.receipt = grant[a].receipt
    <3>1. grant[a] \in Grant
      BY <1>0 DEF Types
    <3> QED BY <2>2, <3>1 DEF Grant
  <2>4. grant' = [grant EXCEPT ![a] = g]
    BY <1>2, <2>1, <2>2
  <2>5. grant'[a] = g
    BY <1>0, <2>4 DEF Types
  <2>6. Granted(a) /\ GrantOK(a)
    BY <1>0, <2>1, Nones DEF Granted, Inv
  <2>7. GrantOK(a)'
    BY <1>0, <2>3, <2>5, <2>6 DEF GrantOK, Granted, approvalVars, workspace
  <2>8. PICK s \in Run : s = Idle
    BY IdleIsRight
  <2>9. Goes(p, s) /\ CallOK(s)'
    BY <1>0, <2>8 DEF Ends, Idle, CallOK, PastRead
  <2> QED BY <1>0, <2>3, <2>4, <2>7, <2>8, <2>9, RowStep
<1> QED BY <1>1, <1>2 DEF MarkUnknown

LEMMA SubmitStep ==
  ASSUME GrantAssumption, Inv, NEW p \in Adapters, Submit(p)
  PROVE  Inv'
<1> DEFINE r == run[p]
<1>0. /\ r \in Run /\ CallOK(r) /\ Types /\ r.pc = "submit" /\ Ends(p)
      /\ r.approval \in Approvals /\ r.evidence \in Evidences
      /\ grant[r.approval].evidence = r.evidence
      /\ r.commit \in Commit
      /\ r.commit = refs[WorkspaceOf[r.evidence]][r.approval]
      /\ UNCHANGED <<approvalVars, workspace, lock>>
  BY DEF Inv, Types, CallOK, Submit, PastRead
<1>1. CASE UNCHANGED grant
  <2>1. lock' \in [Workspaces -> Adapters \cup {None}]
    BY <1>0 DEF Types
  <2> QED BY <1>0, <1>1, <2>1, IdleIsRight, LocalStep DEF Local, workspace, Ends
<1>2. ASSUME NEW now \in HandlerReadings(r),
             Acceptable(grant[r.approval], r.commit, now),
             grant' = [grant EXCEPT ![r.approval].receipt = r.commit]
      PROVE  Inv'
  <2>1. PICK a \in Approvals : a = r.approval
    BY <1>0
  <2>c. PICK c \in Commit : c = r.commit
    BY <1>0
  <2>2. PICK g : g = [grant[a] EXCEPT !.receipt = c]
    OBVIOUS
  <2>3. /\ g \in Grant /\ g.unknown = grant[a].unknown
        /\ g.evidence = grant[a].evidence
        /\ g.started = grant[a].started /\ g.before = grant[a].before
        /\ g.receipt = c
    <3>1. grant[a] \in Grant
      BY <1>0 DEF Types
    <3> QED BY <2>2, <3>1 DEF Grant
  <2>4. grant' = [grant EXCEPT ![a] = g]
    BY <1>2, <2>1, <2>2, <2>c
  <2>5. grant'[a] = g
    BY <1>0, <2>4 DEF Types
  <2>6. Granted(a) /\ GrantOK(a)
    BY <1>0, <2>1, Nones DEF Granted, Inv
  <2>e. /\ c = refs[WorkspaceOf[grant[a].evidence]][a]
        /\ grant[a].started <= c.at /\ c.at <= grant[a].before
    BY <1>0, <1>2, <2>1, <2>c DEF Acceptable
  <2>7. GrantOK(a)'
    BY <1>0, <2>3, <2>5, <2>6, <2>e DEF GrantOK, Granted, approvalVars, workspace
  <2>8. PICK s \in Run : s = Idle
    BY IdleIsRight
  <2>9. Goes(p, s) /\ CallOK(s)'
    BY <1>0, <2>8 DEF Ends, Idle, CallOK, PastRead
  <2> QED BY <1>0, <2>3, <2>4, <2>7, <2>8, <2>9, RowStep
<1> QED BY <1>1, <1>2 DEF Submit

-----------------------------------------------------------------------------
(* The refs. *)

LEMMA ReserveStep ==
  ASSUME GrantAssumption, Inv, NEW p \in Adapters, Reserve(p)
  PROVE  Inv'
<1> DEFINE r == run[p]
           w == Place(p)
<1>0. /\ r \in Run /\ CallOK(r) /\ Types /\ r.pc = "locked"
      /\ r.approval \in Approvals /\ r.evidence \in Evidences
      /\ grant[r.approval].evidence = r.evidence
      /\ w \in Workspaces /\ w = WorkspaceOf[r.evidence]
      /\ UNCHANGED <<server, head, staged, refs, orphans>>
  BY Nones DEF Inv, Types, CallOK, Reserve, PastRead, Place
<1>a. PICK a \in Approvals : a = r.approval
  BY <1>0
<1>v. PICK v \in Workspaces : v = w
  BY <1>0
<1>1. /\ a \notin attempts[v]
      /\ attempts' = [attempts EXCEPT ![v] = @ \cup {a}]
      /\ Granted(a) /\ v = WorkspaceOf[grant[a].evidence]
  BY <1>0, <1>a, <1>v, Nones DEF Reserve, Granted
<1>2. /\ attempts' \in [Workspaces -> SUBSET Approvals]
      /\ attempts'[v] = attempts[v] \cup {a}
      /\ \A u \in Workspaces \ {v} : attempts'[u] = attempts[u]
  BY <1>0, <1>1 DEF Types
<1>3. Grows
  BY <1>0, <1>2 DEF Grows, server, approvalVars
<1>4. tries[a] = 0 /\ tries \in [Approvals -> Nat]
  <2>1. tries \in [Approvals -> Nat]
    BY <1>0 DEF Types
  <2>2. tries[a] # 1 /\ tries[a] <= 1
    BY <1>0, <1>1 DEF Inv, TriesOK
  <2> QED BY <2>1, <2>2
<1>5. /\ tries' \in [Approvals -> Nat] /\ tries'[a] <= 1
      /\ \A b \in Approvals \ {a} : tries'[b] = tries[b]
  BY <1>4, <1>a DEF Reserve
<1>6. lock' \in [Workspaces -> Adapters \cup {None}]
  BY <1>0 DEF Reserve, Types, Unlocked
<1>7. \E s \in Run : Goes(p, s) /\ CallOK(s)'
  <2>1. CASE Goes(p, [r EXCEPT !.pc = "tree"])
    <3>1. PICK s : s = [r EXCEPT !.pc = "tree"]
      OBVIOUS
    <3>2. /\ s \in Run /\ s.pc = "tree" /\ s.approval = r.approval
          /\ s.evidence = r.evidence
      BY <1>0, <3>1 DEF Run
    <3>3. CallOK(s)'
      BY <1>0, <1>1, <1>2, <1>a, <1>v, <3>2
         DEF CallOK, PastRead, server, approvalVars
    <3> QED BY <2>1, <3>1, <3>2, <3>3
  <2>2. CASE Goes(p, [r EXCEPT !.pc = "failed"])
    <3>1. PICK s : s = [r EXCEPT !.pc = "failed"]
      OBVIOUS
    <3>2. s \in Run /\ CallOK(s)
      BY <1>0, <3>1, MovedOn DEF PastRead
    <3> QED BY <1>0, <1>3, <2>2, <3>1, <3>2, CallsPersist
  <2> QED BY <2>1, <2>2 DEF Reserve
<1>8. \A q \in Adapters : CallOK(run[q])'
  BY <1>3, <1>7, CallsAfter
<1>9. run' \in [Adapters -> Run]
  BY <1>0, <1>7 DEF Types, Goes
<1>10. Types'
  BY <1>0, <1>2, <1>5, <1>6, <1>9
     DEF Types, server, approvalVars, ApprovalTypeOK
<1>11. \A o \in orphans' : OrphanOK(o)'
  BY <1>0, <1>3 DEF Inv, Types, Orphan, OrphanOK, server, Grows
<1>12. \A b \in Approvals : GrantOK(b)' /\ TriesOK(b)'
  <2> SUFFICES ASSUME NEW b \in Approvals
               PROVE  GrantOK(b)' /\ TriesOK(b)'
    OBVIOUS
  <2>1. GrantOK(b)'
    BY <1>0 DEF Inv, GrantOK, Granted, server, approvalVars
  <2>2. CASE b = a
    BY <1>0, <1>1, <1>2, <1>5, <2>1, <2>2 DEF TriesOK, Granted, server
  <2>3. CASE b # a
    <3>1. TriesOK(b) /\ tries'[b] = tries[b] /\ grant' = grant
      BY <1>0, <1>5, <2>3 DEF Inv, server
    <3>2. Granted(b) => WorkspaceOf[grant[b].evidence] \in Workspaces
      BY <1>0, Nones DEF Types, Grant, Granted
    <3> QED BY <1>2, <2>1, <3>1, <3>2 DEF TriesOK, Granted
  <2> QED BY <2>2, <2>3
<1>13. \A u \in Workspaces, b \in Approvals : PlaceOK(u, b)'
  <2> SUFFICES ASSUME NEW u \in Workspaces, NEW b \in Approvals
               PROVE  PlaceOK(u, b)'
    OBVIOUS
  <2>1. PlaceOK(u, b) /\ grant' = grant /\ refs' = refs
    BY <1>0 DEF Inv, server
  <2>2. b \in attempts'[u] => b \in attempts[u] \/ (b = a /\ u = v)
    BY <1>2
  <2>3. attempts[u] \subseteq attempts'[u]
    BY <1>2
  <2> QED BY <1>1, <2>1, <2>2, <2>3 DEF PlaceOK, Granted
<1> QED BY <1>8, <1>10, <1>11, <1>12, <1>13 DEF Inv

(* A ref is created where none was, for a reserved attempt.                *)
LEMMA LandStep ==
  ASSUME GrantAssumption, Inv,
         NEW w \in Workspaces, NEW a \in Approvals, NEW c \in Commit,
         Landed(w, a, c), refs[w][a] = None,
         a \in attempts[w], c.at < grant[a].before,
         UNCHANGED <<server, staged, attempts, tries>>,
         lock' \in [Workspaces -> Adapters \cup {None}],
         orphans' \subseteq orphans,
         run' \in [Adapters -> Run], \A q \in Adapters : CallOK(run[q])'
  PROVE  Inv'
<1>0. Types
  BY DEF Inv
<1>1. /\ refs' \in [Workspaces -> [Approvals -> Commit \cup {None}]]
      /\ refs'[w][a] = c
      /\ \A u \in Workspaces, b \in Approvals :
            u # w \/ b # a => refs'[u][b] = refs[u][b]
  BY <1>0 DEF Types, Landed
<1>2. Types'
  BY <1>0, <1>1 DEF Types, Landed, server, approvalVars, ApprovalTypeOK
<1>3. \A o \in orphans' : OrphanOK(o)'
  BY DEF Inv, OrphanOK, server
<1>4. Granted(a) /\ w = WorkspaceOf[grant[a].evidence]
  BY DEF Inv, PlaceOK
<1>5. \A b \in Approvals : GrantOK(b)' /\ TriesOK(b)'
  <2> SUFFICES ASSUME NEW b \in Approvals
               PROVE  GrantOK(b)' /\ TriesOK(b)'
    OBVIOUS
  <2>1. GrantOK(b) /\ TriesOK(b)
    BY DEF Inv
  <2>2. grant[b].receipt # None =>
            /\ Granted(b) /\ WorkspaceOf[grant[b].evidence] \in Workspaces
            /\ refs[WorkspaceOf[grant[b].evidence]][b] # None
    BY <1>0, <2>1, Nones DEF GrantOK, Granted, Types, Grant
  <2>3. grant[b].receipt # None =>
            refs'[WorkspaceOf[grant[b].evidence]][b]
                = refs[WorkspaceOf[grant[b].evidence]][b]
    BY <1>1, <2>2
  <2>4. GrantOK(b)'
    BY <2>1, <2>3 DEF GrantOK, Granted, server, approvalVars
  <2>5. TriesOK(b)'
    BY <2>1 DEF TriesOK, Granted, server
  <2> QED BY <2>4, <2>5
<1>6. \A u \in Workspaces, b \in Approvals : PlaceOK(u, b)'
  <2> SUFFICES ASSUME NEW u \in Workspaces, NEW b \in Approvals
               PROVE  PlaceOK(u, b)'
    OBVIOUS
  <2>1. PlaceOK(u, b) /\ grant' = grant /\ attempts' = attempts
    BY DEF Inv, server
  <2>2. CASE u = w /\ b = a
    BY <1>1, <2>1, <2>2 DEF PlaceOK, Granted
  <2>3. CASE u # w \/ b # a
    BY <1>1, <2>1, <2>3 DEF PlaceOK, Granted
  <2> QED BY <2>2, <2>3
<1> QED BY <1>2, <1>3, <1>5, <1>6 DEF Inv

LEMMA LandGrows ==
  ASSUME Inv, NEW w \in Workspaces, NEW a \in Approvals, NEW c,
         Landed(w, a, c), refs[w][a] = None, UNCHANGED <<server, attempts>>
  PROVE  Grows
BY DEF Inv, Types, Landed, Grows, server, approvalVars

LEMMA UpdateRefsStep ==
  ASSUME GrantAssumption, Inv, NEW p \in Adapters, UpdateRefs(p)
  PROVE  Inv'
<1> DEFINE r == run[p]
<1>0. /\ r \in Run /\ CallOK(r) /\ Types /\ r.pc = "update"
      /\ r.approval \in Approvals /\ r.evidence \in Evidences
      /\ Place(p) \in Workspaces /\ Place(p) = WorkspaceOf[r.evidence]
      /\ r.approval \in attempts[Place(p)]
      /\ grant[r.approval].evidence = r.evidence
      /\ r.commit \in Commit /\ r.commit.at < grant[r.approval].before
      /\ approvals[r.approval].status = "approved"
      /\ clock \in Nat
  BY Nones DEF Inv, Types, CallOK, UpdateRefs, PastRead, Place, ApprovalTypeOK
<1>a. PICK a \in Approvals : a = r.approval
  BY <1>0
<1>w. PICK w \in Workspaces : w = Place(p)
  BY <1>0
<1>c. PICK c \in Commit : c = r.commit
  BY <1>0
<1>1. /\ Landed(w, a, c) /\ refs[w][a] = None
      /\ UNCHANGED <<server, staged, attempts, orphans, tries>>
  BY <1>a, <1>w, <1>c DEF UpdateRefs, Found
<1>2. Grows
  BY <1>1, LandGrows
<1>3. refs'[w][a] = c
  BY <1>0, <1>1 DEF Landed, Types
<1>4. \E s \in Run : Goes(p, s) /\ CallOK(s)'
  <2>1. CASE Goes(p, Submitting(r, r.commit))
    <3>1. PICK s : s = Submitting(r, c)
      OBVIOUS
    <3>2. /\ s \in Run /\ s.pc = "submit" /\ s.approval = r.approval
          /\ s.evidence = r.evidence /\ s.commit = c
      BY <1>0, <3>1 DEF Run, Submitting
    <3>3. CallOK(s)'
      BY <1>0, <1>1, <1>3, <1>a, <1>w, <3>2
         DEF CallOK, PastRead, server, approvalVars
    <3> QED BY <2>1, <1>c, <3>1, <3>2, <3>3
  <2>2. CASE Goes(p, [r EXCEPT !.pc = "failed"])
    <3>1. PICK s : s = [r EXCEPT !.pc = "failed"]
      OBVIOUS
    <3>2. s \in Run /\ CallOK(s)
      BY <1>0, <3>1, MovedOn DEF PastRead
    <3> QED BY <1>0, <1>2, <2>2, <3>1, <3>2, CallsPersist
  <2> QED BY <2>1, <2>2 DEF UpdateRefs
<1>5. \A q \in Adapters : CallOK(run[q])'
  BY <1>2, <1>4, CallsAfter
<1>6. run' \in [Adapters -> Run]
  BY <1>0, <1>4 DEF Types, Goes
<1>7. lock' \in [Workspaces -> Adapters \cup {None}]
  BY <1>0 DEF UpdateRefs, Types, Unlocked
<1>8. c.at < grant[a].before /\ a \in attempts[w]
  BY <1>0, <1>a, <1>w, <1>c
<1> QED BY <1>1, <1>5, <1>6, <1>7, <1>8, LandStep

LEMMA OrphanStep ==
  ASSUME GrantAssumption, Inv, NEW o \in orphans, OrphanUpdates(o)
  PROVE  Inv'
<1>0. /\ Types /\ OrphanOK(o) /\ o.workspace \in Workspaces
      /\ o.approval \in Approvals /\ o.commit \in Commit
  BY DEF Inv, Types, Orphan
<1>1. /\ Landed(o.workspace, o.approval, o.commit)
      /\ refs[o.workspace][o.approval] = None
      /\ UNCHANGED <<server, staged, attempts, lock, run, tries>>
      /\ orphans' \subseteq orphans
  BY DEF OrphanUpdates
<1>2. Grows
  BY <1>0, <1>1, LandGrows
<1>3. \A q \in Adapters : CallOK(run[q])'
  <2> SUFFICES ASSUME NEW q \in Adapters
               PROVE  CallOK(run[q])'
    OBVIOUS
  <2>1. PICK r : r = run[q]
    OBVIOUS
  <2>2. CallOK(r) /\ r = run'[q]
    BY <1>1, <2>1 DEF Inv
  <2>3. CallOK(r)'
    BY <1>0, <1>2, <2>2, CallsPersist
  <2> QED BY <2>2, <2>3 DEF CallOK
<1>4. /\ run' \in [Adapters -> Run]
      /\ lock' \in [Workspaces -> Adapters \cup {None}]
  BY <1>0, <1>1 DEF Types
<1> QED BY <1>0, <1>1, <1>3, <1>4, LandStep DEF OrphanOK

-----------------------------------------------------------------------------
(* What surrounds the calls, and the whole. *)

LEMMA CrashStep ==
  ASSUME GrantAssumption, Inv, NEW p \in Adapters, Crash(p)
  PROVE  Inv'
<1> DEFINE r == run[p]
           o == [workspace |-> Place(p), approval |-> r.approval,
                 commit |-> r.commit, head |-> HeadOf[r.evidence]]
<1>0. /\ Types /\ Ends(p) /\ r \in Run /\ CallOK(r)
      /\ UNCHANGED <<server, head, staged, attempts, refs, tries>>
  BY DEF Inv, Types, Crash
<1>1. lock' \in [Workspaces -> Adapters \cup {None}]
  BY <1>0 DEF Crash, Types
<1>2. CASE UNCHANGED orphans
  BY <1>0, <1>1, <1>2, IdleIsRight, LocalStep DEF Local, server, Ends
<1>3. CASE r.pc = "update" /\ orphans' = orphans \cup {o}
  <2>1. /\ r.approval \in Approvals /\ r.evidence \in Evidences
        /\ Place(p) \in Workspaces /\ Place(p) = WorkspaceOf[r.evidence]
        /\ HeadOf[r.evidence] \in Heads /\ r.commit \in Commit
        /\ r.commit.at < grant[r.approval].before
        /\ r.approval \in attempts[Place(p)]
    BY <1>0, <1>3, Nones DEF CallOK, Place
  <2>2. PICK o1 \in Orphan : o1 = o
    BY <2>1 DEF Orphan
  <2>3. OrphanOK(o1)
    BY <2>1, <2>2 DEF OrphanOK
  <2>4. orphans' = orphans \cup {o1}
    BY <1>3, <2>2
  <2>5. run' \in [Adapters -> Run]
    BY <1>0, IdleIsRight DEF Types, Ends, Goes
  <2>6. Types'
    BY <1>0, <1>1, <2>4, <2>5 DEF Types, server, approvalVars, ApprovalTypeOK
  <2>7. Grows
    BY <1>0 DEF Grows, server, approvalVars
  <2>8. PICK s : s = Idle
    OBVIOUS
  <2>9. Goes(p, s) /\ CallOK(s)'
    BY <1>0, <2>8 DEF Ends, Idle, CallOK, PastRead
  <2>10. \A q \in Adapters : CallOK(run[q])'
    BY <2>7, <2>9, CallsAfter
  <2>11. \A u \in orphans' : OrphanOK(u)'
    BY <1>0, <2>3, <2>4 DEF Inv, OrphanOK, server
  <2>12. \A a \in Approvals : GrantOK(a)' /\ TriesOK(a)'
    BY <1>0 DEF Inv, GrantOK, TriesOK, Granted, server, approvalVars
  <2>13. \A w \in Workspaces, a \in Approvals : PlaceOK(w, a)'
    BY <1>0 DEF Inv, PlaceOK, Granted, server
  <2> QED BY <2>6, <2>10, <2>11, <2>12, <2>13 DEF Inv
<1> QED BY <1>2, <1>3 DEF Crash

(* The branch and the index are the developer's. *)
LEMMA QuietStep ==
  ASSUME Inv, UNCHANGED <<approvalVars, grant, attempts, refs, lock, orphans,
                          run, tries>>,
         head' \in [Workspaces -> Heads \cup {None}],
         staged' \in [Workspaces -> Evidences \cup {None}]
  PROVE  Inv'
<1>1. Types'
  BY DEF Inv, Types, approvalVars, ApprovalTypeOK
<1>2. \A p \in Adapters : CallOK(run[p])'
  BY DEF Inv, CallOK, approvalVars
<1>3. \A o \in orphans' : OrphanOK(o)'
  BY DEF Inv, OrphanOK
<1>4. \A a \in Approvals : GrantOK(a)' /\ TriesOK(a)'
  BY DEF Inv, GrantOK, TriesOK, Granted, approvalVars
<1>5. \A w \in Workspaces, a \in Approvals : PlaceOK(w, a)'
  BY DEF Inv, PlaceOK, Granted
<1> QED BY <1>1, <1>2, <1>3, <1>4, <1>5 DEF Inv

LEMMA DevelopStep ==
  ASSUME Inv, NEW w \in Workspaces, Develop(w)
  PROVE  Inv'
<1>1. /\ head' \in [Workspaces -> Heads \cup {None}]
      /\ staged' \in [Workspaces -> Evidences \cup {None}]
  BY DEF Inv, Types, Develop
<1> QED BY <1>1, QuietStep DEF Develop, server

LEMMA StutterStep ==
  ASSUME Inv, UNCHANGED vars
  PROVE  Inv'
<1>1. /\ head' \in [Workspaces -> Heads \cup {None}]
      /\ staged' \in [Workspaces -> Evidences \cup {None}]
  BY DEF Inv, Types, vars, grantVars
<1> QED BY <1>1, QuietStep DEF vars, grantVars

LEMMA InvStep ==
  ASSUME ApprovalAssumption, GrantAssumption, Inv, [Next]_vars
  PROVE  Inv'
<1>1. CASE ApprovalNext /\ UNCHANGED grantVars
  BY <1>1, ApprovalsStep
<1>2. ASSUME NEW p \in Adapters,
             (\E a \in Approvals, e \in Evidences : Call(p, a, e))
                \/ Step(p) \/ Crash(p)
      PROVE  Inv'
  BY <1>2, LocalSteps, PrepareStep, ReserveStep, UpdateRefsStep,
     MarkUnknownStep, SubmitStep, CrashStep DEF Step
<1>3. ASSUME NEW o \in orphans, OrphanUpdates(o)
      PROVE  Inv'
  BY <1>3, OrphanStep
<1>4. ASSUME NEW w \in Workspaces, Develop(w)
      PROVE  Inv'
  BY <1>4, DevelopStep
<1>5. CASE UNCHANGED vars
  BY <1>5, StutterStep
<1> QED BY <1>1, <1>2, <1>3, <1>4, <1>5 DEF Next

(* Inv holds in every state. *)
THEOREM Invariance == Spec => []Inv
<1> USE ApprovalAssumption, GrantAssumption
<1>1. Init => Inv
  BY InitInv
<1>2. Inv /\ [Next]_vars => Inv'
  BY InvStep
<1> QED BY <1>1, <1>2, PTL DEF Spec

-----------------------------------------------------------------------------

(* Types, and that no grant's window is empty or for anything but an       *)
(* approved Approval: what the guard of migration 0036 admits.             *)
THEOREM TypeCorrect == Spec => []TypeOK
<1>1. Inv => TypeOK
  BY DEF Inv, Types, TypeOK, GrantOK
<1> QED BY Invariance, <1>1, PTL

(* The commit of an Approval is begun at most once and lands in at most    *)
(* one workspace: a second call would find the attempt ref of the first.   *)
THEOREM OneAttempt == Spec => []AtMostOneAttempt
<1>1. Inv => AtMostOneAttempt
  BY DEF Inv, TriesOK, PlaceOK, AtMostOneAttempt
<1> QED BY Invariance, <1>1, PTL

(* Whatever is committed was granted, there and in time.                   *)
THEOREM GrantedCommits == Spec => []CommitsAreGranted
<1> USE GrantAssumption
<1>1. ASSUME Inv, NEW w \in Workspaces, NEW a \in Approvals, refs[w][a] # None
      PROVE  /\ Granted(a) /\ w = WorkspaceOf[grant[a].evidence]
             /\ refs[w][a].at < grant[a].before
             /\ refs[w][a].at < approvals[a].expires
  <2>1. /\ Granted(a) /\ w = WorkspaceOf[grant[a].evidence]
        /\ refs[w][a].at < grant[a].before
        /\ grant[a].before <= approvals[a].expires
    BY <1>1 DEF Inv, PlaceOK, GrantOK
  <2>2. refs[w][a] \in Commit /\ grant[a] \in Grant /\ approvals[a] \in ApprovalRow
    BY <1>1 DEF Inv, Types, ApprovalTypeOK
  <2>3. /\ refs[w][a].at \in Int /\ grant[a].before \in Nat
        /\ approvals[a].expires \in Nat
    BY <2>2 DEF Commit, Grant, ApprovalRow
  <2> QED BY <2>1, <2>3
<1>2. Inv => CommitsAreGranted
  BY <1>1 DEF CommitsAreGranted
<1> QED BY Invariance, <1>2, PTL

(* The server holds a receipt only of the commit that is there.            *)
THEOREM TrueReceipts == Spec => []ReceiptsAreTrue
<1>1. Inv => ReceiptsAreTrue
  BY DEF Inv, GrantOK, ReceiptsAreTrue
<1> QED BY Invariance, <1>1, PTL

-----------------------------------------------------------------------------
(* Reconciliation. *)

(* r is a call on its way to begin the commit of a. *)
Heading(r, a) ==
    /\ r.approval = a
    /\ \/ r.pc \in {"lock", "locked"}
       \/ r.pc = "look" /\ r.open

LEMMA NoneHeads ==
  ASSUME Inv, NEW a \in Approvals, \A q \in Adapters : ~Committed(q, a),
         NEW p \in Adapters, NEW s, Goes(p, s), ~Heading(s, a)
  PROVE  \A q \in Adapters : ~Committed(q, a)'
BY DEF Inv, Types, Goes, Committed, Heading

(* A call that is not on its way does not get there: an unknown result     *)
(* is looked at by everyone who reads the grant.                           *)
LEMMA CallsStayOff ==
  ASSUME GrantAssumption, Inv, NEW a \in Approvals, grant[a].unknown,
         \A q \in Adapters : ~Committed(q, a), NEW p \in Adapters,
         (\E b \in Approvals, e \in Evidences : Call(p, b, e))
            \/ Step(p) \/ Crash(p)
  PROVE  \A q \in Adapters : ~Committed(q, a)'
<1> DEFINE r == run[p]
<1>0. /\ r \in Run /\ CallOK(r) /\ ~Heading(r, a) /\ Granted(a)
  BY DEF Inv, Types, GrantOK, Committed, Heading
<1>i. ~Heading(Idle, a)
  BY DEF Heading, Idle
<1>m. \A pc : pc \notin {"look", "lock", "locked"} =>
          ~Heading([r EXCEPT !.pc = pc], a)
  BY <1>0 DEF Heading, Run
<1>u. \A c : ~Heading(Submitting(r, c), a)
  BY <1>0 DEF Heading, Submitting, Run
<1>v. r.approval = a => ~Heading(Viewed(r, grant[a]), a)
  BY <1>0, <1>i DEF Viewed, Heading, Run
<1>1. ASSUME NEW b \in Approvals, NEW e \in Evidences, Call(p, b, e)
      PROVE  \A q \in Adapters : ~Committed(q, a)'
  <2> DEFINE s == [Idle EXCEPT !.pc = "read", !.approval = b, !.evidence = e]
  <2>1. ~Heading(s, a)
    BY DEF Heading, Idle
  <2>2. Goes(p, s)
    BY <1>1 DEF Call
  <2> QED BY <2>1, <2>2, NoneHeads
<1>2. CASE GivesUp(p) \/ MarkUnknown(p) \/ Submit(p) \/ Crash(p)
  BY <1>2, <1>i, NoneHeads DEF GivesUp, MarkUnknown, Submit, Crash, Ends
<1>3. CASE ReadGrant(p)
  <2>1. CASE r.approval = a
    BY <1>3, <1>0, <1>v, <2>1, NoneHeads DEF ReadGrant
  <2>2. CASE r.approval # a
    <3> DEFINE g == grant[r.approval]
               s == IF Granted(r.approval) THEN Viewed(r, g)
                    ELSE IF /\ AsObserved(r.evidence)
                            /\ AdapterClock < approvals[r.approval].expires
                    THEN [r EXCEPT !.pc = "prepare", !.now = clock]
                    ELSE Idle
    <3>1. Viewed(r, g).approval \in {r.approval, None}
      BY <1>0 DEF Viewed, Idle, Run
    <3>2. s.approval \in {r.approval, None}
      BY <1>0, <3>1 DEF Idle, Run
    <3>3. ~Heading(s, a)
      BY <2>2, <3>2, Nones DEF Heading
    <3>4. Goes(p, s)
      BY <1>3 DEF ReadGrant
    <3> HIDE DEF s
    <3> QED BY <3>3, <3>4, NoneHeads
  <2> QED BY <2>1, <2>2
<1>4. CASE Prepare(p)
  <2>1. PICK now \in HandlerReadings(r) :
        \/ ~Granted(r.approval) /\ Goes(p, Viewed(r, GrantFor(r, now)))
        \/ Goes(p, Viewed(r, grant[r.approval]))
        \/ Goes(p, Idle)
    BY <1>4 DEF Prepare, Ends
  <2>2. CASE r.approval = a
    BY <1>0, <1>i, <1>v, <2>1, <2>2, NoneHeads
  <2>3. CASE r.approval # a
    <3>1. \A g : Viewed(r, g).approval \in {r.approval, None}
      BY <1>0 DEF Viewed, Idle, Run
    <3>2. \A g : ~Heading(Viewed(r, g), a)
      BY <2>3, <3>1, Nones DEF Heading
    <3> QED BY <1>i, <2>1, <3>2, NoneHeads
  <2> QED BY <2>2, <2>3
<1>5. CASE Look(p)
  <2>1. CASE r.approval = a
    <3>1. ~r.open
      BY <1>0, <1>5, <2>1 DEF Look, Heading
    <3> QED BY <1>5, <1>i, <1>u, <3>1, NoneHeads DEF Look
  <2>2. CASE r.approval # a
    <3>1. \A pc : ~Heading([r EXCEPT !.pc = pc], a)
      BY <1>0, <2>2 DEF Heading, Run
    <3>2. Goes(p, Submitting(r, Found(p))) \/ Goes(p, [r EXCEPT !.pc = "lock"])
          \/ Goes(p, Idle)
      BY <1>5 DEF Look
    <3> QED BY <1>i, <1>u, <3>1, <3>2, NoneHeads
  <2> QED BY <2>1, <2>2
<1>6. CASE Lock(p)
  <2>1. r.approval # a
    BY <1>0, <1>6 DEF Lock, Heading
  <2>2. ~Heading([r EXCEPT !.pc = "locked"], a)
    BY <1>0, <2>1 DEF Heading, Run
  <2> QED BY <1>6, <2>2, NoneHeads DEF Lock
<1>7. CASE LockTimeout(p) \/ GitFails(p) \/ Refuse(p)
  BY <1>7, <1>m, NoneHeads DEF LockTimeout, GitFails, Refuse
<1>8. CASE FindUnderLock(p)
  BY <1>8, <1>u, NoneHeads DEF FindUnderLock
<1>9. CASE Reserve(p)
  <2>1. Goes(p, [r EXCEPT !.pc = "tree"]) \/ Goes(p, [r EXCEPT !.pc = "failed"])
    BY <1>9 DEF Reserve
  <2> QED BY <1>m, <2>1, NoneHeads
<1>10. CASE WriteTree(p)
  <2> DEFINE c == [at |-> OnSecond(AdapterClock), tree |-> staged[Place(p)]]
             s == [r EXCEPT !.pc = "commit", !.commit = c]
  <2>1. Goes(p, s)
    BY <1>10 DEF WriteTree
  <2> HIDE DEF c
  <2>2. ~Heading(s, a)
    BY <1>0 DEF Heading, Run
  <2> QED BY <2>1, <2>2, NoneHeads
<1>11. CASE CommitTree(p)
  BY <1>11, <1>m, NoneHeads DEF CommitTree
<1>12. CASE UpdateRefs(p) \/ UpdateRefused(p) \/ Failed(p)
  <2>1. \/ \E c : Goes(p, Submitting(r, c))
        \/ Goes(p, [r EXCEPT !.pc = "failed"])
        \/ Goes(p, [r EXCEPT !.pc = "mark"])
    BY <1>12 DEF UpdateRefs, UpdateRefused, Failed
  <2> QED BY <1>m, <1>u, <2>1, NoneHeads
<1> QED BY <1>1, <1>2, <1>3, <1>4, <1>5, <1>6, <1>7, <1>8, <1>9, <1>10, <1>11,
           <1>12 DEF Step

(* No step forgets an unknown result, and only a call on its way begins    *)
(* a commit.                                                               *)
LEMMA RowsStayUnknown ==
  ASSUME GrantAssumption, Inv, NEW a \in Approvals, grant[a].unknown,
         \A q \in Adapters : ~Committed(q, a), NEW p \in Adapters, Step(p)
  PROVE  grant'[a].unknown /\ tries'[a] = tries[a]
<1> DEFINE r == run[p]
<1>0. Granted(a) /\ grant \in [Approvals -> Grant] /\ tries \in [Approvals -> Nat]
      /\ (r.pc # "idle" => r.approval \in Approvals)
  BY DEF Inv, Types, GrantOK, CallOK
<1>1. CASE Prepare(p)
  <2>1. tries' = tries
    BY <1>1 DEF Prepare, workspace
  <2>2. UNCHANGED grant \/ \E g : /\ ~Granted(r.approval)
                                  /\ grant' = [grant EXCEPT ![r.approval] = g]
    BY <1>1 DEF Prepare
  <2>3. CASE UNCHANGED grant
    BY <2>1, <2>3
  <2>4. ASSUME NEW g, ~Granted(r.approval), grant' = [grant EXCEPT ![r.approval] = g]
        PROVE  grant'[a] = grant[a]
    BY <1>0, <2>4
  <2> QED BY <2>1, <2>2, <2>3, <2>4
<1>2. CASE MarkUnknown(p)
  <2>1. tries' = tries
    BY <1>2 DEF MarkUnknown, workspace
  <2>2. UNCHANGED grant \/ grant' = [grant EXCEPT ![r.approval].unknown = TRUE]
    BY <1>2 DEF MarkUnknown
  <2>3. grant[a] \in Grant
    BY <1>0
  <2>4. grant'[a].unknown
    BY <1>0, <2>2, <2>3 DEF Grant
  <2> QED BY <2>1, <2>4
<1>3. CASE Submit(p)
  <2>1. tries' = tries
    BY <1>3 DEF Submit, workspace
  <2>2. UNCHANGED grant \/ grant' = [grant EXCEPT ![r.approval].receipt = r.commit]
    BY <1>3 DEF Submit
  <2>3. grant[a] \in Grant
    BY <1>0
  <2>4. grant'[a].unknown
    BY <1>0, <2>2, <2>3 DEF Grant
  <2> QED BY <2>1, <2>4
<1>4. CASE Reserve(p)
  <2>1. grant' = grant /\ r.pc = "locked"
    BY <1>4 DEF Reserve, server
  <2>2. r.approval # a
    BY <2>1 DEF Committed
  <2>3. tries' = tries \/ tries' = [tries EXCEPT ![r.approval] = @ + 1]
    BY <1>4 DEF Reserve
  <2> QED BY <1>0, <2>1, <2>2, <2>3
<1>5. CASE UpdateRefs(p)
  BY <1>5 DEF UpdateRefs, server
<1>6. CASE \/ ReadGrant(p) \/ Look(p) \/ GivesUp(p) \/ Lock(p) \/ LockTimeout(p)
           \/ GitFails(p) \/ FindUnderLock(p) \/ Refuse(p) \/ WriteTree(p)
           \/ CommitTree(p) \/ UpdateRefused(p) \/ Failed(p)
  <2>1. UNCHANGED <<server, workspace>>
    BY <1>6 DEF ReadGrant, Look, GivesUp, Lock, LockTimeout, GitFails,
                FindUnderLock, Refuse, WriteTree, CommitTree, UpdateRefused, Failed
  <2> QED BY <2>1 DEF server, workspace
<1> QED BY <1>1, <1>2, <1>3, <1>4, <1>5, <1>6 DEF Step

LEMMA ReconciliationStep ==
  ASSUME GrantAssumption, Inv, [Next]_vars, NEW a \in Approvals,
         grant[a].unknown, \A q \in Adapters : ~Committed(q, a)
  PROVE  /\ grant'[a].unknown
         /\ \A q \in Adapters : ~Committed(q, a)'
         /\ tries'[a] = tries[a]
<1>1. CASE UNCHANGED <<grant, run, tries>>
  BY <1>1 DEF Committed
<1>2. ASSUME NEW p \in Adapters, Step(p)
      PROVE  /\ grant'[a].unknown
             /\ \A q \in Adapters : ~Committed(q, a)'
             /\ tries'[a] = tries[a]
  BY <1>2, CallsStayOff, RowsStayUnknown
<1>3. ASSUME NEW p \in Adapters,
             (\E b \in Approvals, e \in Evidences : Call(p, b, e)) \/ Crash(p)
      PROVE  /\ grant'[a].unknown
             /\ \A q \in Adapters : ~Committed(q, a)'
             /\ tries'[a] = tries[a]
  <2>1. grant' = grant /\ tries' = tries
    BY <1>3 DEF Call, Crash, server, workspace
  <2> QED BY <1>3, <2>1, CallsStayOff
<1>4. CASE \/ ApprovalNext /\ UNCHANGED grantVars
           \/ \E o \in orphans : OrphanUpdates(o)
           \/ \E w \in Workspaces : Develop(w)
           \/ UNCHANGED vars
  BY <1>1, <1>4 DEF OrphanUpdates, Develop, server, grantVars, vars
<1> QED BY <1>2, <1>3, <1>4 DEF Next

(* Once the result is unknown and nobody is on his way to the commit, it   *)
(* is never begun again, however often the call is repeated.               *)
THEOREM Reconciliation == Spec => OnlyReconciliation
<1> USE GrantAssumption
<1>1. Inv /\ [Next]_vars =>
        [\A a \in Approvals :
            grant[a].unknown /\ (\A p \in Adapters : ~Committed(p, a)) =>
                /\ grant'[a].unknown
                /\ \A p \in Adapters : ~Committed(p, a)'
                /\ tries'[a] = tries[a]]_vars
  BY ReconciliationStep
<1> QED BY Invariance, <1>1, PTL DEF Spec, OnlyReconciliation

-----------------------------------------------------------------------------
(* Server and Adapters implement OneShot. *)

Done(a) == \E w \in Workspaces : refs[w][a] # None

phaseBar == [a \in Approvals |-> Phase(a)]
performedBar == [a \in Approvals |-> Done(a)]

(* The abstract step of one Approval, from what changes of it. *)
LEMMA PhaseMoves ==
  ASSUME NEW a \in Approvals, NEW x, Phase(a)' = x,
         \A b \in Approvals \ {a} : Phase(b)' = Phase(b),
         UNCHANGED refs
  PROVE  /\ phaseBar' = [phaseBar EXCEPT ![a] = x]
         /\ performedBar' = performedBar
<1>1. \A b \in Approvals : Phase(b)' = IF b = a THEN x ELSE Phase(b)
  OBVIOUS
<1>2. phaseBar' = [b \in Approvals |-> Phase(b)']
  BY DEF phaseBar
<1>3. [phaseBar EXCEPT ![a] = x] = [b \in Approvals |-> IF b = a THEN x ELSE Phase(b)]
  BY DEF phaseBar
<1>4. phaseBar' = [phaseBar EXCEPT ![a] = x]
  BY <1>1, <1>2, <1>3
<1>5. performedBar' = performedBar
  BY DEF performedBar, Done
<1> QED BY <1>4, <1>5

LEMMA Unseen ==
  ASSUME UNCHANGED <<grant, refs>>
  PROVE  phaseBar' = phaseBar /\ performedBar' = performedBar
BY DEF phaseBar, performedBar, Phase, Done, Granted

(* A step in the phases of the rows of one Approval. *)
LEMMA RowIsAbstract ==
  ASSUME GrantAssumption, Inv, NEW a \in Approvals, NEW g,
         grant' = [grant EXCEPT ![a] = g], UNCHANGED refs,
         \/ ~Granted(a) /\ g.evidence # None /\ g.receipt = None /\ ~g.unknown
         \/ /\ Granted(a) /\ grant[a].receipt = None
            /\ g.evidence # None /\ g.receipt = None /\ g.unknown
         \/ /\ Granted(a) /\ grant[a].receipt = None /\ Done(a)
            /\ g.evidence # None /\ g.receipt # None
  PROVE  \/ phaseBar' = phaseBar /\ performedBar' = performedBar
         \/ S!Authorize(a) \/ S!LoseTrack(a) \/ S!Confirm(a)
<1>1. grant'[a] = g /\ \A b \in Approvals \ {a} : grant'[b] = grant[b]
  BY DEF Inv, Types
<1>2. \A b \in Approvals \ {a} : Phase(b)' = Phase(b)
  BY <1>1 DEF Phase, Granted
<1>3. phaseBar[a] = Phase(a) /\ performedBar[a] = Done(a)
  BY DEF phaseBar, performedBar
<1>4. CASE ~Granted(a) /\ g.evidence # None /\ g.receipt = None /\ ~g.unknown
  <2>1. Phase(a) = "none" /\ Phase(a)' = "authorized"
    BY <1>1, <1>4 DEF Phase, Granted
  <2>2. /\ phaseBar' = [phaseBar EXCEPT ![a] = "authorized"]
        /\ performedBar' = performedBar
    BY <1>2, <2>1, PhaseMoves
  <2> QED BY <1>3, <2>1, <2>2 DEF S!Authorize, phaseBar, performedBar, Done
<1>5. CASE /\ Granted(a) /\ grant[a].receipt = None
           /\ g.evidence # None /\ g.receipt = None /\ g.unknown
  <2>1. Phase(a)' = "unknown"
    BY <1>1, <1>5 DEF Phase, Granted
  <2>2. /\ phaseBar' = [phaseBar EXCEPT ![a] = "unknown"]
        /\ performedBar' = performedBar
    BY <1>2, <2>1, PhaseMoves
  <2>3. CASE grant[a].unknown
    <3>1. Phase(a) = "unknown"
      BY <1>5, <2>3 DEF Phase
    <3>2. phaseBar' = phaseBar
      BY <2>2, <3>1 DEF phaseBar
    <3> QED BY <2>2, <3>2
  <2>4. CASE ~grant[a].unknown
    <3>1. Phase(a) = "authorized"
      BY <1>5, <2>4 DEF Phase
    <3> QED BY <1>3, <2>2, <3>1 DEF S!LoseTrack, phaseBar, performedBar, Done
  <2> QED BY <2>3, <2>4
<1>6. CASE /\ Granted(a) /\ grant[a].receipt = None /\ Done(a)
           /\ g.evidence # None /\ g.receipt # None
  <2>1. Phase(a)' = "done" /\ Phase(a) \in {"authorized", "unknown"}
    BY <1>1, <1>6 DEF Phase, Granted
  <2>2. /\ phaseBar' = [phaseBar EXCEPT ![a] = "done"]
        /\ performedBar' = performedBar
    BY <1>2, <2>1, PhaseMoves
  <2> QED BY <1>3, <1>6, <2>1, <2>2 DEF S!Confirm, phaseBar, performedBar, Done
<1> QED BY <1>4, <1>5, <1>6

LEMMA LandingIsAbstract ==
  ASSUME GrantAssumption, Inv, NEW w \in Workspaces, NEW a \in Approvals,
         NEW c \in Commit, Landed(w, a, c), refs[w][a] = None,
         a \in attempts[w], UNCHANGED grant
  PROVE  S!Perform(a)
<1>1. Granted(a) /\ w = WorkspaceOf[grant[a].evidence]
  BY DEF Inv, PlaceOK
<1>2. \A v \in Workspaces : refs[v][a] = None
  BY <1>1 DEF Inv, PlaceOK
<1>3. grant[a].receipt = None
  BY <1>1, <1>2 DEF Inv, GrantOK
<1>4. Phase(a) \in {"authorized", "unknown"} /\ ~Done(a)
  BY <1>1, <1>2, <1>3 DEF Phase, Done
<1>5. /\ refs'[w][a] = c
      /\ \A v \in Workspaces, b \in Approvals :
            b # a => refs'[v][b] = refs[v][b]
  BY DEF Inv, Types, Landed
<1>6. c # None
  BY Nones
<1>7. \A b \in Approvals : Done(b)' = IF b = a THEN TRUE ELSE Done(b)
  <2> SUFFICES ASSUME NEW b \in Approvals
               PROVE  Done(b)' = IF b = a THEN TRUE ELSE Done(b)
    OBVIOUS
  <2>1. CASE b = a
    BY <1>5, <1>6, <2>1 DEF Done
  <2>2. CASE b # a
    BY <1>5, <2>2 DEF Done
  <2> QED BY <2>1, <2>2
<1>8. performedBar' = [performedBar EXCEPT ![a] = TRUE]
  <2>1. performedBar' = [b \in Approvals |-> Done(b)']
    BY DEF performedBar
  <2>2. [performedBar EXCEPT ![a] = TRUE]
          = [b \in Approvals |-> IF b = a THEN TRUE ELSE Done(b)]
    BY DEF performedBar
  <2> QED BY <1>7, <2>1, <2>2
<1>9. phaseBar' = phaseBar
  BY DEF phaseBar, Phase, Granted
<1>10. phaseBar[a] = Phase(a) /\ performedBar[a] = Done(a)
  BY DEF phaseBar, performedBar
<1> QED BY <1>4, <1>8, <1>9, <1>10 DEF S!Perform, phaseBar, performedBar, Done

LEMMA CallIsAbstract ==
  ASSUME GrantAssumption, Inv, NEW p \in Adapters, Step(p)
  PROVE  \/ phaseBar' = phaseBar /\ performedBar' = performedBar
         \/ \E a \in Approvals : \/ S!Authorize(a) \/ S!Perform(a)
                                \/ S!LoseTrack(a) \/ S!Confirm(a)
<1> DEFINE r == run[p]
<1>0. /\ r \in Run /\ CallOK(r) /\ Types
      /\ r.pc # "idle" => r.approval \in Approvals /\ r.evidence \in Evidences
  BY DEF Inv, Types, CallOK
<1>1. CASE Prepare(p)
  <2>1. UNCHANGED refs
    BY <1>1 DEF Prepare, workspace
  <2>2. PICK a \in Approvals : a = r.approval
    BY <1>0, <1>1 DEF Prepare
  <2>3. CASE UNCHANGED grant
    BY <2>1, <2>3, Unseen
  <2>4. CASE ~(UNCHANGED grant)
    <3>1. PICK now \in HandlerReadings(r) :
            /\ ~Granted(a) /\ grant' = [grant EXCEPT ![a] = GrantFor(r, now)]
      BY <1>1, <2>2, <2>4 DEF Prepare
    <3>2. PICK g : g = GrantFor(r, now)
      OBVIOUS
    <3>3. g.evidence = r.evidence /\ g.receipt = None /\ ~g.unknown
      BY <3>2 DEF GrantFor, NoGrant
    <3>4. r.evidence # None
      BY <1>0, <1>1, Nones DEF Prepare
    <3> QED BY <2>1, <3>1, <3>2, <3>3, <3>4, RowIsAbstract
  <2> QED BY <2>3, <2>4
<1>2. CASE MarkUnknown(p)
  <2>1. UNCHANGED refs
    BY <1>2 DEF MarkUnknown, workspace
  <2>2. PICK a \in Approvals : a = r.approval
    BY <1>0, <1>2 DEF MarkUnknown
  <2>3. CASE UNCHANGED grant
    BY <2>1, <2>3, Unseen
  <2>4. CASE ~(UNCHANGED grant)
    <3>1. /\ grant[a].receipt = None
          /\ grant' = [grant EXCEPT ![a].unknown = TRUE]
      BY <1>2, <2>2, <2>4 DEF MarkUnknown
    <3>2. PICK g : g = [grant[a] EXCEPT !.unknown = TRUE]
      OBVIOUS
    <3>3. grant[a].evidence = r.evidence /\ r.evidence # None /\ grant[a] \in Grant
      BY <1>0, <1>2, <2>2, Nones DEF MarkUnknown, CallOK, PastRead, Types
    <3>4. /\ g.evidence = grant[a].evidence /\ g.unknown = TRUE
          /\ g.receipt = grant[a].receipt
      BY <3>2, <3>3 DEF Grant
    <3>5. grant' = [grant EXCEPT ![a] = g]
      BY <3>1, <3>2
    <3> QED BY <2>1, <3>1, <3>3, <3>4, <3>5, RowIsAbstract DEF Granted
  <2> QED BY <2>3, <2>4
<1>3. CASE Submit(p)
  <2>1. UNCHANGED refs
    BY <1>3 DEF Submit, workspace
  <2>2. PICK a \in Approvals : a = r.approval
    BY <1>0, <1>3 DEF Submit
  <2>3. CASE UNCHANGED grant
    BY <2>1, <2>3, Unseen
  <2>4. CASE ~(UNCHANGED grant)
    <3>c. PICK c : c = r.commit
      OBVIOUS
    <3>1. /\ grant[a].receipt = None
          /\ grant' = [grant EXCEPT ![a].receipt = c]
      BY <1>3, <2>2, <2>4, <3>c DEF Submit
    <3>2. PICK g : g = [grant[a] EXCEPT !.receipt = c]
      OBVIOUS
    <3>3. /\ grant[a].evidence = r.evidence /\ r.evidence # None /\ grant[a] \in Grant
          /\ c # None /\ Done(a)
      <4>1. /\ c \in Commit /\ c = refs[WorkspaceOf[r.evidence]][a]
            /\ grant[a].evidence = r.evidence
        BY <1>0, <1>3, <2>2, <3>c DEF Submit, CallOK, PastRead
      <4>2. r.evidence \in Evidences
        BY <1>0, <1>3 DEF Submit
      <4>3. grant[a] \in Grant
        BY <1>0 DEF Types
      <4> QED BY <4>1, <4>2, <4>3, Nones DEF Done
    <3>4. g.evidence = grant[a].evidence /\ g.receipt = c
      BY <3>2, <3>3 DEF Grant
    <3>5. grant' = [grant EXCEPT ![a] = g]
      BY <3>1, <3>2
    <3> QED BY <2>1, <3>1, <3>3, <3>4, <3>5, RowIsAbstract DEF Granted
  <2> QED BY <2>3, <2>4
<1>4. CASE UpdateRefs(p)
  <2>1. /\ r.approval \in Approvals /\ Place(p) \in Workspaces
        /\ r.commit \in Commit /\ r.approval \in attempts[Place(p)]
    BY <1>0, <1>4, Nones DEF UpdateRefs, CallOK, Place
  <2>2. /\ Landed(Place(p), r.approval, r.commit)
        /\ refs[Place(p)][r.approval] = None /\ UNCHANGED grant
    BY <1>4 DEF UpdateRefs, Found, server
  <2> QED BY <2>1, <2>2, LandingIsAbstract
<1>5. CASE Reserve(p)
  BY <1>5, Unseen DEF Reserve, server
<1>6. CASE \/ ReadGrant(p) \/ Look(p) \/ GivesUp(p) \/ Lock(p) \/ LockTimeout(p)
           \/ GitFails(p) \/ FindUnderLock(p) \/ Refuse(p) \/ WriteTree(p)
           \/ CommitTree(p) \/ UpdateRefused(p) \/ Failed(p)
  <2>1. UNCHANGED <<server, workspace>>
    BY <1>6 DEF ReadGrant, Look, GivesUp, Lock, LockTimeout, GitFails,
                FindUnderLock, Refuse, WriteTree, CommitTree, UpdateRefused, Failed
  <2> QED BY <2>1, Unseen DEF server, workspace
<1> QED BY <1>1, <1>2, <1>3, <1>4, <1>5, <1>6 DEF Step

LEMMA AbstractStep ==
  ASSUME GrantAssumption, Inv, [Next]_vars
  PROVE  [S!SNext]_<<phaseBar, performedBar>>
<1>1. CASE \/ phaseBar' = phaseBar /\ performedBar' = performedBar
           \/ \E a \in Approvals : \/ S!Authorize(a) \/ S!Perform(a)
                                  \/ S!LoseTrack(a) \/ S!Confirm(a)
  BY <1>1 DEF S!SNext
<1>2. ASSUME NEW p \in Adapters, Step(p)
      PROVE  [S!SNext]_<<phaseBar, performedBar>>
  BY <1>1, <1>2, CallIsAbstract
<1>3. ASSUME NEW o \in orphans, OrphanUpdates(o)
      PROVE  [S!SNext]_<<phaseBar, performedBar>>
  <2>1. /\ o.workspace \in Workspaces /\ o.approval \in Approvals
        /\ o.commit \in Commit /\ o.approval \in attempts[o.workspace]
    BY DEF Inv, Types, Orphan, OrphanOK
  <2>2. /\ Landed(o.workspace, o.approval, o.commit)
        /\ refs[o.workspace][o.approval] = None /\ UNCHANGED grant
    BY <1>3 DEF OrphanUpdates, server
  <2> QED BY <1>1, <2>1, <2>2, LandingIsAbstract
<1>4. CASE \/ ApprovalNext /\ UNCHANGED grantVars
           \/ \E p \in Adapters :
                (\E a \in Approvals, e \in Evidences : Call(p, a, e)) \/ Crash(p)
           \/ \E w \in Workspaces : Develop(w)
           \/ UNCHANGED vars
  <2>1. UNCHANGED <<grant, refs>>
    BY <1>4 DEF Call, Crash, Develop, server, workspace, grantVars, vars
  <2> QED BY <1>1, <2>1, Unseen
<1> QED BY <1>2, <1>3, <1>4 DEF Next

LEMMA AbstractInit == Init => S!SInit
BY DEF Init, S!SInit, Phase, Granted, NoGrant

(* However calls repeat, overlap and die, server and Adapters together do  *)
(* what OneShot promises.                                                  *)
THEOREM Refinement == Spec => ImplementsOneShot
<1> USE GrantAssumption
<1>1. Inv /\ [Next]_vars => [S!SNext]_S!svars
  BY AbstractStep DEF S!svars, phaseBar, performedBar, Done
<1> QED BY AbstractInit, Invariance, <1>1, PTL
        DEF Spec, ImplementsOneShot, S!SSpec

-----------------------------------------------------------------------------
(* Approvals and Tasks beside grants and Adapters.                         *)

LEMMA GrantsLeaveApprovals ==
  ASSUME Next
  PROVE  ApprovalNext \/ UNCHANGED approvalVars
<1>1. ASSUME NEW p \in Adapters, Step(p)
      PROVE  UNCHANGED approvalVars
  BY <1>1
  DEF Step, ReadGrant, Prepare, Look, GivesUp, Lock, LockTimeout, GitFails,
      FindUnderLock, Refuse, Reserve, WriteTree, CommitTree, UpdateRefs,
      UpdateRefused, Failed, MarkUnknown, Submit, server
<1>2. ASSUME NEW p \in Adapters, Crash(p)
      PROVE  UNCHANGED approvalVars
  BY <1>2 DEF Crash, server
<1>3. ASSUME NEW p \in Adapters, NEW a \in Approvals, NEW e \in Evidences,
             Call(p, a, e)
      PROVE  UNCHANGED approvalVars
  BY <1>3 DEF Call, server
<1>4. ASSUME NEW o \in orphans, OrphanUpdates(o)
      PROVE  UNCHANGED approvalVars
  BY <1>4 DEF OrphanUpdates, server
<1>5. ASSUME NEW w \in Workspaces, Develop(w)
      PROVE  UNCHANGED approvalVars
  BY <1>5 DEF Develop, server
<1> QED BY <1>1, <1>2, <1>3, <1>4, <1>5 DEF Next

(* No step of a grant, an Adapter or a developer writes an Approval or a   *)
(* Task: together with them Approvals behave as they do alone.             *)
THEOREM ApprovalsAlone == Spec => ApprovalSpec
<1>1. Init => ApprovalInit
  BY DEF Init
<1>2. [Next]_vars => [ApprovalNext]_approvalVars
  BY GrantsLeaveApprovals DEF vars
<1> QED BY <1>1, <1>2, PTL DEF Spec, ApprovalSpec

(* Hence among grants, too, a Task awaits its Approval exactly while that  *)
(* is undecided (_pending and _resolve).                                   *)
THEOREM TasksAwaitAmongGrants == Spec => []TaskAwaitsDecision
BY ApprovalsAlone, TasksAwaitDecisions

(* Among grants, too, a decision is final and only a decision moves the     *)
(* Task that waits for it (_resolve).                                      *)
THEOREM DecisionsMoveAmongGrants == Spec => DecisionMovesTask
BY ApprovalsAlone, DecisionsMoveTasks
=============================================================================
