---------------------------- MODULE TeamCommands ----------------------------
(***************************************************************************)
(* The commands of Agents and Owners that create or move something, each   *)
(* under an idempotency key: Tasks, their transitions, Workspace bindings, *)
(* code change events and Policy versions.                                 *)
(*                                                                         *)
(* The network loses, repeats and reorders requests and answers, so that   *)
(* any request may reach the server at any time, any number of times, and  *)
(* whether its last answer arrived is nobody's state.  Each command is one *)
(* write transaction: effect and ledger row appear together.  A request    *)
(* that is refused leaves no row; the audit of it is left out, and so are  *)
(* times (Approval has those of a Task's history).                         *)
(***************************************************************************)
EXTENDS Integers, Sequences, FiniteSets, TaskLifecycle

CONSTANTS
    Owners, OwnerOf,        \* OwnerOf[a]: the Owner of an Agent
    Projects,               \* each with a Team of its own
    Bindings,               \* tas_repository_bindings
    GitEvidence,            \* GitEvidence[e]: what a finalized Evidence shows
    Requests,               \* requests Agents and Owners may send
    TaskIds, WorkspaceIds, EventIds, Versions,
    None

Agents == DOMAIN OwnerOf

(* What the routes accept: who asks, under which key, and the command.     *)
CreateTaskRequests ==
    [op: {"task.create"}, actor: Agents, key: Nat, project: Projects,
     assignee: Agents]

TransitionRequests ==
    [op: {"task.transition"}, actor: Agents, key: Nat, task: TaskIds,
     target: TaskStatuses]

WorkspaceRequests ==
    [op: {"workspace.register"}, actor: Agents, key: Nat, task: TaskIds,
     repository: {b.repository : b \in Bindings}]

EventRequests ==
    [op: {"event.create"}, actor: Agents, key: Nat, project: Projects,
     assignee: Agents, evidence: DOMAIN GitEvidence, facts: STRING]

(* The caller of the F2 route names the event.                             *)
RouteRequests ==
    [op: {"code_change_impact.route"}, actor: Agents, key: Nat,
     project: Projects, assignee: Agents, evidence: DOMAIN GitEvidence,
     facts: STRING, event: EventIds]

PolicyCreations ==
    [op: {"policy.create"}, actor: Owners, key: Nat, version: Versions]

PolicySelections ==
    [op: {"policy.select"}, actor: Owners, key: Nat, version: Versions,
     expected: Versions \cup {None}]

(* An Owner asks in its own name only (_authorize); the fingerprint of a    *)
(* request is its operation and payload, the request itself here.          *)
OwnerRequests == PolicyCreations \cup PolicySelections

ASSUME RequestsAssumption ==
    \A m \in Requests :
        \/ m \in CreateTaskRequests \/ m \in TransitionRequests
        \/ m \in WorkspaceRequests \/ m \in EventRequests
        \/ m \in RouteRequests
        \/ m \in OwnerRequests

ASSUME BindingsAssumption ==
    \A b \in Bindings : b \in [project: Projects, repository: STRING,
                               owner: Owners]

ASSUME EvidenceAssumption ==
    \A e \in DOMAIN GitEvidence :
        GitEvidence[e] \in [actor: Agents, project: Projects,
                            repository: STRING, facts: STRING]

VARIABLES
    members,    \* tas_team_memberships
    tasks,      \* tas_tasks with their origin and transitions
    inbox,      \* tas_inbox_items, a set of Tasks here
    workspaces, \* tas_task_workspace_bindings
    events,     \* tas_code_change_impact_events and their Task
    policies,   \* tas_owner_policies
    selections, \* the versions each Owner selected, the last one current
    ledger      \* the completed rows of both idempotency tables

vars == <<members, tasks, inbox, workspaces, events, policies, selections,
          ledger>>

(* moves: how many of its transitions the assignee made.                   *)
Task == [project: Projects, assignee: Agents, requester: Agents,
         status: TaskStatuses, moves: Nat]

Workspace == [task: TaskIds, actor: Agents, repository: STRING]

Event == [publisher: Agents, project: Projects, evidence: DOMAIN GitEvidence,
          task: TaskIds]

ASSUME NoneAssumption == None \notin Task \cup Workspace \cup Event

TypeOK ==
    /\ members \subseteq Owners \X Projects
    /\ \A t \in TaskIds : tasks[t] = None \/ tasks[t] \in Task
    /\ inbox \subseteq TaskIds
    /\ \A w \in WorkspaceIds : workspaces[w] = None \/ workspaces[w] \in Workspace
    /\ \A e \in EventIds : events[e] = None \/ events[e] \in Event
    /\ policies \subseteq Owners \X Versions
    /\ selections \in [Owners -> Seq(Versions)]
    /\ \A row \in ledger : row.request \in Requests

Init ==
    /\ members = {}
    /\ tasks = [t \in TaskIds |-> None]
    /\ inbox = {}
    /\ workspaces = [w \in WorkspaceIds |-> None]
    /\ events = [e \in EventIds |-> None]
    /\ policies = {}
    /\ selections = [o \in Owners |-> << >>]
    /\ ledger = {}

Member(owner, project) == <<owner, project>> \in members

MemberAgents(project) == {a \in Agents : Member(OwnerOf[a], project)}

Join(owner, project) ==
    /\ ~Member(owner, project)
    /\ members' = members \cup {<<owner, project>>}
    /\ UNCHANGED <<tasks, inbox, workspaces, events, policies, selections,
                   ledger>>

(***************************************************************************)
(* The ledger: one row for an actor, an operation and a key.               *)
(***************************************************************************)

SameKey(m, n) == <<m.actor, m.op, m.key>> = <<n.actor, n.op, n.key>>

(* Mutant: the key is looked up together with what was asked. *)
RowsMutant(m) == {row \in ledger : row.request = m}

Rows(m) == {row \in ledger : SameKey(row.request, m)}

Unused(m) == Rows(m) = {}

Complete(m, result) ==
    ledger' = ledger \cup {[request |-> m, result |-> result]}

(* The row of the same request; another request is a conflict.             *)
ReplayOf(m) == {row.result : row \in {r \in Rows(m) : r.request = m}}

(***************************************************************************)
(* POST /api/v1/tasks                                                      *)
(***************************************************************************)

(* Inserted with the Inbox item of its assignee.                           *)
NewTask(t, project, assignee, requester) ==
    /\ tasks[t] = None
    /\ tasks' = [tasks EXCEPT ![t] =
                   [project |-> project, assignee |-> assignee,
                    requester |-> requester, status |-> "submitted",
                    moves |-> 0]]
    /\ inbox' = inbox \cup {t}

MayCreate(m) == {m.actor, m.assignee} \subseteq MemberAgents(m.project)

CreateTask(m, t) ==
    /\ m.op = "task.create"
    /\ MayCreate(m)
    /\ Unused(m)
    /\ NewTask(t, m.project, m.assignee, m.actor)
    /\ Complete(m, t)
    /\ UNCHANGED <<members, workspaces, events, policies, selections>>

(***************************************************************************)
(* POST /api/v1/tasks/{id}/transitions                                     *)
(***************************************************************************)

Assigned(m) ==
    /\ tasks[m.task] # None
    /\ tasks[m.task].assignee = m.actor
    /\ m.actor \in MemberAgents(tasks[m.task].project)

Protected(m) == "approval_required" \in {tasks[m.task].status, m.target}

MayMove(m) ==
    /\ ~Protected(m)
    /\ m.target \in AllowedTransitions[tasks[m.task].status]

TransitionTask(m) ==
    /\ m.op = "task.transition"
    /\ Assigned(m)
    /\ Unused(m)
    /\ MayMove(m)
    /\ tasks' = [tasks EXCEPT ![m.task].status = m.target,
                              ![m.task].moves = @ + 1]
    /\ Complete(m, m.task)
    /\ UNCHANGED <<members, inbox, workspaces, events, policies, selections>>

(* Approvals and the delegation bridge move Tasks as well.                 *)
OtherTransition(t, target) ==
    /\ tasks[t] # None
    /\ target \in AllowedTransitions[tasks[t].status]
    /\ "approval_required" \in {tasks[t].status, target}
    /\ tasks' = [tasks EXCEPT ![t].status = target]
    /\ UNCHANGED <<members, inbox, workspaces, events, policies, selections,
                   ledger>>

(***************************************************************************)
(* POST /api/v1/workspaces                                                 *)
(***************************************************************************)

BoundTo(project) == {b \in Bindings : b.project = project}

MayBind(m) ==
    /\ Assigned(m)
    /\ \E b \in BoundTo(tasks[m.task].project) : b.repository = m.repository

Bound(t) == \E w \in WorkspaceIds : workspaces[w] # None
                                     /\ workspaces[w].task = t

RegisterWorkspace(m, w) ==
    /\ m.op = "workspace.register"
    /\ MayBind(m)
    /\ Unused(m)
    /\ ~Bound(m.task)
    /\ workspaces[w] = None
    /\ workspaces' = [workspaces EXCEPT ![w] =
                        [task |-> m.task, actor |-> m.actor,
                         repository |-> m.repository]]
    /\ Complete(m, w)
    /\ UNCHANGED <<members, tasks, inbox, events, policies, selections>>

(* _authorized_workspace                                                   *)
WorkspaceVisible(w, agent) ==
    /\ workspaces[w].actor = agent
    /\ tasks[workspaces[w].task].assignee = agent
    /\ agent \in MemberAgents(tasks[workspaces[w].task].project)
    /\ \E b \in BoundTo(tasks[workspaces[w].task].project) :
            b.repository = workspaces[w].repository

(***************************************************************************)
(* POST /api/v1/events, and the F2 route                                   *)
(***************************************************************************)

(* The publisher's finalized Git Evidence, of a Task of the Project, in a  *)
(* Repository its Owner controls.                                          *)
EvidenceSupports(m) ==
    LET e == GitEvidence[m.evidence]
    IN  /\ e.actor = m.actor
        /\ e.project = m.project
        /\ e.facts = m.facts
        /\ [project |-> m.project, repository |-> e.repository,
            owner |-> OwnerOf[m.actor]] \in Bindings

MayPublish(m) == MayCreate(m) /\ EvidenceSupports(m)

Publish(m, e, t) ==
    /\ events[e] = None
    /\ NewTask(t, m.project, m.assignee, m.actor)
    /\ events' = [events EXCEPT ![e] =
                    [publisher |-> m.actor, project |-> m.project,
                     evidence |-> m.evidence, task |-> t]]
    /\ Complete(m, t)
    /\ UNCHANGED <<members, workspaces, policies, selections>>

CreateEvent(m, e, t) ==
    /\ m.op = "event.create"
    /\ MayPublish(m)
    /\ Unused(m)
    /\ Publish(m, e, t)

(* _authorized_event                                                       *)
EventVisible(t, publisher) ==
    \E e \in EventIds :
        /\ events[e] # None
        /\ events[e].task = t /\ t \in inbox
        /\ events[e].publisher = publisher
        /\ {publisher, tasks[t].assignee} \subseteq MemberAgents(events[e].project)
        /\ [project |-> events[e].project,
            repository |-> GitEvidence[events[e].evidence].repository,
            owner |-> OwnerOf[publisher]] \in Bindings

(* The ledger comes first; the event id is the caller's.                   *)
RouteImpact(m, t) ==
    /\ m.op = "code_change_impact.route"
    /\ Unused(m)
    /\ MayPublish(m)
    /\ Publish(m, m.event, t)

(***************************************************************************)
(* POST /api/v1/policies and /policies/{version}/select, of the Owner's    *)
(* own versions.                                                           *)
(***************************************************************************)

CreatePolicy(m) ==
    /\ m.op = "policy.create"
    /\ Unused(m)
    /\ <<m.actor, m.version>> \notin policies
    /\ policies' = policies \cup {<<m.actor, m.version>>}
    /\ Complete(m, m.version)
    /\ UNCHANGED <<members, tasks, inbox, workspaces, events, selections>>

Current(owner) ==
    IF selections[owner] = << >> THEN None
    ELSE selections[owner][Len(selections[owner])]

(* Mutant: any existing version is selected, whichever is current. *)
SelectableMutant(m) == <<m.actor, m.version>> \in policies

Selectable(m) ==
    /\ <<m.actor, m.version>> \in policies
    /\ Current(m.actor) = m.expected

SelectPolicy(m) ==
    /\ m.op = "policy.select"
    /\ Unused(m)
    /\ Selectable(m)
    /\ selections' = [selections EXCEPT ![m.actor] = Append(@, m.version)]
    /\ Complete(m, m.version)
    /\ UNCHANGED <<members, tasks, inbox, workspaces, events, policies>>

Execute(m) ==
    \/ \E t \in TaskIds : CreateTask(m, t)
    \/ TransitionTask(m)
    \/ \E w \in WorkspaceIds : RegisterWorkspace(m, w)
    \/ \E e \in EventIds, t \in TaskIds : CreateEvent(m, e, t)
    \/ \E t \in TaskIds : RouteImpact(m, t)
    \/ CreatePolicy(m)
    \/ SelectPolicy(m)

Next ==
    \/ \E owner \in Owners, project \in Projects : Join(owner, project)
    \/ \E m \in Requests : Execute(m)
    \/ \E t \in TaskIds, target \in TaskStatuses : OtherTransition(t, target)

Spec == Init /\ [][Next]_vars

(***************************************************************************)
(* What the server answers to a request whose row is there: authority is   *)
(* asked for again and what the row names is looked up again.              *)
(***************************************************************************)

(* Mutant: a transition is judged before its row is looked up. *)
MayReplayMutant(m, result) ==
    CASE m.op = "task.transition" -> Assigned(m) /\ MayMove(m)
      [] OTHER -> TRUE

MayReplay(m, result) ==
    CASE m.op = "task.create" ->
            MayCreate(m) /\ tasks[result].requester = m.actor /\ result \in inbox
      [] m.op = "task.transition" -> Assigned(m) /\ result = m.task
      [] m.op = "workspace.register" ->
            MayBind(m) /\ WorkspaceVisible(result, m.actor)
      [] m.op = "event.create" -> MayCreate(m) /\ EventVisible(result, m.actor)
      [] m.op = "code_change_impact.route" -> result \in inbox
      [] OTHER -> TRUE

Replay(m) == {result \in ReplayOf(m) : MayReplay(m, result)}

(***************************************************************************)
(* Properties                                                              *)
(***************************************************************************)

RowsOf(ops, result) ==
    {row \in ledger : row.request.op \in ops /\ row.result = result}

TasksAreExplained ==
    \A t \in TaskIds : tasks[t] # None =>
        /\ t \in inbox
        /\ Cardinality(RowsOf({"task.create", "event.create",
                              "code_change_impact.route"}, t)) = 1
        /\ Cardinality(RowsOf({"task.transition"}, t)) = tasks[t].moves

WorkspacesAreExplained ==
    /\ \A w \in WorkspaceIds : workspaces[w] # None =>
        Cardinality(RowsOf({"workspace.register"}, w)) = 1
    /\ \A v, w \in WorkspaceIds :
        workspaces[v] # None /\ workspaces[w] # None
            /\ workspaces[v].task = workspaces[w].task => v = w

(* Whatever requests the network repeats, delays and reorders, no key has  *)
(* two effects, and each Task, move, binding and selection is the effect   *)
(* of one completed row (the *_uow.py of these commands look the key up    *)
(* in the transaction that writes).                                        *)
EveryEffectOnce ==
    /\ \A r1, r2 \in ledger : SameKey(r1.request, r2.request) => r1 = r2
    /\ TasksAreExplained
    /\ WorkspacesAreExplained
    /\ \A owner \in Owners :
        Len(selections[owner]) =
            Cardinality({row \in ledger : row.request.op = "policy.select"
                                            /\ row.request.actor = owner})

(* A request that succeeded keeps being answered, and with the same        *)
(* result, whatever happened since: the Task moved on or waits for an      *)
(* Approval, other versions were selected, members joined.  (A restored    *)
(* Task must also have a chronological history: see Approval.)             *)
AnswersAreStable ==
    \A row \in ledger : Replay(row.request) = {row.result}

(* No selection of a Policy is lost: each replaced the very version its    *)
(* request expected to be current (policy_repository.py:127).              *)
SelectionsFollow ==
    \A row \in {r \in ledger : r.request.op = "policy.select"} :
        LET chosen == selections[row.request.actor]
        IN  \E i \in DOMAIN chosen :
                /\ chosen[i] = row.request.version
                /\ row.request.expected = IF i = 1 THEN None ELSE chosen[i - 1]
=============================================================================
