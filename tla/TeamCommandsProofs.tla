------------------------- MODULE TeamCommandsProofs -------------------------
(***************************************************************************)
(* Proofs about TeamCommands, for any Agents, Owners, Projects, keys and   *)
(* requests, repeated and reordered in any way.                            *)
(*                                                                         *)
(* Inv counts the rows of the ledger: none for what does not exist, and    *)
(* for what does the rows that explain it.  That an answer can be given    *)
(* again rests on what no command takes back (Grows).                      *)
(***************************************************************************)
EXTENDS TeamCommands, FiniteSetTheorems, TLAPS

Creating == {"task.create", "event.create", "code_change_impact.route"}

TaskRows(t) == RowsOf(Creating, t)
MoveRows(t) == RowsOf({"task.transition"}, t)
BindRows(w) == RowsOf({"workspace.register"}, w)

SelectRows(owner) ==
    {row \in ledger : row.request.op = "policy.select"
                        /\ row.request.actor = owner}

Types ==
    /\ members \subseteq Owners \X Projects
    /\ tasks \in [TaskIds -> Task \cup {None}]
    /\ inbox \subseteq TaskIds
    /\ workspaces \in [WorkspaceIds -> Workspace \cup {None}]
    /\ events \in [EventIds -> Event \cup {None}]
    /\ policies \subseteq Owners \X Versions
    /\ selections \in [Owners -> Seq(Versions)]

LedgerInv ==
    /\ IsFiniteSet(ledger)
    /\ \A row \in ledger : row.request \in Requests
    /\ \A r1, r2 \in ledger : SameKey(r1.request, r2.request) => r1 = r2

TaskOK(t) ==
    /\ tasks[t] = None => /\ Cardinality(TaskRows(t)) = 0
                          /\ Cardinality(MoveRows(t)) = 0
    /\ tasks[t] # None => /\ t \in inbox
                          /\ Cardinality(TaskRows(t)) = 1
                          /\ Cardinality(MoveRows(t)) = tasks[t].moves

WorkspaceOK(w) ==
    Cardinality(BindRows(w)) = IF workspaces[w] = None THEN 0 ELSE 1

OneEach ==
    \A v, w \in WorkspaceIds :
        workspaces[v] # None /\ workspaces[w] # None
            /\ workspaces[v].task = workspaces[w].task => v = w

SelectionsOK(owner) == Len(selections[owner]) = Cardinality(SelectRows(owner))

(* What a row names is there. *)
NamesOK(row) ==
    /\ row.request.op \in Creating =>
            row.result \in TaskIds /\ tasks[row.result] # None
    /\ row.request.op = "workspace.register" =>
            /\ row.result \in WorkspaceIds /\ workspaces[row.result] # None
            /\ workspaces[row.result].task \in TaskIds
            /\ tasks[workspaces[row.result].task] # None

Answerable(row) == NamesOK(row) /\ MayReplay(row.request, row.result)

Follows(row) ==
    row.request.op = "policy.select" =>
        LET chosen == selections[row.request.actor]
        IN  \E i \in DOMAIN chosen :
                /\ chosen[i] = row.request.version
                /\ row.request.expected = IF i = 1 THEN None ELSE chosen[i - 1]

Inv ==
    /\ Types
    /\ LedgerInv
    /\ \A t \in TaskIds : TaskOK(t)
    /\ \A w \in WorkspaceIds : WorkspaceOK(w)
    /\ OneEach
    /\ \A owner \in Owners : SelectionsOK(owner)
    /\ \A row \in ledger : Answerable(row) /\ Follows(row)

(* What no command takes back. *)
Grows ==
    /\ members \subseteq members'
    /\ inbox \subseteq inbox'
    /\ \A t \in TaskIds : tasks[t] # None =>
            /\ tasks'[t] # None
            /\ tasks'[t].project = tasks[t].project
            /\ tasks'[t].assignee = tasks[t].assignee
            /\ tasks'[t].requester = tasks[t].requester
    /\ \A w \in WorkspaceIds : workspaces[w] # None => workspaces'[w] = workspaces[w]
    /\ \A e \in EventIds : events[e] # None => events'[e] = events[e]

Extends ==
    \A owner \in Owners :
        /\ DOMAIN selections[owner] \subseteq DOMAIN selections'[owner]
        /\ \A i \in DOMAIN selections[owner] :
                selections'[owner][i] = selections[owner][i]

-----------------------------------------------------------------------------

LEMMA Nones == None \notin Task /\ None \notin Workspace /\ None \notin Event
BY NoneAssumption

(* What each request carries. *)
LEMMA RequestFields ==
  ASSUME NEW m \in Requests
  PROVE  /\ m.op = "task.create" => m \in CreateTaskRequests
         /\ m.op = "task.transition" => m \in TransitionRequests
         /\ m.op = "workspace.register" => m \in WorkspaceRequests
         /\ m.op = "event.create" => m \in EventRequests
         /\ m.op = "code_change_impact.route" => m \in RouteRequests
         /\ m.op = "policy.create" => m \in PolicyCreations
         /\ m.op = "policy.select" => m \in PolicySelections
         /\ m.op \in Creating \cup {"task.transition", "workspace.register",
                                    "policy.create", "policy.select"}
<1>1. \/ m \in CreateTaskRequests \/ m \in TransitionRequests
      \/ m \in WorkspaceRequests \/ m \in EventRequests
      \/ m \in RouteRequests
      \/ m \in PolicyCreations \/ m \in PolicySelections
  BY RequestsAssumption DEF OwnerRequests
<1>2. CASE m \in CreateTaskRequests
  BY <1>2 DEF CreateTaskRequests, Creating
<1>3. CASE m \in TransitionRequests
  BY <1>3 DEF TransitionRequests, Creating
<1>4. CASE m \in WorkspaceRequests
  BY <1>4 DEF WorkspaceRequests, Creating
<1>5. CASE m \in EventRequests
  BY <1>5 DEF EventRequests, Creating
<1>6. CASE m \in RouteRequests
  BY <1>6 DEF RouteRequests, Creating
<1>7. CASE m \in PolicyCreations
  BY <1>7 DEF PolicyCreations, Creating
<1>8. CASE m \in PolicySelections
  BY <1>8 DEF PolicySelections, Creating
<1> QED BY <1>1, <1>2, <1>3, <1>4, <1>5, <1>6, <1>7, <1>8

-----------------------------------------------------------------------------
(* The ledger.                                                             *)

LEMMA CompletesOnce ==
  ASSUME LedgerInv, NEW m \in Requests, Unused(m), NEW result,
         Complete(m, result)
  PROVE  /\ LedgerInv'
         /\ \E row : /\ row.request = m /\ row.result = result
                     /\ row \notin ledger /\ ledger' = ledger \cup {row}
<1>1. PICK row : row = [request |-> m, result |-> result]
  OBVIOUS
<1>2. row.request = m /\ row.result = result /\ ledger' = ledger \cup {row}
  BY <1>1 DEF Complete
<1>3. \A r \in ledger : ~SameKey(r.request, m)
  BY DEF Unused, Rows
<1>4. row \notin ledger
  BY <1>2, <1>3 DEF SameKey
<1>5. \A r \in ledger : ~SameKey(m, r.request)
  BY <1>3 DEF SameKey
<1>6. IsFiniteSet(ledger')
  BY <1>2, FS_AddElement DEF LedgerInv
<1>7. \A r1, r2 \in ledger' : SameKey(r1.request, r2.request) => r1 = r2
  BY <1>2, <1>3, <1>5 DEF LedgerInv
<1>8. LedgerInv'
  BY <1>2, <1>6, <1>7 DEF LedgerInv
<1> QED BY <1>2, <1>4, <1>8

LEMMA RowsGrow ==
  ASSUME IsFiniteSet(ledger), NEW row, row \notin ledger,
         ledger' = ledger \cup {row}, NEW ops, NEW result
  PROVE  /\ row.request.op \notin ops \/ row.result # result =>
                RowsOf(ops, result)' = RowsOf(ops, result)
         /\ row.request.op \in ops /\ row.result = result =>
                Cardinality(RowsOf(ops, result)') =
                    Cardinality(RowsOf(ops, result)) + 1
<1>1. RowsOf(ops, result) \in SUBSET ledger /\ row \notin RowsOf(ops, result)
  BY DEF RowsOf
<1>2. IsFiniteSet(RowsOf(ops, result))
  BY <1>1, FS_Subset
<1>3. Cardinality(RowsOf(ops, result) \cup {row}) =
        Cardinality(RowsOf(ops, result)) + 1
  BY <1>1, <1>2, FS_AddElement
<1>4. row.request.op \in ops /\ row.result = result =>
        RowsOf(ops, result)' = RowsOf(ops, result) \cup {row}
  BY DEF RowsOf
<1>5. row.request.op \notin ops \/ row.result # result =>
        RowsOf(ops, result)' = RowsOf(ops, result)
  BY DEF RowsOf
<1> QED BY <1>3, <1>4, <1>5

LEMMA SelectsGrow ==
  ASSUME IsFiniteSet(ledger), NEW row, row \notin ledger,
         ledger' = ledger \cup {row}, NEW owner
  PROVE  /\ row.request.op # "policy.select" \/ row.request.actor # owner =>
                SelectRows(owner)' = SelectRows(owner)
         /\ row.request.op = "policy.select" /\ row.request.actor = owner =>
                Cardinality(SelectRows(owner)') =
                    Cardinality(SelectRows(owner)) + 1
<1>1. SelectRows(owner) \in SUBSET ledger /\ row \notin SelectRows(owner)
  BY DEF SelectRows
<1>2. IsFiniteSet(SelectRows(owner))
  BY <1>1, FS_Subset
<1>3. Cardinality(SelectRows(owner) \cup {row}) =
        Cardinality(SelectRows(owner)) + 1
  BY <1>1, <1>2, FS_AddElement
<1>4. row.request.op = "policy.select" /\ row.request.actor = owner =>
        SelectRows(owner)' = SelectRows(owner) \cup {row}
  BY DEF SelectRows
<1>5. row.request.op # "policy.select" \/ row.request.actor # owner =>
        SelectRows(owner)' = SelectRows(owner)
  BY DEF SelectRows
<1> QED BY <1>3, <1>4, <1>5

-----------------------------------------------------------------------------
(* What was answered once can be answered again.                           *)

LEMMA MembersGrow ==
  ASSUME Grows, NEW project
  PROVE  MemberAgents(project) \subseteq MemberAgents(project)'
BY DEF Grows, MemberAgents, Member, Agents

LEMMA NamesPersist ==
  ASSUME Grows, NEW row, NamesOK(row)
  PROVE  NamesOK(row)'
<1>1. row.request.op \in Creating =>
            row.result \in TaskIds /\ tasks'[row.result] # None
  BY DEF NamesOK, Grows
<1>2. row.request.op = "workspace.register" =>
            /\ row.result \in WorkspaceIds /\ workspaces'[row.result] # None
            /\ workspaces'[row.result].task \in TaskIds
            /\ tasks'[workspaces'[row.result].task] # None
  BY DEF NamesOK, Grows
<1> QED BY <1>1, <1>2 DEF NamesOK

LEMMA AssignedPersists ==
  ASSUME Grows, NEW m, m.task \in TaskIds, Assigned(m)
  PROVE  Assigned(m)' /\ tasks'[m.task].project = tasks[m.task].project
<1>1. PICK p : p = tasks[m.task].project
  OBVIOUS
<1>2. tasks'[m.task] # None /\ tasks'[m.task].project = p
      /\ tasks'[m.task].assignee = tasks[m.task].assignee
  BY <1>1 DEF Grows, Assigned
<1>3. m.actor \in MemberAgents(p)'
  BY <1>1, MembersGrow DEF Assigned
<1> QED BY <1>1, <1>2, <1>3 DEF Assigned, MemberAgents, Member

LEMMA BindingPersists ==
  ASSUME Grows, NEW m, m.task \in TaskIds, MayBind(m)
  PROVE  MayBind(m)'
<1>1. Assigned(m)' /\ tasks'[m.task].project = tasks[m.task].project
  BY AssignedPersists DEF MayBind
<1> QED BY <1>1 DEF MayBind, BoundTo

LEMMA CreationPersists ==
  ASSUME Grows, NEW m, MayCreate(m)
  PROVE  MayCreate(m)'
BY MembersGrow DEF MayCreate

LEMMA WorkspacePersists ==
  ASSUME Grows, NEW w \in WorkspaceIds, workspaces[w] # None, NEW agent,
         workspaces[w].task \in TaskIds, tasks[workspaces[w].task] # None,
         WorkspaceVisible(w, agent)
  PROVE  WorkspaceVisible(w, agent)'
<1>1. PICK space : space = workspaces[w]
  OBVIOUS
<1>2. PICK t : t = space.task
  OBVIOUS
<1>3. PICK old : old = tasks[t]
  OBVIOUS
<1>4. /\ workspaces'[w] = space
      /\ tasks'[t].project = old.project
      /\ tasks'[t].assignee = old.assignee
  BY <1>1, <1>2, <1>3 DEF Grows
<1>5. agent \in MemberAgents(old.project)'
  BY <1>1, <1>2, <1>3, MembersGrow DEF WorkspaceVisible
<1> QED BY <1>1, <1>2, <1>3, <1>4, <1>5
        DEF WorkspaceVisible, BoundTo, MemberAgents, Member

LEMMA EventPersists ==
  ASSUME Grows, NEW t \in TaskIds, tasks[t] # None, NEW publisher,
         EventVisible(t, publisher)
  PROVE  EventVisible(t, publisher)'
<1>1. PICK e \in EventIds :
        /\ events[e] # None
        /\ events[e].task = t /\ t \in inbox
        /\ events[e].publisher = publisher
        /\ {publisher, tasks[t].assignee} \subseteq
                MemberAgents(events[e].project)
        /\ [project |-> events[e].project,
            repository |-> GitEvidence[events[e].evidence].repository,
            owner |-> OwnerOf[publisher]] \in Bindings
  BY DEF EventVisible
<1>2. events'[e] = events[e] /\ tasks'[t].assignee = tasks[t].assignee
      /\ t \in inbox'
  BY <1>1 DEF Grows
<1>3. PICK p : p = events[e].project
  OBVIOUS
<1>4. {publisher, tasks[t].assignee} \subseteq MemberAgents(p)'
  BY <1>1, <1>3, MembersGrow
<1>5. {publisher, tasks'[t].assignee} \subseteq MemberAgents(events[e].project)'
  BY <1>2, <1>3, <1>4 DEF MemberAgents, Member
<1> QED BY <1>1, <1>2, <1>5 DEF EventVisible

LEMMA AnswersPersist ==
  ASSUME Grows, NEW row, row.request \in Requests, Answerable(row)
  PROVE  Answerable(row)'
<1>1. PICK m : m = row.request
  OBVIOUS
<1>2. PICK result : result = row.result
  OBVIOUS
<1>3. NamesOK(row) /\ NamesOK(row)'
  BY NamesPersist DEF Answerable
<1>4. MayReplay(m, result)
  BY <1>1, <1>2 DEF Answerable
<1>5. MayReplay(m, result)'
  <2>1. CASE m.op = "task.create"
    <3>1. result \in TaskIds /\ tasks[result] # None
      BY <1>1, <1>2, <1>3, <2>1 DEF NamesOK, Creating
    <3>2. /\ MayCreate(m)
          /\ tasks[result].requester = m.actor /\ result \in inbox
      BY <1>4, <2>1 DEF MayReplay
    <3>3. MayCreate(m)'
      BY <3>2, CreationPersists
    <3>4. tasks'[result].requester = m.actor /\ result \in inbox'
      BY <3>1, <3>2 DEF Grows
    <3> QED BY <2>1, <3>3, <3>4 DEF MayReplay
  <2>2. CASE m.op = "task.transition"
    <3>1. m.task \in TaskIds
      BY <1>1, <2>2, RequestFields DEF TransitionRequests
    <3>2. Assigned(m) /\ result = m.task
      BY <1>4, <2>2 DEF MayReplay
    <3>3. Assigned(m)'
      BY <3>1, <3>2, AssignedPersists
    <3> QED BY <2>2, <3>2, <3>3 DEF MayReplay
  <2>3. CASE m.op = "workspace.register"
    <3>1. m.task \in TaskIds
      BY <1>1, <2>3, RequestFields DEF WorkspaceRequests
    <3>2. /\ result \in WorkspaceIds /\ workspaces[result] # None
          /\ workspaces[result].task \in TaskIds
          /\ tasks[workspaces[result].task] # None
      BY <1>1, <1>2, <1>3, <2>3 DEF NamesOK
    <3>3. MayBind(m) /\ WorkspaceVisible(result, m.actor)
      BY <1>4, <2>3 DEF MayReplay
    <3>4. MayBind(m)'
      BY <3>1, <3>3, BindingPersists
    <3>5. WorkspaceVisible(result, m.actor)'
      BY <3>2, <3>3, WorkspacePersists
    <3> QED BY <2>3, <3>4, <3>5 DEF MayReplay
  <2>4. CASE m.op = "event.create"
    <3>1. result \in TaskIds /\ tasks[result] # None
      BY <1>1, <1>2, <1>3, <2>4 DEF NamesOK, Creating
    <3>2. MayCreate(m) /\ EventVisible(result, m.actor)
      BY <1>4, <2>4 DEF MayReplay
    <3>3. MayCreate(m)' /\ EventVisible(result, m.actor)'
      BY <3>1, <3>2, CreationPersists, EventPersists
    <3> QED BY <2>4, <3>3 DEF MayReplay
  <2>5. CASE m.op = "code_change_impact.route"
    <3>1. result \in inbox'
      BY <1>4, <2>5 DEF MayReplay, Grows
    <3> QED BY <2>5, <3>1 DEF MayReplay
  <2>6. CASE m.op \notin Creating \cup {"task.transition", "workspace.register"}
    BY <2>6 DEF MayReplay, Creating
  <2> QED BY <2>1, <2>2, <2>3, <2>4, <2>5, <2>6 DEF Creating
<1> QED BY <1>1, <1>2, <1>3, <1>5 DEF Answerable

LEMMA FollowsPersists ==
  ASSUME Types, Extends, NEW row, row.request \in Requests, Follows(row)
  PROVE  Follows(row)'
<1> SUFFICES ASSUME row.request.op = "policy.select"
             PROVE  LET chosen == selections'[row.request.actor]
                    IN  \E i \in DOMAIN chosen :
                          /\ chosen[i] = row.request.version
                          /\ row.request.expected =
                                IF i = 1 THEN None ELSE chosen[i - 1]
  BY DEF Follows
<1>1. PICK owner : owner = row.request.actor
  OBVIOUS
<1>2. owner \in Owners
  BY <1>1, RequestFields DEF PolicySelections
<1>3. PICK old, new : old = selections[owner] /\ new = selections'[owner]
  OBVIOUS
<1>4. old \in Seq(Versions)
  BY <1>2, <1>3 DEF Types
<1>5. PICK i \in DOMAIN old :
        /\ old[i] = row.request.version
        /\ row.request.expected = IF i = 1 THEN None ELSE old[i - 1]
  BY <1>1, <1>3 DEF Follows
<1>6. DOMAIN old \subseteq DOMAIN new /\ \A j \in DOMAIN old : new[j] = old[j]
  BY <1>2, <1>3 DEF Extends
<1>7. i \in 1 .. Len(old) /\ (i # 1 => i - 1 \in DOMAIN old)
  BY <1>4
<1>8. /\ i \in DOMAIN new /\ new[i] = row.request.version
      /\ row.request.expected = IF i = 1 THEN None ELSE new[i - 1]
  BY <1>5, <1>6, <1>7
<1> QED BY <1>1, <1>3, <1>8

LEMMA RowsPersist ==
  ASSUME Inv, Grows, Extends, NEW row, ledger' = ledger \cup {row},
         Answerable(row)', Follows(row)'
  PROVE  \A r \in ledger' : Answerable(r)' /\ Follows(r)'
<1>1. ASSUME NEW r \in ledger PROVE Answerable(r)' /\ Follows(r)'
  <2>1. r.request \in Requests /\ Answerable(r) /\ Follows(r) /\ Types
    BY DEF Inv, LedgerInv
  <2> QED BY <2>1, AnswersPersist, FollowsPersists
<1> QED BY <1>1

LEMMA SameRows ==
  ASSUME Inv, Grows, Extends, UNCHANGED ledger
  PROVE  \A r \in ledger' : Answerable(r)' /\ Follows(r)'
<1>1. ASSUME NEW r \in ledger PROVE Answerable(r)' /\ Follows(r)'
  <2>1. r.request \in Requests /\ Answerable(r) /\ Follows(r) /\ Types
    BY DEF Inv, LedgerInv
  <2> QED BY <2>1, AnswersPersist, FollowsPersists
<1> QED BY <1>1

-----------------------------------------------------------------------------
(* The commands.                                                           *)

(* What a command that makes a Task does, whatever else it does to events. *)
LEMMA NewTaskInv ==
  ASSUME Inv, NEW m \in Requests, m.op \in Creating, NEW t \in TaskIds,
         m.project \in Projects, m.actor \in Agents, m.assignee \in Agents,
         NewTask(t, m.project, m.assignee, m.actor), Unused(m), Complete(m, t),
         UNCHANGED <<members, workspaces, policies, selections>>,
         events' \in [EventIds -> Event \cup {None}],
         \A e \in EventIds : events[e] # None => events'[e] = events[e],
         MayReplay(m, t)'
  PROVE  Inv'
<1>1. PICK new : new = [project |-> m.project, assignee |-> m.assignee,
                        requester |-> m.actor, status |-> "submitted",
                        moves |-> 0]
  OBVIOUS
<1>2. new \in Task /\ new # None /\ new.moves = 0
  BY <1>1, Nones DEF Task, TaskStatuses
<1>3. tasks[t] = None /\ tasks' = [tasks EXCEPT ![t] = new]
      /\ inbox' = inbox \cup {t}
  BY <1>1 DEF NewTask
<1>4. tasks' \in [TaskIds -> Task \cup {None}]
      /\ \A u \in TaskIds : tasks'[u] = IF u = t THEN new ELSE tasks[u]
  BY <1>2, <1>3 DEF Inv, Types
<1>5. PICK row : /\ row.request = m /\ row.result = t
                 /\ row \notin ledger /\ ledger' = ledger \cup {row}
  BY CompletesOnce DEF Inv
<1>6. LedgerInv' /\ IsFiniteSet(ledger)
  BY CompletesOnce DEF Inv, LedgerInv
<1>7. Types'
  BY <1>3, <1>4 DEF Inv, Types
<1>8. Grows
  BY <1>3, <1>4 DEF Grows
<1>9. Extends
  BY DEF Extends
<1>10. ASSUME NEW u \in TaskIds PROVE TaskOK(u)'
  <2>1. MoveRows(u)' = MoveRows(u)
    BY <1>5, <1>6, RowsGrow DEF MoveRows, Creating
  <2>2. CASE u = t
    <3>1. Cardinality(TaskRows(u)') = 1 /\ Cardinality(MoveRows(u)') = 0
      <4>1. /\ Cardinality(TaskRows(u)) = 0 /\ Cardinality(MoveRows(u)) = 0
        BY <1>3, <2>2 DEF Inv, TaskOK
      <4>2. Cardinality(TaskRows(u)') = Cardinality(TaskRows(u)) + 1
        BY <1>5, <1>6, <2>2, RowsGrow DEF TaskRows
      <4> QED BY <2>1, <4>1, <4>2
    <3>2. tasks'[u] # None /\ tasks'[u].moves = 0 /\ u \in inbox'
      BY <1>2, <1>3, <1>4, <2>2
    <3> QED BY <3>1, <3>2 DEF TaskOK
  <2>3. CASE u # t
    <3>1. TaskRows(u)' = TaskRows(u)
      BY <1>5, <1>6, <2>3, RowsGrow DEF TaskRows
    <3>2. tasks'[u] = tasks[u]
      BY <1>4, <2>3
    <3>3. TaskOK(u)
      BY DEF Inv
    <3> QED BY <1>3, <2>1, <3>1, <3>2, <3>3 DEF TaskOK
  <2> QED BY <2>2, <2>3
<1>11. ASSUME NEW w \in WorkspaceIds PROVE WorkspaceOK(w)'
  <2>1. BindRows(w)' = BindRows(w)
    BY <1>5, <1>6, RowsGrow DEF BindRows, Creating
  <2> QED BY <2>1 DEF Inv, WorkspaceOK
<1>12. ASSUME NEW owner \in Owners PROVE SelectionsOK(owner)'
  <2>1. SelectRows(owner)' = SelectRows(owner)
    BY <1>5, <1>6, SelectsGrow DEF Creating
  <2> QED BY <2>1 DEF Inv, SelectionsOK
<1>13. Answerable(row)'
  <2>1. NamesOK(row)'
    BY <1>2, <1>4, <1>5 DEF NamesOK, Creating
  <2> QED BY <1>5, <2>1 DEF Answerable
<1>14. Follows(row)'
  BY <1>5 DEF Follows, Creating
<1>15. \A r \in ledger' : Answerable(r)' /\ Follows(r)'
  BY <1>5, <1>8, <1>9, <1>13, <1>14, RowsPersist
<1>16. OneEach'
  BY DEF Inv, OneEach
<1> QED BY <1>6, <1>7, <1>10, <1>11, <1>12, <1>15, <1>16 DEF Inv

LEMMA CreateTaskInv ==
  ASSUME Inv, NEW m \in Requests, NEW t \in TaskIds, CreateTask(m, t)
  PROVE  Inv'
<1>1. m.op \in Creating /\ m \in CreateTaskRequests
  BY RequestFields DEF CreateTask, Creating
<1>2. m.project \in Projects /\ m.actor \in Agents /\ m.assignee \in Agents
  BY <1>1 DEF CreateTaskRequests
<1>3. events' \in [EventIds -> Event \cup {None}]
      /\ \A e \in EventIds : events[e] # None => events'[e] = events[e]
  BY DEF Inv, Types, CreateTask
<1>4. tasks'[t].requester = m.actor /\ t \in inbox'
  BY DEF CreateTask, NewTask, Inv, Types
<1>5. MayCreate(m)'
  BY DEF CreateTask, MayCreate, MemberAgents, Member
<1>6. MayReplay(m, t)'
  BY <1>4, <1>5 DEF MayReplay, CreateTask
<1>7. /\ NewTask(t, m.project, m.assignee, m.actor) /\ Unused(m)
      /\ Complete(m, t)
      /\ UNCHANGED <<members, workspaces, policies, selections>>
  BY DEF CreateTask
<1> QED BY <1>1, <1>2, <1>3, <1>6, <1>7, NewTaskInv

LEMMA PublishInv ==
  ASSUME Inv, NEW m \in Requests, NEW t \in TaskIds, NEW e \in EventIds,
         CreateEvent(m, e, t) \/ (RouteImpact(m, t) /\ e = m.event)
  PROVE  Inv'
<1>1. /\ m.op \in Creating /\ m \in EventRequests \cup RouteRequests
      /\ m.op \in {"event.create", "code_change_impact.route"}
  BY RequestFields DEF CreateEvent, RouteImpact, Creating
<1>2. /\ m.project \in Projects /\ m.actor \in Agents /\ m.assignee \in Agents
      /\ m.evidence \in DOMAIN GitEvidence
  BY <1>1 DEF EventRequests, RouteRequests
<1>3. MayPublish(m) /\ Unused(m) /\ Publish(m, e, t)
  BY DEF CreateEvent, RouteImpact
<1>4. PICK event : event = [publisher |-> m.actor, project |-> m.project,
                            evidence |-> m.evidence, task |-> t]
  OBVIOUS
<1>5. /\ event \in Event /\ event # None /\ event.publisher = m.actor
      /\ event.project = m.project /\ event.evidence = m.evidence
      /\ event.task = t
  BY <1>2, <1>4, Nones DEF Event
<1>6. events[e] = None /\ events' = [events EXCEPT ![e] = event]
  BY <1>3, <1>4 DEF Publish
<1>7. /\ events' \in [EventIds -> Event \cup {None}]
      /\ \A d \in EventIds : events[d] # None => events'[d] = events[d]
      /\ events'[e] = event
  BY <1>5, <1>6 DEF Inv, Types
<1>8. tasks'[t].assignee = m.assignee /\ t \in inbox'
  BY <1>3 DEF Publish, NewTask, Inv, Types
<1>9. {m.actor, m.assignee} \subseteq MemberAgents(m.project)'
  BY <1>3 DEF MayPublish, MayCreate, Publish, MemberAgents, Member
<1>10. MayCreate(m)'
  BY <1>9 DEF MayCreate
<1>11. EventVisible(t, m.actor)'
  <2>1. [project |-> m.project,
         repository |-> GitEvidence[m.evidence].repository,
         owner |-> OwnerOf[m.actor]] \in Bindings
    BY <1>3 DEF MayPublish, EvidenceSupports
  <2>2. {m.actor, tasks'[t].assignee} \subseteq MemberAgents(m.project)'
    BY <1>8, <1>9
  <2> QED BY <1>5, <1>7, <1>8, <2>1, <2>2 DEF EventVisible
<1>12. MayReplay(m, t)'
  BY <1>1, <1>8, <1>10, <1>11 DEF MayReplay
<1>13. /\ NewTask(t, m.project, m.assignee, m.actor)
       /\ Complete(m, t)
       /\ UNCHANGED <<members, workspaces, policies, selections>>
  BY <1>3 DEF Publish
<1> QED BY <1>1, <1>2, <1>3, <1>7, <1>12, <1>13, NewTaskInv

LEMMA TransitionInv ==
  ASSUME Inv, NEW m \in Requests, TransitionTask(m)
  PROVE  Inv'
<1>1. m.op = "task.transition" /\ m \in TransitionRequests
  BY RequestFields DEF TransitionTask
<1>2. m.task \in TaskIds /\ m.target \in TaskStatuses
  BY <1>1 DEF TransitionRequests
<1>3. Assigned(m) /\ Unused(m) /\ Complete(m, m.task)
      /\ UNCHANGED <<members, inbox, workspaces, events, policies, selections>>
  BY DEF TransitionTask
<1>4. PICK t : t = m.task
  OBVIOUS
<1>5. PICK old : old = tasks[t]
  OBVIOUS
<1>6. old \in Task /\ t \in TaskIds
  BY <1>2, <1>3, <1>4, <1>5 DEF Assigned, Inv, Types
<1>7. PICK new : new = [old EXCEPT !.status = m.target, !.moves = @ + 1]
  OBVIOUS
<1>8. /\ new \in Task /\ new # None /\ new.moves = old.moves + 1
      /\ new.project = old.project /\ new.assignee = old.assignee
      /\ new.requester = old.requester
  <2>1. PICK n : n = old.moves + 1
    OBVIOUS
  <2>2. n \in Nat
    BY <1>6, <2>1 DEF Task
  <2>3. new = [old EXCEPT !.status = m.target, !.moves = n]
    BY <1>7, <2>1
  <2>4. /\ new \in Task /\ new.moves = n
        /\ new.project = old.project /\ new.assignee = old.assignee
        /\ new.requester = old.requester
    BY <1>2, <1>6, <2>2, <2>3 DEF Task
  <2> QED BY <2>1, <2>4, Nones
<1>9. tasks' = [tasks EXCEPT ![t] = new]
  BY <1>4, <1>5, <1>7 DEF TransitionTask
<1>10. tasks' \in [TaskIds -> Task \cup {None}]
      /\ \A u \in TaskIds : tasks'[u] = IF u = t THEN new ELSE tasks[u]
  BY <1>8, <1>9 DEF Inv, Types
<1>11. PICK row : /\ row.request = m /\ row.result = t
                  /\ row \notin ledger /\ ledger' = ledger \cup {row}
  BY <1>3, <1>4, CompletesOnce DEF Inv
<1>12. LedgerInv' /\ IsFiniteSet(ledger)
  BY <1>3, CompletesOnce DEF Inv, LedgerInv
<1>13. Types'
  BY <1>3, <1>10 DEF Inv, Types
<1>14. Grows
  BY <1>3, <1>5, <1>8, <1>10 DEF Grows
<1>15. Extends
  BY <1>3 DEF Extends
<1>16. old # None
  BY <1>6, Nones
<1>17. ASSUME NEW u \in TaskIds PROVE TaskOK(u)'
  <2>1. TaskRows(u)' = TaskRows(u)
    BY <1>1, <1>11, <1>12, RowsGrow DEF TaskRows, Creating
  <2>2. TaskOK(u)
    BY DEF Inv
  <2>3. CASE u = t
    <3>1. /\ u \in inbox /\ Cardinality(TaskRows(u)) = 1
          /\ Cardinality(MoveRows(u)) = old.moves
      BY <1>5, <1>16, <2>2, <2>3 DEF TaskOK
    <3>2. Cardinality(MoveRows(u)') = old.moves + 1
      BY <1>1, <1>11, <1>12, <2>3, <3>1, RowsGrow DEF MoveRows
    <3>3. tasks'[u] = new
      BY <1>10, <2>3
    <3>4. tasks'[u].moves = old.moves + 1 /\ tasks'[u] # None
      BY <1>8, <3>3
    <3> QED BY <1>3, <2>1, <3>1, <3>2, <3>4 DEF TaskOK
  <2>4. CASE u # t
    <3>1. MoveRows(u)' = MoveRows(u)
      BY <1>11, <1>12, <2>4, RowsGrow DEF MoveRows
    <3>2. tasks'[u] = tasks[u]
      BY <1>10, <2>4
    <3> QED BY <1>3, <2>1, <2>2, <3>1, <3>2 DEF TaskOK
  <2> QED BY <2>3, <2>4
<1>18. ASSUME NEW w \in WorkspaceIds PROVE WorkspaceOK(w)'
  <2>1. BindRows(w)' = BindRows(w)
    BY <1>1, <1>11, <1>12, RowsGrow DEF BindRows
  <2> QED BY <1>3, <2>1 DEF Inv, WorkspaceOK
<1>19. ASSUME NEW owner \in Owners PROVE SelectionsOK(owner)'
  <2>1. SelectRows(owner)' = SelectRows(owner)
    BY <1>1, <1>11, <1>12, SelectsGrow
  <2> QED BY <1>3, <2>1 DEF Inv, SelectionsOK
<1>20. Answerable(row)'
  <2>1. NamesOK(row)'
    BY <1>1, <1>11 DEF NamesOK, Creating
  <2>2. Assigned(m)'
    BY <1>2, <1>3, <1>14, AssignedPersists
  <2>3. MayReplay(m, t)'
    BY <1>1, <1>4, <2>2 DEF MayReplay
  <2> QED BY <1>11, <2>1, <2>3 DEF Answerable
<1>21. Follows(row)'
  BY <1>1, <1>11 DEF Follows
<1>22. \A r \in ledger' : Answerable(r)' /\ Follows(r)'
  BY <1>11, <1>14, <1>15, <1>20, <1>21, RowsPersist
<1>23. OneEach'
  BY <1>3 DEF Inv, OneEach
<1> QED BY <1>12, <1>13, <1>17, <1>18, <1>19, <1>22, <1>23 DEF Inv

LEMMA OtherTransitionInv ==
  ASSUME Inv, NEW t \in TaskIds, NEW target \in TaskStatuses,
         OtherTransition(t, target)
  PROVE  Inv'
<1>1. PICK old : old = tasks[t]
  OBVIOUS
<1>2. old \in Task
  BY <1>1 DEF OtherTransition, Inv, Types
<1>3. PICK new : new = [old EXCEPT !.status = target]
  OBVIOUS
<1>4. /\ new \in Task /\ new # None /\ new.moves = old.moves
      /\ new.project = old.project /\ new.assignee = old.assignee
      /\ new.requester = old.requester
  BY <1>2, <1>3, Nones DEF Task
<1>5. tasks' = [tasks EXCEPT ![t] = new]
      /\ UNCHANGED <<members, inbox, workspaces, events, policies, selections,
                     ledger>>
  BY <1>1, <1>3 DEF OtherTransition
<1>6. tasks' \in [TaskIds -> Task \cup {None}]
      /\ \A u \in TaskIds : tasks'[u] = IF u = t THEN new ELSE tasks[u]
  BY <1>4, <1>5 DEF Inv, Types
<1>7. Types'
  BY <1>5, <1>6 DEF Inv, Types
<1>8. Grows
  BY <1>1, <1>4, <1>5, <1>6 DEF Grows
<1>9. Extends
  BY <1>5 DEF Extends
<1>10. \A r \in ledger' : Answerable(r)' /\ Follows(r)'
  BY <1>5, <1>8, <1>9, SameRows
<1>11. ASSUME NEW u \in TaskIds PROVE TaskOK(u)'
  <2>1. TaskRows(u)' = TaskRows(u) /\ MoveRows(u)' = MoveRows(u)
    BY <1>5 DEF TaskRows, MoveRows, RowsOf
  <2>2. (tasks'[u] = None <=> tasks[u] = None)
        /\ (tasks[u] # None => tasks'[u].moves = tasks[u].moves)
    <3>1. old # None
      BY <1>2, Nones
    <3> QED BY <1>1, <1>4, <1>6, <3>1
  <2>3. TaskOK(u)
    BY DEF Inv
  <2> QED BY <1>5, <2>1, <2>2, <2>3 DEF TaskOK
<1>12. ASSUME NEW w \in WorkspaceIds PROVE WorkspaceOK(w)'
  BY <1>5 DEF Inv, WorkspaceOK, BindRows, RowsOf
<1>13. ASSUME NEW owner \in Owners PROVE SelectionsOK(owner)'
  BY <1>5 DEF Inv, SelectionsOK, SelectRows
<1>14. LedgerInv' /\ OneEach'
  BY <1>5 DEF Inv, LedgerInv, OneEach, SameKey
<1> QED BY <1>7, <1>10, <1>11, <1>12, <1>13, <1>14 DEF Inv

LEMMA JoinInv ==
  ASSUME Inv, NEW owner \in Owners, NEW project \in Projects,
         Join(owner, project)
  PROVE  Inv'
<1>1. /\ members' = members \cup {<<owner, project>>}
      /\ UNCHANGED <<tasks, inbox, workspaces, events, policies, selections,
                     ledger>>
  BY DEF Join
<1>2. Types'
  BY <1>1 DEF Inv, Types
<1>3. Grows /\ Extends
  BY <1>1 DEF Grows, Extends
<1>4. \A r \in ledger' : Answerable(r)' /\ Follows(r)'
  BY <1>1, <1>3, SameRows
<1>5. ASSUME NEW t \in TaskIds PROVE TaskOK(t)'
  BY <1>1 DEF Inv, TaskOK, TaskRows, MoveRows, RowsOf
<1>6. ASSUME NEW w \in WorkspaceIds PROVE WorkspaceOK(w)'
  BY <1>1 DEF Inv, WorkspaceOK, BindRows, RowsOf
<1>7. ASSUME NEW o \in Owners PROVE SelectionsOK(o)'
  BY <1>1 DEF Inv, SelectionsOK, SelectRows
<1>8. LedgerInv' /\ OneEach'
  BY <1>1 DEF Inv, LedgerInv, OneEach, SameKey
<1> QED BY <1>2, <1>4, <1>5, <1>6, <1>7, <1>8 DEF Inv

(* A command that adds a row but touches no Task. *)
LEMMA TasksAlone ==
  ASSUME Inv, NEW row, row \notin ledger, ledger' = ledger \cup {row},
         row.request.op \notin Creating \cup {"task.transition"},
         UNCHANGED <<members, tasks, inbox, events>>
  PROVE  \A t \in TaskIds : TaskOK(t)'
<1> TAKE t \in TaskIds
<1>1. TaskRows(t)' = TaskRows(t) /\ MoveRows(t)' = MoveRows(t)
  BY RowsGrow DEF TaskRows, MoveRows, Inv, LedgerInv
<1>2. TaskOK(t)
  BY DEF Inv
<1> QED BY <1>1, <1>2 DEF TaskOK

LEMMA RegisterInv ==
  ASSUME Inv, NEW m \in Requests, NEW w \in WorkspaceIds,
         RegisterWorkspace(m, w)
  PROVE  Inv'
<1>1. m.op = "workspace.register" /\ m \in WorkspaceRequests
  BY RequestFields DEF RegisterWorkspace
<1>2. m.task \in TaskIds /\ m.actor \in Agents
  BY <1>1 DEF WorkspaceRequests
<1>3. m.repository \in STRING
  <2>1. PICK b \in Bindings : m.repository = b.repository
    BY DEF RegisterWorkspace, MayBind, BoundTo
  <2> QED BY <2>1, BindingsAssumption
<1>4. /\ MayBind(m) /\ Unused(m) /\ ~Bound(m.task) /\ workspaces[w] = None
      /\ Complete(m, w)
      /\ UNCHANGED <<members, tasks, inbox, events, policies, selections>>
  BY DEF RegisterWorkspace
<1>5. PICK new : new = [task |-> m.task, actor |-> m.actor,
                        repository |-> m.repository]
  OBVIOUS
<1>6. /\ new \in Workspace /\ new # None /\ new.task = m.task
      /\ new.actor = m.actor /\ new.repository = m.repository
  BY <1>2, <1>3, <1>5, Nones DEF Workspace
<1>7. workspaces' = [workspaces EXCEPT ![w] = new]
  BY <1>5 DEF RegisterWorkspace
<1>8. workspaces' \in [WorkspaceIds -> Workspace \cup {None}]
      /\ \A v \in WorkspaceIds :
            workspaces'[v] = IF v = w THEN new ELSE workspaces[v]
  BY <1>6, <1>7 DEF Inv, Types
<1>9. PICK row : /\ row.request = m /\ row.result = w
                 /\ row \notin ledger /\ ledger' = ledger \cup {row}
  BY <1>4, CompletesOnce DEF Inv
<1>10. LedgerInv' /\ IsFiniteSet(ledger)
  BY <1>4, CompletesOnce DEF Inv, LedgerInv
<1>11. Types'
  BY <1>4, <1>8 DEF Inv, Types
<1>12. Grows /\ Extends
  BY <1>4, <1>8 DEF Grows, Extends
<1>13. \A t \in TaskIds : TaskOK(t)'
  BY <1>1, <1>4, <1>9, TasksAlone DEF Creating
<1>14. ASSUME NEW v \in WorkspaceIds PROVE WorkspaceOK(v)'
  <2>1. WorkspaceOK(v)
    BY DEF Inv
  <2>2. CASE v = w
    <3>1. Cardinality(BindRows(v)) = 0
      BY <1>4, <2>1, <2>2 DEF WorkspaceOK
    <3>2. Cardinality(BindRows(v)') = Cardinality(BindRows(v)) + 1
      BY <1>1, <1>9, <1>10, <2>2, RowsGrow DEF BindRows
    <3>3. workspaces'[v] # None
      BY <1>6, <1>8, <2>2
    <3> QED BY <3>1, <3>2, <3>3 DEF WorkspaceOK
  <2>3. CASE v # w
    <3>1. BindRows(v)' = BindRows(v) /\ workspaces'[v] = workspaces[v]
      BY <1>8, <1>9, <1>10, <2>3, RowsGrow DEF BindRows
    <3> QED BY <2>1, <3>1 DEF WorkspaceOK
  <2> QED BY <2>2, <2>3
<1>15. OneEach'
  <2>1. \A v \in WorkspaceIds : workspaces[v] # None =>
            workspaces[v].task # m.task
    BY <1>4 DEF Bound
  <2>2. OneEach
    BY DEF Inv
  <2>3. \A u, v \in WorkspaceIds :
            workspaces'[u] # None /\ workspaces'[v] # None
                /\ workspaces'[u].task = workspaces'[v].task => u = v
    BY <1>6, <1>8, <2>1, <2>2 DEF OneEach
  <2> QED BY <2>3 DEF OneEach
<1>16. ASSUME NEW owner \in Owners PROVE SelectionsOK(owner)'
  <2>1. SelectRows(owner)' = SelectRows(owner)
    BY <1>1, <1>9, <1>10, SelectsGrow
  <2> QED BY <1>4, <2>1 DEF Inv, SelectionsOK
<1>17. Assigned(m)
  BY <1>4 DEF MayBind
<1>18. Answerable(row)'
  <2>1. workspaces'[w] = new
    BY <1>8
  <2>2. NamesOK(row)'
    <3>1. tasks'[m.task] # None
      BY <1>4, <1>17 DEF Assigned
    <3> QED BY <1>1, <1>2, <1>6, <1>9, <2>1, <3>1 DEF NamesOK, Creating
  <2>3. MayBind(m)'
    BY <1>2, <1>4, <1>12, BindingPersists
  <2>4. WorkspaceVisible(w, m.actor)'
    BY <1>6, <2>1, <2>3 DEF WorkspaceVisible, MayBind, Assigned
  <2>5. MayReplay(m, w)'
    BY <1>1, <2>3, <2>4 DEF MayReplay
  <2> QED BY <1>9, <2>2, <2>5 DEF Answerable
<1>19. Follows(row)'
  BY <1>1, <1>9 DEF Follows
<1>20. \A r \in ledger' : Answerable(r)' /\ Follows(r)'
  BY <1>9, <1>12, <1>18, <1>19, RowsPersist
<1> QED BY <1>10, <1>11, <1>13, <1>14, <1>15, <1>16, <1>20 DEF Inv

LEMMA CreatePolicyInv ==
  ASSUME Inv, NEW m \in Requests, CreatePolicy(m)
  PROVE  Inv'
<1>1. m.op = "policy.create" /\ m \in PolicyCreations
  BY RequestFields DEF CreatePolicy
<1>2. m.actor \in Owners /\ m.version \in Versions
  BY <1>1 DEF PolicyCreations
<1>3. /\ Unused(m) /\ Complete(m, m.version)
      /\ policies' = policies \cup {<<m.actor, m.version>>}
      /\ UNCHANGED <<members, tasks, inbox, workspaces, events, selections>>
  BY DEF CreatePolicy
<1>4. PICK row : /\ row.request = m /\ row.result = m.version
                 /\ row \notin ledger /\ ledger' = ledger \cup {row}
  BY <1>3, CompletesOnce DEF Inv
<1>5. LedgerInv' /\ IsFiniteSet(ledger)
  BY <1>3, CompletesOnce DEF Inv, LedgerInv
<1>6. Types'
  BY <1>2, <1>3 DEF Inv, Types
<1>7. Grows /\ Extends
  BY <1>3 DEF Grows, Extends
<1>8. \A t \in TaskIds : TaskOK(t)'
  BY <1>1, <1>3, <1>4, TasksAlone DEF Creating
<1>9. ASSUME NEW w \in WorkspaceIds PROVE WorkspaceOK(w)'
  <2>1. BindRows(w)' = BindRows(w)
    BY <1>1, <1>4, <1>5, RowsGrow DEF BindRows
  <2> QED BY <1>3, <2>1 DEF Inv, WorkspaceOK
<1>10. ASSUME NEW owner \in Owners PROVE SelectionsOK(owner)'
  <2>1. SelectRows(owner)' = SelectRows(owner)
    BY <1>1, <1>4, <1>5, SelectsGrow
  <2> QED BY <1>3, <2>1 DEF Inv, SelectionsOK
<1>11. Answerable(row)' /\ Follows(row)'
  BY <1>1, <1>4 DEF Answerable, NamesOK, MayReplay, Follows, Creating
<1>12. \A r \in ledger' : Answerable(r)' /\ Follows(r)'
  BY <1>4, <1>7, <1>11, RowsPersist
<1>13. OneEach'
  BY <1>3 DEF Inv, OneEach
<1> QED BY <1>5, <1>6, <1>8, <1>9, <1>10, <1>12, <1>13 DEF Inv

LEMMA SelectPolicyInv ==
  ASSUME Inv, NEW m \in Requests, SelectPolicy(m)
  PROVE  Inv'
<1>1. m.op = "policy.select" /\ m \in PolicySelections
  BY RequestFields DEF SelectPolicy
<1>2. m.actor \in Owners /\ m.version \in Versions
  BY <1>1 DEF PolicySelections
<1>3. /\ Unused(m) /\ Complete(m, m.version) /\ Selectable(m)
      /\ UNCHANGED <<members, tasks, inbox, workspaces, events, policies>>
  BY DEF SelectPolicy
<1>4. PICK row : /\ row.request = m /\ row.result = m.version
                 /\ row \notin ledger /\ ledger' = ledger \cup {row}
  BY <1>3, CompletesOnce DEF Inv
<1>5. LedgerInv' /\ IsFiniteSet(ledger)
  BY <1>3, CompletesOnce DEF Inv, LedgerInv
<1>6. PICK owner : owner = m.actor
  OBVIOUS
<1>7. PICK old, new : old = selections[owner] /\ new = Append(old, m.version)
  OBVIOUS
<1>8. old \in Seq(Versions) /\ owner \in Owners
  BY <1>2, <1>6, <1>7 DEF Inv, Types
<1>9. /\ new \in Seq(Versions) /\ Len(new) = Len(old) + 1
      /\ DOMAIN old \subseteq DOMAIN new
      /\ \A i \in DOMAIN old : new[i] = old[i]
      /\ Len(new) \in DOMAIN new /\ new[Len(new)] = m.version
  BY <1>2, <1>7, <1>8
<1>10. selections' = [selections EXCEPT ![owner] = new]
  BY <1>6, <1>7 DEF SelectPolicy
<1>11. selections' \in [Owners -> Seq(Versions)]
       /\ \A o \in Owners :
            selections'[o] = IF o = owner THEN new ELSE selections[o]
  BY <1>9, <1>10 DEF Inv, Types
<1>12. Types'
  BY <1>3, <1>11 DEF Inv, Types
<1>13. Grows
  BY <1>3 DEF Grows
<1>14. Extends
  BY <1>7, <1>9, <1>11 DEF Extends
<1>15. \A t \in TaskIds : TaskOK(t)'
  BY <1>1, <1>3, <1>4, TasksAlone DEF Creating
<1>16. ASSUME NEW w \in WorkspaceIds PROVE WorkspaceOK(w)'
  <2>1. BindRows(w)' = BindRows(w)
    BY <1>1, <1>4, <1>5, RowsGrow DEF BindRows
  <2> QED BY <1>3, <2>1 DEF Inv, WorkspaceOK
<1>17. ASSUME NEW o \in Owners PROVE SelectionsOK(o)'
  <2>1. SelectionsOK(o)
    BY DEF Inv
  <2>2. CASE o = owner
    <3>1. Cardinality(SelectRows(o)') = Cardinality(SelectRows(o)) + 1
      BY <1>1, <1>4, <1>5, <1>6, <2>2, SelectsGrow
    <3>2. selections[o] = old /\ selections'[o] = new
      BY <1>7, <1>11, <2>2
    <3>3. Len(selections'[o]) = Len(selections[o]) + 1
      BY <1>9, <3>2
    <3> QED BY <2>1, <3>1, <3>3 DEF SelectionsOK
  <2>3. CASE o # owner
    <3>1. SelectRows(o)' = SelectRows(o) /\ selections'[o] = selections[o]
      BY <1>4, <1>5, <1>6, <1>11, <2>3, SelectsGrow
    <3> QED BY <2>1, <3>1 DEF SelectionsOK
  <2> QED BY <2>2, <2>3
<1>18. Answerable(row)'
  BY <1>1, <1>4 DEF Answerable, NamesOK, MayReplay, Creating
<1>19. Follows(row)'
  <2>1. Current(owner) = m.expected
    BY <1>3, <1>6 DEF Selectable
  <2>2. m.expected = IF Len(new) = 1 THEN None ELSE new[Len(new) - 1]
    <3>1. m.expected = IF old = << >> THEN None ELSE old[Len(old)]
      BY <1>7, <2>1 DEF Current
    <3>2. CASE old = << >>
      BY <1>9, <3>1, <3>2
    <3>3. CASE old # << >>
      <4>1. Len(old) \in DOMAIN old /\ Len(new) # 1 /\ Len(new) - 1 = Len(old)
        BY <1>8, <1>9, <3>3
      <4> QED BY <1>9, <3>1, <3>3, <4>1
    <3> QED BY <3>2, <3>3
  <2>3. selections'[owner] = new
    BY <1>8, <1>11
  <2>4. \E i \in DOMAIN new :
            /\ new[i] = m.version
            /\ m.expected = IF i = 1 THEN None ELSE new[i - 1]
    BY <1>9, <2>2
  <2> QED BY <1>4, <1>6, <2>3, <2>4 DEF Follows
<1>20. \A r \in ledger' : Answerable(r)' /\ Follows(r)'
  BY <1>4, <1>13, <1>14, <1>18, <1>19, RowsPersist
<1>21. OneEach'
  BY <1>3 DEF Inv, OneEach
<1> QED BY <1>5, <1>12, <1>15, <1>16, <1>17, <1>20, <1>21 DEF Inv

LEMMA StutterInv ==
  ASSUME Inv, UNCHANGED vars
  PROVE  Inv'
<1>1. UNCHANGED <<members, tasks, inbox, workspaces, events, policies,
                  selections, ledger>>
  BY DEF vars
<1>2. Types' /\ LedgerInv' /\ OneEach'
  BY <1>1 DEF Inv, Types, LedgerInv, OneEach, SameKey
<1>3. Grows /\ Extends
  BY <1>1 DEF Grows, Extends
<1>4. \A r \in ledger' : Answerable(r)' /\ Follows(r)'
  BY <1>1, <1>3, SameRows
<1>5. ASSUME NEW t \in TaskIds PROVE TaskOK(t)'
  BY <1>1 DEF Inv, TaskOK, TaskRows, MoveRows, RowsOf
<1>6. ASSUME NEW w \in WorkspaceIds PROVE WorkspaceOK(w)'
  BY <1>1 DEF Inv, WorkspaceOK, BindRows, RowsOf
<1>7. ASSUME NEW o \in Owners PROVE SelectionsOK(o)'
  BY <1>1 DEF Inv, SelectionsOK, SelectRows
<1> QED BY <1>2, <1>4, <1>5, <1>6, <1>7 DEF Inv

LEMMA InitInv == Init => Inv
<1> SUFFICES ASSUME Init PROVE Inv
  OBVIOUS
<1>1. ledger = {}
  BY DEF Init
<1>2. Cardinality({}) = 0 /\ IsFiniteSet({})
  BY FS_EmptySet
<1>3. Types
  BY DEF Init, Types
<1>4. LedgerInv
  BY <1>1, <1>2 DEF LedgerInv
<1>5. ASSUME NEW t \in TaskIds PROVE TaskOK(t)
  <2>1. TaskRows(t) = {} /\ MoveRows(t) = {}
    BY <1>1 DEF TaskRows, MoveRows, RowsOf
  <2> QED BY <1>2, <2>1 DEF TaskOK, Init
<1>6. ASSUME NEW w \in WorkspaceIds PROVE WorkspaceOK(w)
  <2>1. BindRows(w) = {}
    BY <1>1 DEF BindRows, RowsOf
  <2> QED BY <1>2, <2>1 DEF WorkspaceOK, Init
<1>7. ASSUME NEW o \in Owners PROVE SelectionsOK(o)
  <2>1. SelectRows(o) = {}
    BY <1>1 DEF SelectRows
  <2> QED BY <1>2, <2>1 DEF SelectionsOK, Init
<1>8. OneEach
  BY DEF OneEach, Init
<1> QED BY <1>1, <1>3, <1>4, <1>5, <1>6, <1>7, <1>8 DEF Inv

LEMMA NextInv == Inv /\ [Next]_vars => Inv'
<1> SUFFICES ASSUME Inv, [Next]_vars PROVE Inv'
  OBVIOUS
<1>1. ASSUME NEW owner \in Owners, NEW project \in Projects,
             Join(owner, project)
      PROVE  Inv'
  BY <1>1, JoinInv
<1>2. ASSUME NEW m \in Requests, Execute(m) PROVE Inv'
  <2>1. ASSUME NEW t \in TaskIds, CreateTask(m, t) PROVE Inv'
    BY <2>1, CreateTaskInv
  <2>2. CASE TransitionTask(m)
    BY <2>2, TransitionInv
  <2>3. ASSUME NEW w \in WorkspaceIds, RegisterWorkspace(m, w) PROVE Inv'
    BY <2>3, RegisterInv
  <2>4. ASSUME NEW e \in EventIds, NEW t \in TaskIds, CreateEvent(m, e, t)
        PROVE  Inv'
    BY <2>4, PublishInv
  <2>5. ASSUME NEW t \in TaskIds, RouteImpact(m, t) PROVE Inv'
    <3>1. m.op = "code_change_impact.route"
      BY <2>5 DEF RouteImpact
    <3>2. m.event \in EventIds
      BY <3>1, RequestFields DEF RouteRequests
    <3> QED BY <2>5, <3>2, PublishInv
  <2>6. CASE CreatePolicy(m)
    BY <2>6, CreatePolicyInv
  <2>7. CASE SelectPolicy(m)
    BY <2>7, SelectPolicyInv
  <2> QED BY <1>2, <2>1, <2>2, <2>3, <2>4, <2>5, <2>6, <2>7 DEF Execute
<1>3. ASSUME NEW t \in TaskIds, NEW target \in TaskStatuses,
             OtherTransition(t, target)
      PROVE  Inv'
  BY <1>3, OtherTransitionInv
<1>4. CASE UNCHANGED vars
  BY <1>4, StutterInv
<1> QED BY <1>1, <1>2, <1>3, <1>4 DEF Next

LEMMA Invariance == Spec => []Inv
<1> QED BY InitInv, NextInv, PTL DEF Spec

-----------------------------------------------------------------------------

(* The tables hold only what their columns admit. *)
THEOREM TypeCorrect == Spec => []TypeOK
<1>1. Inv => TypeOK
  BY DEF Inv, Types, LedgerInv, TypeOK
<1> QED BY <1>1, Invariance, PTL

(* However requests are repeated, delayed and reordered, no key has two    *)
(* effects, and each Task, move, binding and selection is the effect of    *)
(* one row of the ledger.                                                  *)
THEOREM EffectsAreSingle == Spec => []EveryEffectOnce
<1>1. Inv => EveryEffectOnce
  <2> SUFFICES ASSUME Inv PROVE EveryEffectOnce
    OBVIOUS
  <2>1. \A r1, r2 \in ledger : SameKey(r1.request, r2.request) => r1 = r2
    BY DEF Inv, LedgerInv
  <2>2. TasksAreExplained
    BY DEF Inv, TaskOK, TaskRows, MoveRows, Creating, TasksAreExplained
  <2>3. WorkspacesAreExplained
    BY DEF Inv, WorkspaceOK, OneEach, BindRows, WorkspacesAreExplained
  <2>4. \A owner \in Owners :
          Len(selections[owner]) =
            Cardinality({row \in ledger : row.request.op = "policy.select"
                                            /\ row.request.actor = owner})
    BY DEF Inv, SelectionsOK, SelectRows
  <2> QED BY <2>1, <2>2, <2>3, <2>4 DEF EveryEffectOnce
<1> QED BY <1>1, Invariance, PTL

(* A request that succeeded is answered again, and with the same result,   *)
(* whatever other requests did in between.                                 *)
THEOREM AnswersStay == Spec => []AnswersAreStable
<1>1. Inv => AnswersAreStable
  <2> SUFFICES ASSUME Inv, NEW row \in ledger
               PROVE  Replay(row.request) = {row.result}
    BY DEF AnswersAreStable
  <2>1. \A r \in ledger : SameKey(r.request, row.request) => r = row
    BY DEF Inv, LedgerInv
  <2>2. Rows(row.request) = {row}
    BY <2>1 DEF Rows, SameKey
  <2>3. ReplayOf(row.request) = {row.result}
    BY <2>2 DEF ReplayOf
  <2>4. MayReplay(row.request, row.result)
    BY DEF Inv, Answerable
  <2> QED BY <2>3, <2>4 DEF Replay
<1> QED BY <1>1, Invariance, PTL

(* Of two selections that expect the same current Policy version, one wins *)
(* and the other is refused: none is overwritten unseen.                   *)
THEOREM NoSelectionIsLost == Spec => []SelectionsFollow
<1>1. Inv => SelectionsFollow
  <2> SUFFICES ASSUME Inv, NEW row \in ledger,
                      row.request.op = "policy.select"
               PROVE  LET chosen == selections[row.request.actor]
                      IN  \E i \in DOMAIN chosen :
                            /\ chosen[i] = row.request.version
                            /\ row.request.expected =
                                  IF i = 1 THEN None ELSE chosen[i - 1]
    BY DEF SelectionsFollow
  <2> QED BY DEF Inv, Follows
<1> QED BY <1>1, Invariance, PTL
=============================================================================
