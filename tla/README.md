# Verification of the Team Agent System (TAS)

TLA+ modules, TLC configurations and TLAPS proofs for the Python program under
`src/tas/`. Paths below are relative to `src/tas/`.

## 1. The system

TAS is a coordination server for AI agents that work for different owners. All
its state is one SQLite database; every command is one handler of an HTTP
server (`api/f3.py`) or of a stdio MCP process (`mcp/server.py`), and every
write is a `BEGIN IMMEDIATE` transaction, so transactions are serial and
everything between two transactions of one handler interleaves with everything
else. There are no queues or background workers, and one in-process lock: each
HTTP server process keeps the Agents that are in a long poll in
`active_long_polls` (under `long_poll_guard`, `api/f3.py:786`) and refuses a
second one of the same Agent. Handlers may belong to several processes; each may
be killed between two transactions.
Beside the server there is the *Adapter* (`adapter/`), a program on the
developer's machine that talks to the server over HTTP and works in local git
workspaces.

Two conventions recur. A handler reads the clock once, when it starts, and its
transaction works with that value although it may run later. A command carries
an idempotency key: its result is stored with the fingerprint of the request in
the same transaction, and a repeated key is answered from the stored row.

### Inventory

| component | state | operations | what makes it hard | what must hold |
|---|---|---|---|---|
| durable Inbox (`inbox_command_uow.py`, `lease_tokens.py`) | `tas_inbox_items`, ledger rows, audits | claim (with long poll), acknowledge, release, reap | racing handlers, lagging clocks, retried and late requests | leases exclusive, attempts bounded and answered, settled once |
| A2A bridge (`application/a2a_bridge.py`, `a2a_delegation_repository.py`, `official_gateway.py`) | one operation row, the Task | reserve, begin, send, record, apply, complete, claim recovery | lost answers, crashes at every step, take-over of a silent call, stale snapshots | one message for each time the gateway says that none left, Task agrees with the record, outcome reaches the Task |
| Approvals (`approval_command_uow.py`, `domain/approval.py`) | approval rows, the Task's status | request, decide, expire | decision races expiry and the assignee's transitions | Task waits exactly while an Approval is pending; one decision |
| remote action grants (`remote_action_grant_uow.py`) | consumption, grant, receipt, audit | prepare, submit receipt, mark unknown | the effect is in another system; retry, late receipts | one action per Approval, receipt final |
| Adapter commits (`adapter/actions.py`) | git refs in the workspace | execute once, find receipt | killed processes, orphan git children, two Adapters | one commit per operation, inside the window |
| F2 consumption (`application/action_execution.py`, `action_grant_repository.py`, `sqlite_executor.py`) | grant rows and audit events, two tables of the server's database; the executor's receipts in a database of its own | consume, execute, complete, audit | a failure or crash between any two of them, lost answers, calls that overlap | one effect per Approval; row, receipt and trail never contradict each other |
| commands with a ledger (`task_creation_uow.py`, `task_transition_uow.py`, `workspace_binding_uow.py`, `event_command_uow.py`, `code_change_impact_uow.py`, `policy_repository.py`) | Tasks, bindings, events, Policy versions and selections, ledger rows | create, move, bind, publish, route, create and select a version | requests repeated, delayed and reordered | each key has one effect; a success stays answered; no selection is lost |
| Artifacts (`artifact_upload_uow.py`, `artifact_cleanup.py`, `artifact_access_repository.py`) | upload, lifecycle and security rows, quota; files | reserve, stage, scan, publish, expire, purge, download | files and rows move in different steps, and are read in different steps | what is served is stored and clean; a download finds what its row promised; no quota exceeded |
| Evidence (`evidence_submission_uow.py`) | submission rows, snapshots | reserve, finalize | dependencies change in between, cleanup runs beside | what is linked is kept; finalized over what was reserved |
| Work Records and their validation (`knowledge_access_uow.py`, `authoritative_validation_uow.py`, `application/epistemic_validation.py`, `epistemic_repository.py`) | records, epistemic events | record, validate, dispute | runs finalized while a record that omits them is validated | no known run is left out |
| Team Memories (`knowledge_access_uow.py`, `memory_repository.py`, `adapters/git/memory_applicability.py`) | memories, assessments, revisions | promote, search, assess against a worktree, supersede | the record is disputed later, the worktree moves during the check, assessors overlap | what is found as validated is undisputed; later assessments win; superseded for good |
| Credentials (`application/credentials.py`, `credential_repository.py`) | rows with a status and a chain of rotations | issue, authenticate, rotate, revoke | rotation races revocation and expiry | none accepted late, one successor at most |
| Audit trail and query | append-only rows | append, page | rejection audits are second transactions | pages neither skip nor repeat |
| HTTP routes, MCP servers, CLI, HTTP client, logging, migrations, collection of git and test evidence | none of their own | | | not modelled: I/O and dispatch |

`PROJECT.json` lists the hazards of this code at the lines where they bite,
each with the properties that cover it.

## 2. What is modelled

### Inbox (module `Inbox`, abstract specification `Delivery`)

`items` are the rows of `tas_inbox_items`, `claims` and `finishes` the ledger
rows, `audits` the rejection audits, `members` the memberships a claim joins
with, and `req[h]` the local variables of one request. A claim is `StartClaim`,
then the loop of `SQLiteInboxCommandUnitOfWork.claim`: `Probe` (read-only),
`Wake` after the pause, and one of `ReplayClaim`, `RefuseClaim`, `ClaimItem`,
`ClaimEmpty`, `ClaimLater`, which are the outcomes of the transaction
`_claim_once`. Acknowledge and release are `StartFinish` and one of the outcomes
of `_finish`; a refused one ends in `AuditRejection`, a transaction of its own.
`Crash` ends a request anywhere.

* Every transaction uses the handler's `now`, so it may work with an old time
  and handlers may commit out of clock order. A row is reaped by whoever claims
  next; when that claim is refused the reaping is rolled back with it
  (`RefuseClaim` leaves `items` alone).
* A token is the HMAC of agent, key, item and attempt; the model uses the tuple.
  Two different tuples have different tokens: the usual assumption on HMAC-SHA256.
* The monotonic clock of the long-poll deadline is taken to be the same clock.
  Timestamps are compared as ISO strings in the code, all in UTC with one format
  per column, which orders them as numbers.
* `LongPolling(p, a)` is the set `active_long_polls` of the process `p`, and
  `ProcessOf` says in which process a handler runs: two long polls of one Agent
  exclude each other in one process only.
* The rows are also claimed by the local stdio MCP server, which wires the
  prototype's `SQLiteInboxRepository` (`mcp/server.py:106`). It spends attempts
  on them without a ledger row, a key or a membership check and is outside the
  model: `AttemptsAreAnswered` and the bindings of tokens are about the HTTP
  commands.
* Memberships are only inserted in the source, so `Join` has no inverse.
* Audits are a set: how often a rejection was audited is not told apart.

`Delivery` has only the phase and the number of attempts of each item.
`ImplementsDelivery` says that the rows move as `Delivery` allows.

### A2A delegation (module `A2ADelegation`)

`op` is the row of `tas_a2a_delegation_operations`, `task` the Task (status,
length and last time of its history, author of the last transition), `remote`
the external agent's task, `sends` the messages that left, `denied` those of
them that the gateway reported as not sent, and `call[h]` one
`tas_delegate_task` call with the clock reading and Task snapshot it started
with. Each repository transaction is an action (`Reserve`, `Begin`, `Record`,
`FailSubmission`, `FailRecovery`, `Complete`, `GiveUpSubmission`, `Claim`,
`ClaimRefused`), as are the gateway's send and answer and the two saves of the
Task (`Apply`, `SaveFailed`). The case analysis of `_resume_persisted` is the
operator `Resumed`, the decisions of `claim_recovery` are `Recoverable`,
`ClaimIsFresh`, `ResendInterrupted` and `Exhausted`. `LocalMove` is the assignee
or an Approval moving the same Task; `RemoteProgress` is external.

* The triggers of migrations 0037 and 0038 abort a transaction that breaks the
  columns' rules; the actions are translated from the UPDATEs, and
  `ColumnsConsistent` states what the triggers demand, so that none is aborted.
* The gateway's answers are translated as `official_gateway.py` gives them.
  Every `ValueError` of the operation becomes `request_may_have_been_sent=False`
  (:190), also one raised after the message left, as for a body that cannot be
  decoded; so `Answer` may end "unsent", the row becomes `not_sent`, and the
  next call sends again. The second message may meet the external task of the
  first (all carry one id) or start another. That only one message leaves does
  not hold (section 3); `OneSendPerDenial` says what the bridge itself keeps,
  that it sends again only after the gateway said that nothing was sent.
* `updated` stands for `updated_at` at the begin of the submission, the only
  use of that column.
* The transition history is its length, its last time and its author. A saved
  path is compared with the stored history as the code does, by length and
  status.
* Observed while modelling, and allowed by the model: `recovery_attempt_count`
  is never reset, so a delegation that answers "working" for longer than the
  budget needs manual reconciliation; a Task whose submission's fate is unknown
  stays `working`; a late error ends the claim of the call that took over
  (`finish_recovery_error` does not know who holds it), which costs a retry but
  breaks none of the properties.

`ImplementsOneShot` maps the row to the phases of `OneShot` (`Phase`: reserved is
none, submitting and not_sent are authorized, response_unknown is unknown, the
rest is done) and the action performed to `sends > 0`, the first message having
left: it leaves only for a recorded submission, perhaps one given up meanwhile,
and an answer, or a refusal, is recorded only of a message that left. Of further
messages it says nothing; `OneSendPerDenial` counts those.

Not modelled: rows migrated from the F2 schema;
`SQLiteA2ADelegationResultRepository.save`, which nothing calls; and a history
that is not chronological (run `chronology`), which can not be restored, so that
no delegation of such a Task could be applied any more: `OutcomeIsApplied` is
about Tasks without one.

### Approvals (module `Approval`, over `TaskLifecycle`)

`tasks` has of each Task its status, the time of its last transition and whether
its history is in order, `approvals` the rows of `tas_approvals`, `policy` the
version the receiving Owner has selected. One action is one command: a handler
reads the clock and runs its transaction up to `Lag` later, so every
transaction takes its `now` from `Readings`, and `RequestApproval`, `Decide` and
`Transition` of different handlers commit in any order of their readings.

* A repeated idempotency key finds its row, a refused command writes an audit
  row only; both leave the model's state alone. An Approval is named by the key
  it was requested under.
* Expiry is a decision that comes too late (`Resolution`); nothing else expires
  an Approval, and one nobody decides stays pending.
* Versions of a Policy are immutable, so what the engine decides is a fact about
  the version (`Demanding`). `SelectPolicy` may go back to an older one.
* The relationships a request and a grant join with (agents, memberships,
  repository bindings) are only ever inserted, except the status of the Task.

### Approved commits (module `ActionGrant`, abstract specification `OneShot`)

`ActionGrant` extends `Approval` by the grant of each Approval (the rows of
`tas_action_grant_consumptions` and `tas_remote_action_grants`, with `unknown` for
the audit event that marks a result unknown), the workspaces on the developers'
machines (`head`, `staged`, the refs of attempts and operations, `lock`) and the
calls of `execute_git_commit` (`run[p]`). A call reads the Approval (`Call`) and
the grant (`ReadGrant`), prepares one if there is none (`Prepare`), looks for a
commit that was made (`Look`), takes the lock and goes through the steps of
`_execute_once_locked` (`FindUnderLock`, `Refuse`, `Reserve`, `WriteTree`,
`CommitTree`, `UpdateRefs`, `UpdateRefused`), and then submits the receipt
(`Submit`) or, when anything failed, looks once more (`Failed`) and marks the
result unknown (`MarkUnknown`).

* Any git command may fail or time out (`GitFails`); where the command changes
  refs it may fail after it changed them (`Reserve`, `UpdateRefs`).
* `Crash` kills a call anywhere. The system releases its `flock`, but a git child
  that updates refs lives on and becomes an orphan, which may do its update
  (`OrphanUpdates`) at any time, beside other calls. An answer that is lost is the
  same to the caller.
* The developer resets, commits and stages at any time (`Develop`); `head` is
  the approved branch, and None stands for any commit no Evidence was collected
  at. Workspaces have refs of their own: two worktrees of one repository are not
  modelled.
* The two clocks differ by `Skew`. A commit's time is cut to the second
  (`OnSecond`), the server's times are not.
* Git objects are abstracted to what the refs name. A `rev-parse` that fails is
  "no such ref", as in the code.
* Preconditions `_check_staged` adds (no unstaged or untracked files) are part of
  `GitFails` under the lock and of `AsObserved` before it.

`OneShot` has four phases of an action that must not happen twice and whether it
happened; `ImplementsOneShot` maps the phase from the grant and the action from
the refs. The delegation and the in-process consumption implement it too.

### Artifacts and Evidence (modules `Artifacts`, `EvidenceSubmission`, `ArtifactAccess`)

`row` is what the tables of uploads, security and lifecycle say of an Artifact,
`quarantine` and `available` are the Artifacts with a file in these directories,
`links` the Artifacts linked to Evidence. A reservation is one action, `Reserve`.
Upload and finalize are two each, because the Body moves before the COMMIT:
`PlaceUpload` and `CommitUpload`, `PlaceFinalized` and `CommitFinalize`. In
between `txn` holds SQLite's write lock. An exception (`Fail`) rolls the rows
back and frees the lock; the `except` clause moves the files back after that, so
its work waits in `undo` and `MoveBack` does it at any later time, beside the
transactions of other processes. `Die` kills a process at either place. Cleanup
is `RequestExpired`, one transaction, and for each run `job[w]` the steps of
`purge_pending`: `ReadPending`, `Unlink`, `Mark`; a run may stop anywhere
(`Abandon`).

* A Body is `binary` (the scanner supports text only), `clear` or `secret` (holds
  a registered secret); the redacted copy has the length of its source, since
  every secret is replaced by as many asterisks. Any scan may fail.
* Sizes and quotas are numbers; the model has one Owner, who owns all the Tasks.
  The check of `reserve` and of the insert trigger are the same (`Fits`); the
  trigger checks again when the redacted copy is inserted (`CopyFits`).
* Content that contradicts the reservation, actors without rights, repeated keys
  and the rejection audits change no state here. A file of `.staging` is named by
  no row and removed by the call that made it.
* Nothing in `src/` calls cleanup: it is a tool of an operator, who may run
  several at once and as rarely as he likes. So no liveness is stated of it.
* `EvidenceSubmission` extends `Artifacts` by the rows of
  `tas_evidence_submissions` and the two commands on them. The Task keeps its
  assignee and workspace here: an Evidence of a Task that is reassigned can not
  be finalized by its former assignee.
* `ArtifactAccess` adds downloads. `open_artifact` reads the row, ends its
  transaction and opens the Body afterwards: `ReadRow` and `OpenBody`, between
  which every other step may come. What `open` finds is not a choice of the
  action; `ReadMissesOnlySealed` says when it may find nothing.

### Commands with a ledger (module `TeamCommands`)

Every variable is a table; `ledger` has the completed rows of both idempotency
tables. One action is one command, which is one write transaction: its guard is
the authority the code asks for, the look-up of the key (`Unused`) and the
domain's rules, and the effect appears with its row. `Requests` is what Agents and
Owners may send. A request may be executed whenever its guard allows and as
often as the network repeats it, so nothing is kept of messages on their way.
What a repeated request is answered is not a step, since it changes nothing, but
the operator `Replay`: the row of the same request, under the authority that is
asked for again (`MayReplay`).

* The fingerprint is a hash of operation and payload: here the request itself.
* The order of ledger and authority differs from command to command
  (`route` looks at the ledger first) and is kept; it matters only for what a
  refused request is told.
* The same result means the ids and versions that the ledger row names. The body of
  an answer shows the present Task (`task_transition_uow.py:220`).
* `CreateTask` is the command as the HTTP route wires it. The local stdio MCP
  server wires the same unit of work under the same operation without origin,
  membership check and Inbox item (`mcp/server.py:102`); that wiring is outside the
  model, so `t \in inbox` and the membership of an answer hold for HTTP only.
* `moves` counts the assignee's transitions of a Task and `inbox` is a set; both
  are there for what the ledger is compared with. `OtherTransition` is what
  Approvals and the bridge do to Tasks.
* The audits of refused requests, and times, are left out.

### Records, validation, memories (modules `Knowledge`, `MemoryApplicability`)

`registry` is the finalized Evidence of one Task, `records` and `events` the Work
Records with their history, `memories` what was promoted. `ValidateWorkRecord` is
the transaction of `SQLiteAuthoritativeValidationUnitOfWork`, with the two rules
of `epistemic_validation.py` as operators (`AssessTestSuccess`,
`AssessCodeAdaptation`). The search for related runs stops when it finds
nothing more, so what it finds is the least set it cannot add to (`RelatedRuns`,
`NothingToAdd`); the walks along revisions and repetitions (`Chained`,
`Repeats`) are written in the same way. `MemoryApplicability` adds the worktree, which a developer
edits and commits to at any time, and assessors: an assessment reads the
predecessor, HEAD and the edits, each again at the end, and appends in a
transaction of its own. `AddRevision` supersedes a Memory.

* All Evidence of the instance names one Workspace, Repository and command line,
  and the Agent is authorized; paths are reduced to whether a commit touches
  them (`Touching`), history is linear.
* Observed: only a record validated by the rule `code_adaptation` can be promoted,
  since the scope comes from Git Evidence; a run registered after a validation
  does not take it back; and over HTTP nothing can dispute a validated record:
  only `SQLiteEpistemicRepository` appends that event. The assessments are not
  wired to a route either.

### Credentials (module `Credentials`, abstract specification `Handover`)

`credentials` are the rows with their sealed scopes, `calls` the local state of
one call each: `BeginAuthenticate` reads the clock, `Authenticate` the row;
`BeginRotate` and `BeginRevoke` read what the service reads before its
transaction, `RotateWithAudit` and `RevokeWithAudit` are the transactions. `late` remembers that the
Credential had ended when the request began. `Handover` has the live and the
spent Credentials and who took over from whom.

* Observed: a Credential that has expired but was not revoked may be rotated, and
  its successor is live. `PrincipalCredentialManagementService` is wired to no
  route.
* Audit events, the keyring and fixtures are left out; bindings of Owner and
  Agent never change in the source.

### In-process consumption and the audit trail (modules `ConsumeGrant`, `AuditTrail`)

`row` is the grant's row and `log` the audit trail, two tables of the server's one
database that are written in transactions of their own; `receipts` and
`executions` are the executor's database. A call of
`consume` is `Begin` and then one action for each read or transaction
(`ReadApproval`, `ReadGrant`, `FindReceipt`, `Check`, `CheckPreconditions`, `Reserve`,
`ExecuteOnce`, `Complete`, `LookForEvent`, `AddEvent`, `MarkAudited`, and `Refuse` or
`RecordUnknown` at the end of a call that failed). `Stop` ends it anywhere, and
the executor may raise before or after it acted. A refusal is audited for the
repository of the intent that was presented, which need not be the Approval's
when the intent does not fit (`Presented`). The module refines `OneShot`,
as the remote grants do.

* The time and the Policy version are arguments of the call, read by whoever
  calls; so an action may still happen after its Approval has expired.
* Observed: a reservation stays bound to the preconditions it was made for. When
  these change before the execution, the Approval can be used for nothing else.
* The service is wired to no route. It shares a table with the remote grants, but
  no code uses both for one Approval.
* `AuditTrail` has the order of events, the pages of `list_for_owner` and who may
  read them. A page is one read transaction; the cursor is the last item shown.

## 3. What is checked

The runs of `Inbox`, `A2ADelegation`, `Approval`, `ActionGrant` and `Knowledge` check
deadlock: a client, the Owner or the developer can always do something, so none
stops. The others do not: an instance stops when its identifiers, requests or
calls are used up and the clock has reached its bound.

| run | instance | shows |
|---|---|---|
| `lease` | 2 items of one Agent, 2 claim keys, 1 finish key, 2 handlers, 2 attempts, time 0..2 | `TypeOK`, `AttemptsAreAnswered`, `SettledOnce`, `LeasesDisjoint` |
| `poll` | 1 item with one attempt whose recipient joins late, 2 claim keys, 1 finish key, waits 0 and 1, 2 handlers in processes of their own, time 0..1 | `PollReturns` under `FairSpec`, `ImplementsDelivery` |
| `calls` | 1 mortal call, 1 that repeats, 2 recovery attempts, the assignee moves the Task, time 0..2 | `OneSendPerDenial`, `ResendIsDenied`, `TaskFollowsRecord`, `ReconciliationIsFinal`, `ImplementsOneShot`; `OutcomeIsApplied` under `FairSpec` |
| `chronology` | 1 Approval, lag 1 | violates `HistoriesAreChronological` |
| `once` | 1 Approval, 2 workspaces with Evidence each, 2 mortal calls, 2 Policy versions, 2 ticks a second, time 0..1 | `TypeOK`, `AtMostOneAttempt`, `CommitsAreGranted`, `ReceiptsAreTrue`, `TaskAwaitsDecision`, `ImplementsOneShot`, `DecisionMovesTask` |
| `report` | 1 mortal call, 1 that repeats, time 0..1 | `ReceiptsArrive` under `FairSpec` |
| `receipt` | 1 call that repeats, time 0..2 | violates `EveryReceiptArrives` under `FairSpec` |
| `evidence` | 3 Artifacts (redacted copies among them), a clear stdout and a secret stderr, 2 Evidences, 2 cleanup runs, 1 download, quotas of 3 and 4 rows and 6 and 5 bytes, retention of 1 day, time 0..1 | `TypeOK`, `ServedIsStored`, `SecretsStayQuarantined`, `QuotaHolds`, `CopyAlwaysFits`, `EvidenceIsKept`, `ReadMissesOnlySealed` |
| `memory` | 2 records, 2 memories, 6 Evidences of 2 commits (a run repeated after an external error, a run that fails late), 2 assessors, 2 assessments; begins after the first promotion | `NoRunIsHidden`, `FoundIsUndisputed`, `AssessmentsInOrder`, `SupersededIsFinal` |
| `rotate` | 3 Credentials, 2 calls, an Owner's, an Agent's and an excessive profile, lifetime 1, time 0..2 | `TypeOK`, `NeverAuthenticatedLate`, `ImplementsHandover` |
| `ledger` | 20 requests of the 7 commands, 3 Tasks, 2 bindings, 2 events, 2 Policy versions, 2 Owners who join late | `EveryEffectOnce`, `AnswersAreStable`, `SelectionsFollow` |
| `consume` | 1 Approval, 2 repositories, 2 calls, 2 revisions, 2 Policy versions, an Owner who joins late, pages of 1, 1 denied query, time 0..1 | `LedgersAgree`, `PagesAreExact`, `ImplementsOneShot` |

Bounds, all of them constants. `MaxTime` stops the clock; it reaches the end of
the durations, delays and deadlines of the instance, so leases lapse, claims go
stale, budgets and deadlines run out. `MaxMoves` bounds the Task's history in
`LocalMove` only. Two attempts are the least with a first that is superseded and
a last that is settled: a late acknowledgement of the superseded lease and a
retried key occur in `lease`; a last attempt that nobody settles, and is buried
by the next claim, occurs in `poll`. Two handlers race, and a third is needed
only for "died, took over, answers late", which a call that repeats does as
well: run `calls`. In `poll` each handler has a process of its own, so that two
long polls of the Agent overlap; in `lease`, which has plain claims only, they
share one. In `once` an Approval lives one tick and a second has two, so an
expired Approval, a window cut short by the Approval's end and a commit dated
before its grant all occur. In `evidence` three identifiers are a stdout, a
stderr and its redacted copy, the least a test Evidence with a copy needs, so
the second Evidence links the same two as a retry; every row expires within the
bounds, the rows' quota binds for the Task and the bytes' for the Owner; a
served row expires, is sealed and unlinked between the two steps of the
download. In `memory` the first record is already promoted, and every command
can still happen to the second. In `rotate` two rotations of one Credential, or
a successor's successor, fit into three ids. In `ledger` commands have a key
used for another request and two keys for the same request, and the three Tasks
can each be made in another way. `MaxAssessments`, `MaxHead` and `MaxDenials`
stop the assessors, the branch and the denied queries; two assessments are an
old one and a new one. Keys, handlers and calls are symmetric, and so are
workspaces with their Evidence, Artifacts, Evidences, cleanup runs, Credentials,
assessors, revisions and Policy versions of `consume`; runs of safety properties
use that, those of liveness do not.
What the instances leave out of a safety property (more keys, more Approvals,
longer times) is covered by its proof.

Fairness. `PollReturns`: the clock runs and a handler that is not killed goes
on; nothing obliges clients to send anything. `OutcomeIsApplied`: the client
repeats the call (the delegation is resumed only by a repeated call, as the
tool's documentation says) and a call that is not killed ends, because the
gateway's requests time out. No fairness is assumed of the external agent, of
the clock or of mortal calls. `ReceiptsArrive`: the Adapter's user repeats a call
that ended without a completed grant, and reading the grant and the refs does
not fail for ever (strong fairness of `Call`, `ReadGrant`, `Look`); it assumes a
clock that is not further ahead of the server's than `Ahead`, the five minutes
the server allows.

What the violated runs show:

* `chronology`. `request` reads the clock before its transaction and appends a
  transition with that time without restoring the Task. If another transition
  with a later time was committed in between, the history is not chronological
  any more, and every later restoration of the Task raises "Task transition
  history must be chronological" (`domain/collaboration.py:126`): the Task can be
  neither read nor moved. `DecisionMovesTask` and `TaskAwaitsDecision` hold in
  these states too: a decision appends without restoring.
* `receipt`. A commit's time is cut to the second. A commit made in the second of
  its grant is dated before it, and `submit_receipt` refuses its receipt for ever,
  although the tool asks to "retry only Receipt submission"
  (`adapter/actions.py:549`). The grant is never completed. `ReceiptsArrive` is the
  part that holds.

Four further disagreements showed up while modelling; no run is spent on them.

* `_with_client` catches every `ValueError` of the whole operation and reports it with
  `request_may_have_been_sent=False` (`adapters/a2a/official_gateway.py:190`), also one
  raised after the message left, while the response is decoded. The row becomes
  `not_sent` and unclaimed with a message out, and the next call sends a second
  one. The model has it: `Answer` ends "unsent" for a submission or a resend.
  `OneSendPerDenial` and `ResendIsDenied` are the part that holds: every message
  the bridge sends again follows such a report.
* A failed upload unlinks the Body it moved after its rollback, without the write
  lock (`artifact_upload_uow.py:332`). A second upload of the same Artifact may have
  found that Body (`:291`) and committed over it. The row then says uploaded,
  there is no Body, and replay and finalize raise "Artifact body integrity failed"
  from then on. The model has it: `MoveBack` may come after the `CommitUpload` of
  the second upload. `ServedIsStored` and `ReadMissesOnlySealed` hold
  nevertheless, since such a row is never finalized.
* `write-tree` (`adapter/actions.py:155`) takes what is staged when it runs, after
  the Evidence was compared with the workspace, so the commit need not be the
  snapshot that the class promises to commit (`adapter/actions.py:60`). The model
  has it: `Develop` may come between `Look` and `WriteTree`.
* `finalize` moves a clean Body to `available/` before its COMMIT
  (`artifact_upload_uow.py:401`). A process killed in between leaves a row that
  still says "uploaded, quarantined": the Artifact can never be finalized,
  and when it has expired, `purge_pending` looks for the Body in `quarantine/`
  only, reports `body_already_absent` and releases the quota
  (`artifact_cleanup.py:83`: "Remove only known pending Body files, then release
  quota atomically"). The file stays. `SecretsStayQuarantined` says that it holds no
  secret.

Every property of a passing run has a mutant in its module: the same definition with a plausible
bug (a dropped guard, a missing column in an UPDATE, a swapped order), with
which the property is violated.

## 4. What is proved

`InboxProofs`, `A2ADelegationProofs`, `ActionGrantProofs` (also of `Approval`),
`ArtifactsProofs`, `CredentialsProofs`, `ConsumeGrantProofs`, `KnowledgeProofs` and
`TeamCommandsProofs` prove every safety invariant, action property and
refinement that a passing run checks, for all values of the constants that
satisfy the named assumptions: any set of
items, agents, keys, requests and handlers, any number of concurrent calls, Approvals,
workspaces, Artifacts, Evidences, Credentials, cleanup runs, records, Memories and
assessors, any policy, lag, skew and window, and an unbounded clock
(`MaxTime` and `MaxClock` are any numbers). The assumptions give each constant its
type (durations and limits are numbers, as the settings validate them) and say that
`None` is no value; of Evidence that is already finalized they say that a repeated
run follows the finalized run of the attempt before it (`PriorAssumption`), as it
must when it is registered.

Some of their theorems are checked by no run of their own, since a run's
property implies them or is near to them: `ColumnsConsistent`, `ApprovalTypeOK`, `SealedFirst`,
`OnlyReconciliation`, and the type invariants of `A2ADelegation`, `ConsumeGrant`, `Knowledge` and
`TeamCommands`.

* **Inbox.** The invariant has, beside the types, how tokens are bound to
  attempts: a ledger row of a claim exists for every attempt up to the item's
  count, the token of a leased item is the one of its last attempt, and a
  finish row carries the token of the attempt it settled. Disjoint leases need
  one more fact: a lease is acquired after every other lease of its Agent has
  lapsed *or* with a time in which none was running, so for two leases one of
  the two acquisitions saw the other lease and rejected it. The refinement
  theorem shows step by step that each transaction is a step of `Delivery`
  (reaping is `Bury`, possibly with `HandOut`) or a stutter.
* **A2ADelegation.** `IInv` is `TypeOK`, what each program counter implies of the
  call's local state, `ColumnsConsistent`, and the facts behind one send per
  denial: at most one call is in the part of its run where it may send or has
  sent and not reported (`OneInFlight`); while the row says that nothing was sent,
  or offers a resend, every message that left was reported as not sent and
  nobody is about to send (`PristineMeansDenied`); and a call in flight that has
  sent nothing sees all messages denied, one that awaits its answer all but its
  own (`CountsAgree`). `TaskFollowsRecord` needs that a
  call applies only what is recorded (`AppliesRecord`). The refinement of
  `OneShot` needs one fact more, `SentBefore`: a settled row, a call that awaits
  an answer and one that has it imply that a message left. `RowMoves` lists the
  ways a step may move the row and `SendsGrow` when a message leaves, and each of
  these is a step of `OneShot` or a stutter (`AbstractStep`).

* **Approval** (in `ActionGrantProofs`). `ApprovalTypeOK /\ TaskAwaitsDecision` is inductive. The bounds on
  the times of a resolution come from `Resolution` (before the expiry or
  expired) and from the reading of the clock, which is not before the request.
  `ApprovalsAlone` shows that every behaviour of `ActionGrant` is one of
  `ApprovalSpec`, so what is proved of `Approval` alone holds beside grants and
  Adapters too (`TasksAwaitAmongGrants`, `DecisionsMoveAmongGrants`).
* **ActionGrant.** `Inv` says of every call what its program counter implies
  (`CallOK`: it works for a granted Approval with the grant's Evidence, holds the
  lock where it must, and its commit is dated inside the window), the same of
  orphans (`OrphanOK`), that a grant is within its Approval (`GrantOK`), that an
  attempt ref exists when an attempt was begun and that at most one call or
  orphan carries the commit of an Approval (`TriesOK`), and that a ref names a
  commit in the granted workspace (`PlaceOK`). The attempt refs are what makes
  it inductive: the lock alone does not exclude an orphan. `Grows` collects what
  no step takes back (a grant's terms, marks, receipts and refs), from which the
  facts of the calls that did not move follow at once. The refinement maps each
  action to a step of `OneShot` or a stutter.

* **Artifacts and Evidence.** `Inv` says what keeps those who touch files without
  the write lock off the Body of a served Artifact. The files of the transaction
  that holds the lock are touched by nobody else (`TxnOwnsFiles`). A compensation
  that comes late concerns an Artifact that is still "uploaded" and whose Body is
  missing from `quarantine/`, so nobody can have finalized it meanwhile, and a
  copy that has no row and never will (`UndoIsHarmless`). A cleanup run knows
  sealed rows only, and a sealed row stays sealed (`JobsAreSealed`). `RowStep`
  collects what a step does to rows: nothing is deleted, what was declared stays,
  and a served Artifact changes only by being sealed when it has expired without
  a link. From that follows that linked rows do not change at all, hence
  `LinksAreServed`. A download holds a row that was served when it was read.
  `ReaderInv` says that the row is still served, or is sealed by now, expired and
  without Evidence (`Overdue`), and stays so: a served row has its Body
  (`ServedIsStored`), a sealed one can not be linked any more, and the clock only
  grows. From that follows `ReadMissesOnlySealed`.
  For the quotas the sum of the sizes held is the number of pairs of a row and
  one of its units (`Units`, `Total`), so the facts about finite sets give what
  a step changes. `QuotaInv` adds to `QuotaHolds` that there are finitely many rows and
  that a row not yet purged is charged what its status and size call for
  (`ChargesAreExact`): a row that is finalized then gives back the slot and the
  bytes its redacted copy takes, hence `CopyAlwaysFits`.

* **Credentials.** `TypeOK` is not inductive: that the row a revocation writes is
  one the domain class admits needs that the call read its clock after the row was issued
  (`CallOK`), and `NeverAuthenticatedLate` that a call which came late still sees
  its Credential ended (`Ended` in `CallOK`). Both stay true while others write
  because a row's dates never change and a revoked row stays revoked (`Keeps`,
  `Grows`). The refinement maps each transaction to a step of `Handover`; a
  transaction that finds the row no longer active is a stutter.
* **ConsumeGrant.** `Knows` says what a call has seen when it writes the row, the
  executor's database or the trail: a call that may act has a row for its revision, one that
  completes carries the executor's receipt, one that audits works on a completed
  row. It stays true while others write since a receipt is written once, a
  row keeps its revision and its receipt, and the trail only grows (`Grows`).
  `PagesAreExact` says of an Owner who asks for page after page of a resource while
  the trail grows that the pages hold its events so far, each once.
  `PageIsExact` shows it for one page, whatever its limit: the query reads one row
  more than it shows, and the last row it shows is the cursor. What was read
  stays exact because rows are only appended (`PagesInv`, `TrailGrows`).
* **Knowledge and MemoryApplicability.** A history says "validated" at most
  once, as its second event, and nothing after "conflicted" (`OneWay`), so the
  event a Memory remembers is the one that validated its record
  (`MemoriesRemember`), and it stays a part of the history. A registered run's
  earlier attempts are registered (`RegistryIsClosed`), so the search of the
  validation meets every repetition of a run it starts from, and of the runs it
  cites only those that a cited run repeats may have failed, hence
  `NoRunIsHidden`. Assessments overlap: `CallsLookAhead` says what a call still
  knows when it appends, given that nobody has appended since it began, and from
  that follows `AssessmentsInOrder`. `ReplacementsExist` says that the revisions
  of a Memory lead to one that stands.
* **TeamCommands.** `Inv` counts rows: no row names a Task, binding or selection
  that does not exist, and each that does has one row that made it and as many
  that moved it as it has moves. Keys are unique because `Unused` is asked in the
  transaction that writes. `AnswersAreStable` holds since what an answer needs is
  never taken back (`Grows`: memberships, what a Task was created with, bindings,
  events), `SelectionsFollow` since selections are only appended (`Extends`).

Only model-checked: the liveness properties `PollReturns`,
`OutcomeIsApplied` and `ReceiptsArrive` (fairness and ENABLED are out of the
prover's reach), and the violated runs. The models use no recursive operator:
sums are cardinalities and closures are least sets, since the prover has no
induction over data.

## 5. What is not modelled, and why

* What only the local stdio MCP server wires: the F2 Inbox repository on the
  table of the durable Inbox (`mcp/server.py:106`), and the creation of Tasks
  under the operation of the HTTP route without origin, membership check and
  Inbox item (`mcp/server.py:102`). Both write tables the models have, under
  weaker rules; the modules are about a database that the HTTP server alone
  serves.
* The repositories of the prototype that nothing in `src/` constructs
  (`SQLiteIdempotencyRepository`, `SQLiteWorkspaceBindingRepository.add`,
  `SQLiteWorkRecordRepository`): superseded by what is modelled.
* The inventory of `artifact_reconciliation.py`: it reads rows and files in a
  maintenance window and lists where they differ, which is its definition.
* The audits of refused commands, but for the Inbox's, consumption's and denied
  queries: each is a second transaction that only appends.
* Identities and registries are constants, memberships apart: they are only ever
  inserted.
* The remote agent's server (`adapters/a2a/http.py`, `sqlite_task_store.py`) is
  external to the bridge.
* Epistemic extraction, search terms and ranking of memories, HTTP parsing, the
  MCP and CLI dispatch, process execution, hashing, logging, migrations,
  generated clients and examples keep no state the properties are about.

Worth doing next: the audits of rejections and of Credentials as steps of their
own over `AuditTrail`; two Agents and several Tasks in `Knowledge`, with the
authorization of readers; the composition of `TeamCommands` with `Inbox`, so that a
Task's item is claimed and settled while its Task moves.
