---------------------------- MODULE ConsumeGrant ----------------------------
(***************************************************************************)
(* ConsumeApprovalGrantService.consume: an approved action is carried out  *)
(* by an external executor that keeps receipts of its own.  The grant's    *)
(* row, the executor and the audit trail are written one after the other,  *)
(* by calls that overlap, die between any two steps and are repeated.      *)
(*                                                                         *)
(* A call is one invocation.  Its time and its Policy are arguments, read  *)
(* by the caller before it.  Of what a request's fingerprint covers, only  *)
(* the preconditions differ between calls that fit the Approval.           *)
(***************************************************************************)
EXTENDS AuditTrail

CONSTANTS
    Approvals,
    RepositoryOf,  \* RepositoryOf[a]: where a's action takes place
    Calls,
    Revisions,     \* workspace revision and commit of a repository
    Versions,      \* versions of the receiving Owner's Policy
    Lifetimes,     \* lifetimes of Approvals
    MaxClock       \* bound: the clock stops here

ASSUME ConsumeAssumption ==
    /\ Approvals \subseteq Subjects
    /\ RepositoryOf \in [Approvals -> Resources]
    /\ Lifetimes \subseteq Nat \ {0}
    /\ MaxClock \in Nat
    /\ None \notin Approvals \cup Revisions \cup Versions

VARIABLES
    clock,
    policy,     \* the version callers pass
    decision,   \* decision[a]: a's approval; None: pending
    related,    \* Approvals whose parties ResourceAuthorizationService finds
    resource,   \* external_resource_state: the revision of each repository
    receipts,   \* external_action_receipts, by operation id
    executions, \* execution_count of each Approval's action
    row,        \* tas_action_grant_consumptions
    call        \* local state of each call

Repositories == {RepositoryOf[a] : a \in Approvals}

worldVars == <<clock, policy, decision, related>>
executorVars == <<receipts, executions>>
vars == <<worldVars, resource, executorVars, row, call, trailVars>>

Receipt == [asked: Revisions, action: Nat]

Decision == [version: Versions, expires: Nat]

Sources == {"executed", "reconciled"}

Row == [asked: Revisions, receipt: Receipt \cup {None},
        source: Sources \cup {None}, audited: BOOLEAN]

Call ==
    [pc: {"approval", "grant", "find", "check", "preconditions", "reserve",
          "find again", "execute", "complete", "look", "add", "mark",
          "reject", "unknown"},
     approval: Approvals, asked: Revisions, fits: BOOLEAN, now: Nat,
     version: Versions, receipt: Receipt \cup {None},
     source: Sources \cup {None}]

Over == [pc |-> "over"]

ASSUME NoneAssumption ==
    None # Over /\ None \notin Receipt \cup Row \cup Call

Init ==
    /\ TrailInit
    /\ clock = 0
    /\ policy \in Versions
    /\ decision = [a \in Approvals |-> None]
    /\ related \in SUBSET Approvals
    /\ resource \in [Repositories -> Revisions]
    /\ receipts = [a \in Approvals |-> None]
    /\ executions = [a \in Approvals |-> 0]
    /\ row = [a \in Approvals |-> None]
    /\ call = [c \in Calls |-> None]

At(c, pc) == call[c] # None /\ call[c].pc = pc

Goes(c, pc) == call' = [call EXCEPT ![c].pc = pc]

Ends(c) == call' = [call EXCEPT ![c] = Over]

Decided(c) == decision[call[c].approval]

RowOf(c) == row[call[c].approval]

(* action_grant_event: about the repository of the intent, which is the    *)
(* Approval's where the intent fits.                                       *)
Audited(c, kind) ==
    Recorded(kind, RepositoryOf[call[c].approval], call[c].approval)

server == <<worldVars, resource, row>>

-----------------------------------------------------------------------------
(* Around the service: time, Policies, Approvals, registries, developers.  *)

Tick ==
    /\ clock < MaxClock
    /\ clock' = clock + 1
    /\ UNCHANGED <<policy, decision, related, resource, executorVars, row,
                   call, trailVars>>

SelectPolicy(v) ==
    /\ policy' = v
    /\ UNCHANGED <<clock, decision, related, resource, executorVars, row,
                   call, trailVars>>

Approve(a, lifetime) ==
    /\ decision[a] = None
    /\ decision' = [decision EXCEPT ![a] =
                      [version |-> policy, expires |-> clock + lifetime]]
    /\ UNCHANGED <<clock, policy, related, resource, executorVars, row, call,
                   trailVars>>

(* Agents, memberships and bindings are only inserted.                     *)
Relate(a) ==
    /\ a \notin related
    /\ related' = related \cup {a}
    /\ UNCHANGED <<clock, policy, decision, resource, executorVars, row,
                   call, trailVars>>

ConfigureResource(r, revision) ==
    /\ resource' = [resource EXCEPT ![r] = revision]
    /\ UNCHANGED <<worldVars, executorVars, row, call, trailVars>>

-----------------------------------------------------------------------------
(* consume *)

(* fits: the caller is the receiving Agent and the intent is the approved. *)
Begin(c, a, revision, fits) ==
    /\ call[c] = None
    /\ call' = [call EXCEPT ![c] =
                  [pc |-> "approval", approval |-> a, asked |-> revision,
                   fits |-> fits, now |-> clock, version |-> policy,
                   receipt |-> None, source |-> None]]
    /\ UNCHANGED <<server, executorVars, trailVars>>

(* The process dies, or a statement raises what nobody catches.            *)
Stop(c) ==
    /\ call[c] # None
    /\ call[c] # Over
    /\ Ends(c)
    /\ UNCHANGED <<server, executorVars, trailVars>>

ReadApproval(c) ==
    /\ At(c, "approval")
    /\ Goes(c, IF call[c].fits /\ Decided(c) # None THEN "grant"
               ELSE "reject")
    /\ UNCHANGED <<server, executorVars, trailVars>>

(* What a GrantReservation lets the call do: a completed grant is only     *)
(* audited, one in progress looked for at the executor.                    *)
Resumes(c, reserved) ==
    IF reserved.asked # call[c].asked THEN "reject"
    ELSE IF reserved.receipt # None THEN "look" ELSE "find"

ReadGrant(c) ==
    /\ At(c, "grant")
    /\ Goes(c, IF RowOf(c) = None THEN "check" ELSE Resumes(c, RowOf(c)))
    /\ UNCHANGED <<server, executorVars, trailVars>>

(* find_receipt answers, or raises and the result is unknown.              *)
FindReceipt(c) ==
    LET found == receipts[call[c].approval]
    IN  /\ At(c, "find") \/ At(c, "find again")
        /\ \/ Goes(c, "unknown")
           \/ /\ found = None
              /\ Goes(c, IF At(c, "find") THEN "check" ELSE "execute")
           \/ /\ found # None
              /\ call' = [call EXCEPT ![c].pc = "complete",
                                      ![c].receipt = found,
                                      ![c].source = "reconciled"]
        /\ UNCHANGED <<server, executorVars, trailVars>>

(* The Approval has not expired and the Policy is the one it was made by.  *)
Current(c) ==
    /\ call[c].now < Decided(c).expires
    /\ call[c].version = Decided(c).version

(* ResourceAuthorizationService.authorize records its decision first.      *)
Check(c) ==
    /\ At(c, "check")
    /\ IF Current(c)
       THEN /\ Audited(c, "authorization_decision")
            /\ Goes(c, IF call[c].approval \in related
                       THEN "preconditions" ELSE "reject")
       ELSE /\ Goes(c, "reject")
            /\ UNCHANGED log
    /\ UNCHANGED <<server, executorVars, readerVars>>

AsAsked(c) == resource[RepositoryOf[call[c].approval]] = call[c].asked

CheckPreconditions(c) ==
    /\ At(c, "preconditions")
    /\ Goes(c, IF AsAsked(c) THEN "reserve" ELSE "reject")
    /\ UNCHANGED <<server, executorVars, trailVars>>

(* Mutant: the row is replaced, whatever it was reserved for. *)
HeldMutant(c) == FALSE

Held(c) == RowOf(c) # None

(* reserve *)
Reserve(c) ==
    /\ At(c, "reserve")
    /\ IF Held(c)
       THEN /\ Goes(c, IF Resumes(c, RowOf(c)) = "find" THEN "find again"
                       ELSE Resumes(c, RowOf(c)))
            /\ UNCHANGED row
       ELSE /\ row' = [row EXCEPT ![call[c].approval] =
                         [asked |-> call[c].asked, receipt |-> None,
                          source |-> None, audited |-> FALSE]]
            /\ Goes(c, "find again")
    /\ UNCHANGED <<worldVars, resource, executorVars, trailVars>>

(* Mutant: the executor does not look for the operation id. *)
KnownMutant(a) == FALSE

Known(a) == receipts[a] # None

Performed(c) ==
    LET a == call[c].approval
    IN  /\ executions' = [executions EXCEPT ![a] = @ + 1]
        /\ receipts' = [receipts EXCEPT ![a] =
                          [asked |-> call[c].asked,
                           action |-> executions[a] + 1]]

(* execute_once: replay by operation id, or the action and its receipt in  *)
(* one transaction.  The answer may be an exception also after it.         *)
ExecuteOnce(c) ==
    /\ At(c, "execute")
    /\ \/ /\ Known(call[c].approval)
          /\ IF receipts[call[c].approval].asked = call[c].asked
             THEN call' = [call EXCEPT ![c].pc = "complete",
                             ![c].receipt = receipts[call[c].approval],
                             ![c].source = "executed"]
             ELSE Goes(c, "reject")
          /\ UNCHANGED executorVars
       \/ /\ ~Known(call[c].approval)
          /\ ~AsAsked(c)
          /\ Goes(c, "reject")
          /\ UNCHANGED executorVars
       \/ /\ ~Known(call[c].approval)
          /\ AsAsked(c)
          /\ Performed(c)
          /\ \/ Goes(c, "unknown")
             \/ call' = [call EXCEPT ![c].pc = "complete",
                            ![c].receipt = receipts'[call[c].approval],
                            ![c].source = "executed"]
       \/ /\ Goes(c, "unknown")
          /\ UNCHANGED executorVars
    /\ UNCHANGED <<server, trailVars>>

(* The row is the call's and is completed with no other receipt.           *)
Completes(c) ==
    /\ call[c].receipt.asked = call[c].asked
    /\ RowOf(c) # None
    /\ RowOf(c).asked = call[c].asked
    /\ RowOf(c).receipt \in {None, call[c].receipt}

(* complete: the first receipt stays, with the source it came from.        *)
Complete(c) ==
    /\ At(c, "complete")
    /\ Goes(c, IF Completes(c) THEN "look" ELSE "reject")
    /\ IF Completes(c) /\ RowOf(c).receipt = None
       THEN row' = [row EXCEPT ![call[c].approval] =
                      [@ EXCEPT !.receipt = call[c].receipt,
                                !.source = call[c].source]]
       ELSE UNCHANGED row
    /\ UNCHANGED <<worldVars, resource, executorVars, trailVars>>

-----------------------------------------------------------------------------
(* The audit of the completion, under an id made of the Approval's.        *)

Completion(source) ==
    IF source = "reconciled" THEN "action_receipt_reconciled"
    ELSE "action_grant_consumed"

Completions == {Completion(s) : s \in Sources}

CompletionEvents(a) ==
    {k \in 1 .. Len(log) :
        log[k].subject = a /\ log[k].kind \in Completions}

(* _record_completion and AuditRecorder.action_grant_event: an equal event *)
(* is not added again, one that differs is an error and leaves the audit   *)
(* pending.  The code has the source and the mark from its last read of    *)
(* the row: the one is final, the other only saves the steps.              *)
LookForEvent(c) ==
    LET events == CompletionEvents(call[c].approval)
    IN  /\ At(c, "look")
        /\ IF RowOf(c).audited THEN Ends(c)
           ELSE IF events = {} THEN Goes(c, "add")
           ELSE IF \A k \in events :
                      log[k].kind = Completion(RowOf(c).source)
           THEN Goes(c, "mark") ELSE Ends(c)
        /\ UNCHANGED <<server, executorVars, trailVars>>

(* The id is taken when another call has added the event meanwhile.        *)
AddEvent(c) ==
    /\ At(c, "add")
    /\ IF CompletionEvents(call[c].approval) = {}
       THEN /\ Audited(c, Completion(RowOf(c).source))
            /\ Goes(c, "mark")
       ELSE /\ Ends(c)
            /\ UNCHANGED log
    /\ UNCHANGED <<server, executorVars, readerVars>>

(* mark_audited *)
MarkAudited(c) ==
    /\ At(c, "mark")
    /\ row' = [row EXCEPT ![call[c].approval].audited = TRUE]
    /\ Ends(c)
    /\ UNCHANGED <<worldVars, resource, executorVars, trailVars>>

(* What an intent that does not fit names may be any repository.           *)
Presented(c) ==
    IF call[c].fits THEN {RepositoryOf[call[c].approval]} ELSE Resources

(* _reject and _record_unknown: the call ends as it was going to, whether  *)
(* the event could be added or not.                                        *)
Refuse(c) ==
    /\ At(c, "reject")
    /\ \E r \in Presented(c) :
           Recorded("action_grant_rejected", r, call[c].approval)
    /\ Ends(c)
    /\ UNCHANGED <<server, executorVars, readerVars>>

RecordUnknown(c) ==
    /\ At(c, "unknown")
    /\ Audited(c, "action_result_unknown")
    /\ Ends(c)
    /\ UNCHANGED <<server, executorVars, readerVars>>

CallStep(c) ==
    \/ ReadApproval(c)
    \/ ReadGrant(c)
    \/ FindReceipt(c)
    \/ Check(c)
    \/ CheckPreconditions(c)
    \/ Reserve(c)
    \/ ExecuteOnce(c)
    \/ Complete(c)
    \/ LookForEvent(c)
    \/ AddEvent(c)
    \/ MarkAudited(c)
    \/ Refuse(c)
    \/ RecordUnknown(c)
    \/ Stop(c)

Around ==
    \/ Tick
    \/ \E v \in Versions : SelectPolicy(v)
    \/ \E a \in Approvals : Relate(a)
    \/ \E a \in Approvals, l \in Lifetimes : Approve(a, l)
    \/ \E r \in Repositories, revision \in Revisions :
            ConfigureResource(r, revision)
    \/ TrailNext /\ UNCHANGED <<server, executorVars, call>>

Next ==
    \/ Around
    \/ \E c \in Calls :
        \/ CallStep(c)
        \/ \E a \in Approvals, revision \in Revisions, fits \in BOOLEAN :
                Begin(c, a, revision, fits)

Spec == Init /\ [][Next]_vars

-----------------------------------------------------------------------------
TypeOK ==
    /\ clock \in Nat
    /\ policy \in Versions
    /\ decision \in [Approvals -> Decision \cup {None}]
    /\ related \subseteq Approvals
    /\ resource \in [Repositories -> Revisions]
    /\ receipts \in [Approvals -> Receipt \cup {None}]
    /\ executions \in [Approvals -> Nat]
    /\ row \in [Approvals -> Row \cup {None}]
    /\ \A c \in Calls : call[c] \in {None, Over} \/ call[c] \in Call
    /\ log \in Seq(Event)
    /\ reading \in [Owners -> Progress]
    /\ members \subseteq Owners

(* The executor acted at most once for each Approval, for the request the  *)
(* Approval's row is reserved for, and the row has no other receipt.       *)
ExecutedAsReserved ==
    \A a \in Approvals :
        /\ executions[a] = IF receipts[a] = None THEN 0 ELSE 1
        /\ receipts[a] # None =>
              row[a] # None /\ row[a].asked = receipts[a].asked
        /\ row[a] # None => row[a].receipt \in {None, receipts[a]}

(* The trail says once that a grant was consumed, and as its row says.     *)
CompletionsAreAudited ==
    \A a \in Approvals :
        /\ \A j, k \in CompletionEvents(a) : j = k
        /\ \A k \in CompletionEvents(a) :
              /\ row[a] # None /\ row[a].receipt # None
              /\ log[k].kind = Completion(row[a].source)
        /\ row[a] # None /\ row[a].audited => CompletionEvents(a) # {}

(* Row, executor and trail are written in transactions of their own, one   *)
(* after the other, and never contradict each other, wherever calls stop.  *)
LedgersAgree == ExecutedAsReserved /\ CompletionsAreAudited

Phase(a) ==
    IF row[a] = None THEN "none"
    ELSE IF row[a].receipt = None THEN "authorized" ELSE "done"

S == INSTANCE OneShot WITH
        Actions <- Approvals,
        phase <- [a \in Approvals |-> Phase(a)],
        performed <- [a \in Approvals |-> receipts[a] # None]

(* What OneShot promises of an approved action, kept without a window in   *)
(* which the result is unknown: the executor is asked.                     *)
ImplementsOneShot == S!SSpec
=============================================================================
