---------------------------- MODULE ActionGrant ----------------------------
(***************************************************************************)
(* An approved git commit: the server grants it once, an Adapter on the    *)
(* developer's machine makes it in a local workspace, and its receipt goes *)
(* back to the server.                                                     *)
(*                                                                         *)
(* run[p] is one call of tas_execute_git_commit in an Adapter process.     *)
(* Calls are repeated, overlap, fail at any git command and are killed;    *)
(* the git child of a killed call may finish its ref update later.  The    *)
(* developer works in the same workspaces meanwhile.  HTTP handlers read   *)
(* the clock between the arrival of a request and its transaction.         *)
(*                                                                         *)
(* Left out: fingerprints that differ in anything but workspace and head   *)
(* commit, and callers other than the receiving Agent, whose requests are  *)
(* refused and change nothing.                                             *)
(***************************************************************************)
EXTENDS Approval

CONSTANTS
    Adapters,      \* Adapter processes
    Mortal,        \* those that may be killed, or lose an answer
    Workspaces,
    WorkspaceTask, \* WorkspaceTask[w]: the Task w is bound to
    Evidences,     \* finalized git Evidence
    WorkspaceOf,   \* WorkspaceOf[e]: where e was collected
    Heads,         \* commits the developer checks out
    HeadOf,        \* HeadOf[e]: the head commit e was collected at
    Window,        \* EXECUTION_WINDOW
    Ahead,         \* how far ahead of the server a receipt's time may be
    Skew,          \* the Adapter's clock minus the server's
    Second,        \* ticks to a second
    None           \* no Approval, Evidence, Adapter or commit

Commit == [at : Int, tree : Evidences \cup {None}]

ASSUME GrantAssumption ==
    /\ Mortal \subseteq Adapters
    /\ WorkspaceTask \in [Workspaces -> Tasks]
    /\ WorkspaceOf \in [Evidences -> Workspaces]
    /\ HeadOf \in [Evidences -> Heads]
    /\ {Window, Second} \subseteq Nat \ {0}
    /\ Ahead \in Nat
    /\ Skew \in Int
    /\ None \notin Approvals \cup Evidences \cup Adapters \cup Heads \cup Commit

VARIABLES
    grant,     \* tas_action_grant_consumptions with tas_remote_action_grants
    head,      \* head[w]: the branch the Approval names; None: a later commit
    staged,    \* staged[w]: whose snapshot is staged; None: something else
    attempts,  \* attempts[w]: refs/tas/attempts, as Approvals
    refs,      \* refs[w][a]: refs/tas/operations, the commit made for a
    lock,      \* lock[w]: who holds tas-adapter-action.lock
    orphans,   \* ref updates whose Adapter was killed
    run,       \* run[p]: the local state of Adapter process p
    tries      \* tries[a]: how often the commit of a was begun

grantVars == <<grant, head, staged, attempts, refs, lock, orphans, run, tries>>
vars == <<approvalVars, grantVars>>

(* unknown: the audit event action_result_unknown is there. *)
Grant == [evidence : Evidences \cup {None}, started : Nat, before : Nat,
          unknown : BOOLEAN, receipt : Commit \cup {None}]

NoGrant == [evidence |-> None, started |-> 0, before |-> 0,
            unknown |-> FALSE, receipt |-> None]

(* now: the server's clock when the last request was sent.  open: the      *)
(* grant's result was not unknown when the call read it.                   *)
Run == [pc : {"idle", "read", "prepare", "look", "lock", "locked", "tree",
              "commit", "update", "failed", "mark", "submit"},
        approval : Approvals \cup {None}, evidence : Evidences \cup {None},
        now : Nat, open : BOOLEAN, commit : Commit \cup {None}]

Idle == [pc |-> "idle", approval |-> None, evidence |-> None, now |-> 0,
         open |-> FALSE, commit |-> None]

(* A ref update on its way: the commit, and the head it must find. *)
Orphan == [workspace : Workspaces, approval : Approvals, commit : Commit,
           head : Heads]

Init ==
    /\ ApprovalInit
    /\ grant = [a \in Approvals |-> NoGrant]
    /\ head \in [Workspaces -> Heads]
    /\ staged = [w \in Workspaces |-> None]
    /\ attempts = [w \in Workspaces |-> {}]
    /\ refs = [w \in Workspaces |-> [a \in Approvals |-> None]]
    /\ lock = [w \in Workspaces |-> None]
    /\ orphans = {}
    /\ run = [p \in Adapters |-> Idle]
    /\ tries = [a \in Approvals |-> 0]

-----------------------------------------------------------------------------

Granted(a) == grant[a].evidence # None

AdapterClock == clock + Skew

(* datetime.replace(microsecond=0) *)
OnSecond(t) == (t \div Second) * Second

(* fingerprint_action_request: the workspace and its head commit. *)
Fingerprint(e) == <<WorkspaceOf[e], HeadOf[e]>>

(* The workspace is as e found it: _verify_snapshot. *)
AsObserved(e) == head[WorkspaceOf[e]] = HeadOf[e] /\ staged[WorkspaceOf[e]] = e

Place(p) == WorkspaceOf[run[p].evidence]

(* The operation ref of p's Approval, as find_receipt reads it. *)
Found(p) == refs[Place(p)][run[p].approval]

Goes(p, r) == run' = [run EXCEPT ![p] = r]

Ends(p) == Goes(p, Idle)

Submitting(r, commit) ==
    [r EXCEPT !.pc = "submit", !.commit = commit, !.now = clock]

(* What the handler of p's request may have read: not before it was sent. *)
HandlerReadings(r) == {t \in Readings : r.now <= t}

Unlocked(w) == lock' = [lock EXCEPT ![w] = None]

(* The refs are updated in one transaction, the index stays as it is. *)
Landed(w, a, commit) ==
    /\ refs' = [refs EXCEPT ![w][a] = commit]
    /\ head' = [head EXCEPT ![w] = None]

server == <<approvalVars, grant>>
workspace == <<head, staged, attempts, refs, orphans, tries>>

-----------------------------------------------------------------------------
(* execute_git_commit: reading the Approval and the grant.  A request or a *)
(* git command that fails here ends the call.                              *)

GivesUp(p) ==
    /\ run[p].pc \in {"read", "look"}
    /\ Ends(p)
    /\ UNCHANGED <<server, workspace, lock>>

Call(p, a, e) ==
    /\ run[p].pc = "idle"
    /\ approvals[a].status = "approved"
    /\ WorkspaceTask[WorkspaceOf[e]] = TaskOf[a]
    /\ Goes(p, [Idle EXCEPT !.pc = "read", !.approval = a, !.evidence = e])
    /\ UNCHANGED <<server, workspace, lock>>

(* Mutant: an unknown result ends the call, nobody looks for the commit. *)
ViewedMutant(r, g) ==
    IF g.evidence # r.evidence \/ g.receipt # None \/ g.unknown THEN Idle
    ELSE [r EXCEPT !.pc = "look", !.open = TRUE]

(* Mutant: the Evidence of the grant is not compared with that of the call. *)
ViewedAnyMutant(r, g) ==
    IF g.receipt # None THEN Idle
    ELSE [r EXCEPT !.pc = "look", !.open = ~g.unknown]

(* The grant must be for the same Evidence; a completed one is the result. *)
Viewed(r, g) ==
    IF g.evidence # r.evidence \/ g.receipt # None THEN Idle
    ELSE [r EXCEPT !.pc = "look", !.open = ~g.unknown]

(* get_action_grant.  Without a grant, check_ready comes before prepare.   *)
ReadGrant(p) ==
    LET r == run[p]
        ready == /\ AsObserved(r.evidence)
                 /\ AdapterClock < approvals[r.approval].expires
    IN  /\ r.pc = "read"
        /\ Goes(p, IF Granted(r.approval) THEN Viewed(r, grant[r.approval])
                   ELSE IF ready THEN [r EXCEPT !.pc = "prepare", !.now = clock]
                   ELSE Idle)
        /\ UNCHANGED <<server, workspace, lock>>

-----------------------------------------------------------------------------
(* POST /approvals/{id}/action-grant *)

(* Mutant: the execution window is forgotten. *)
GrantForNoWindow(r, now) ==
    [NoGrant EXCEPT !.evidence = r.evidence, !.started = now, !.before = now]

GrantFor(r, now) ==
    LET end == approvals[r.approval].expires
    IN  [NoGrant EXCEPT !.evidence = r.evidence, !.started = now,
                        !.before = IF end < now + Window THEN end
                                   ELSE now + Window]

(* The Approval has not expired, its Policy is still the current one, and  *)
(* the Task is being worked on.                                            *)
Authorized(a, now) ==
    /\ now < approvals[a].expires
    /\ policy = approvals[a].version
    /\ tasks[TaskOf[a]].status = "working"

(* Another call was granted the same request meanwhile; a grant whose      *)
(* result is unknown or known is answered without authorization.           *)
Replays(r, now) ==
    LET g == grant[r.approval]
    IN  /\ Granted(r.approval)
        /\ Fingerprint(g.evidence) = Fingerprint(r.evidence)
        /\ \/ g.unknown \/ g.receipt # None
           \/ Authorized(r.approval, now) /\ now < g.before

Prepare(p) ==
    LET r == run[p]
        a == run[p].approval
    IN  /\ r.pc = "prepare"
        /\ \E now \in HandlerReadings(r) :
            \/ /\ ~Granted(a) /\ Authorized(a, now)
               /\ grant' = [grant EXCEPT ![a] = GrantFor(r, now)]
               /\ Goes(p, Viewed(r, GrantFor(r, now)))
            \/ /\ Replays(r, now)
               /\ Goes(p, Viewed(r, grant[a]))
               /\ UNCHANGED grant
            \/ /\ ~Replays(r, now) /\ (Granted(a) \/ ~Authorized(a, now))
               /\ Ends(p)
               /\ UNCHANGED grant
        /\ UNCHANGED <<approvalVars, workspace, lock>>

-----------------------------------------------------------------------------
(* GitCommitProvider.execute_once *)

(* Mutant: the status of the grant is not looked at. *)
LookMutant(p) ==
    LET r == run[p]
    IN  /\ r.pc = "look"
        /\ Goes(p, IF Found(p) # None THEN Submitting(r, Found(p))
                   ELSE IF AsObserved(r.evidence) THEN [r EXCEPT !.pc = "lock"]
                   ELSE Idle)
        /\ UNCHANGED <<server, workspace, lock>>

(* A commit that was made is reported, an unknown result without one is    *)
(* the result, and only then is the commit made.                           *)
Look(p) ==
    LET r == run[p]
    IN  /\ r.pc = "look"
        /\ Goes(p, IF Found(p) # None THEN Submitting(r, Found(p))
                   ELSE IF r.open /\ AsObserved(r.evidence)
                   THEN [r EXCEPT !.pc = "lock"]
                   ELSE Idle)
        /\ UNCHANGED <<server, workspace, lock>>

Lock(p) ==
    LET w == Place(p)
    IN  /\ run[p].pc = "lock"
        /\ lock[w] = None
        /\ lock' = [lock EXCEPT ![w] = p]
        /\ Goes(p, [run[p] EXCEPT !.pc = "locked"])
        /\ UNCHANGED <<server, workspace>>

LockTimeout(p) ==
    /\ run[p].pc = "lock"
    /\ lock[Place(p)] # None
    /\ Goes(p, [run[p] EXCEPT !.pc = "failed"])
    /\ UNCHANGED <<server, workspace, lock>>

(* Any git command under the lock may fail without effect, or the staged   *)
(* changes may be none that can be committed.                              *)
GitFails(p) ==
    /\ run[p].pc \in {"locked", "tree", "commit", "update"}
    /\ Unlocked(Place(p))
    /\ Goes(p, [run[p] EXCEPT !.pc = "failed"])
    /\ UNCHANGED <<server, workspace>>

FindUnderLock(p) ==
    /\ run[p].pc = "locked"
    /\ Found(p) # None
    /\ Unlocked(Place(p))
    /\ Goes(p, Submitting(run[p], Found(p)))
    /\ UNCHANGED <<server, workspace>>

InWindow(p) == AdapterClock < grant[run[p].approval].before

Ready(p) ==
    /\ Found(p) = None
    /\ InWindow(p)
    /\ head[Place(p)] = HeadOf[run[p].evidence]

(* The window is over, the head moved, or an attempt was begun before. *)
Refuse(p) ==
    LET r == run[p]
    IN  /\ \/ /\ r.pc = "locked" /\ Found(p) = None
              /\ ~Ready(p) \/ r.approval \in attempts[Place(p)]
           \/ r.pc = "tree" /\ OnSecond(AdapterClock)
                                    >= grant[r.approval].before
           \/ r.pc = "commit" /\ ~InWindow(p)
        /\ Unlocked(Place(p))
        /\ Goes(p, [r EXCEPT !.pc = "failed"])
        /\ UNCHANGED <<server, workspace>>

(* Mutant: an attempt ref that is there already is taken over. *)
ReserveMutant(p) ==
    LET w == Place(p)
        a == run[p].approval
    IN  /\ run[p].pc = "locked"
        /\ Ready(p)
        /\ attempts' = [attempts EXCEPT ![w] = @ \cup {a}]
        /\ Goes(p, [run[p] EXCEPT !.pc = "tree"])
        /\ tries' = [tries EXCEPT ![a] = @ + 1]
        /\ UNCHANGED <<server, head, staged, refs, orphans, lock>>

(* _reserve_attempt creates the attempt ref; or the ref is created and the *)
(* command counts as failed.                                               *)
Reserve(p) ==
    LET w == Place(p)
        a == run[p].approval
    IN  /\ run[p].pc = "locked"
        /\ Ready(p)
        /\ a \notin attempts[w]
        /\ attempts' = [attempts EXCEPT ![w] = @ \cup {a}]
        /\ \/ /\ Goes(p, [run[p] EXCEPT !.pc = "tree"])
              /\ tries' = [tries EXCEPT ![a] = @ + 1]
              /\ UNCHANGED lock
           \/ /\ Goes(p, [run[p] EXCEPT !.pc = "failed"])
              /\ Unlocked(w)
              /\ UNCHANGED tries
        /\ UNCHANGED <<server, head, staged, refs, orphans>>

(* write-tree takes what is staged now.  The commit's time has no          *)
(* fraction of a second.                                                   *)
WriteTree(p) ==
    LET at == OnSecond(AdapterClock)
    IN  /\ run[p].pc = "tree"
        /\ at < grant[run[p].approval].before
        /\ Goes(p, [run[p] EXCEPT !.pc = "commit",
                                  !.commit = [at |-> at,
                                              tree |-> staged[Place(p)]]])
        /\ UNCHANGED <<server, workspace, lock>>

CommitTree(p) ==
    /\ run[p].pc = "commit"
    /\ InWindow(p)
    /\ Goes(p, [run[p] EXCEPT !.pc = "update"])
    /\ UNCHANGED <<server, workspace, lock>>

(* The branch still has the expected head: the refs move, and the call     *)
(* sees that they did or, timed out, does not.                             *)
UpdateRefs(p) ==
    LET r == run[p]
        w == Place(p)
    IN  /\ r.pc = "update"
        /\ head[w] = HeadOf[r.evidence]
        /\ Found(p) = None
        /\ Landed(w, r.approval, r.commit)
        /\ Unlocked(w)
        /\ \/ Goes(p, Submitting(r, r.commit))
           \/ Goes(p, [r EXCEPT !.pc = "failed"])
        /\ UNCHANGED <<server, staged, attempts, orphans, tries>>

(* Mutant: the result of update-ref is not looked at. *)
UpdateRefusedMutant(p) ==
    LET r == run[p]
    IN  /\ r.pc = "update"
        /\ head[Place(p)] # HeadOf[r.evidence]
        /\ Unlocked(Place(p))
        /\ Goes(p, Submitting(r, r.commit))
        /\ UNCHANGED <<server, workspace>>

UpdateRefused(p) ==
    LET r == run[p]
    IN  /\ r.pc = "update"
        /\ head[Place(p)] # HeadOf[r.evidence] \/ Found(p) # None
        /\ Unlocked(Place(p))
        /\ Goes(p, IF Found(p) # None THEN Submitting(r, Found(p))
                   ELSE [r EXCEPT !.pc = "failed"])
        /\ UNCHANGED <<server, workspace>>

-----------------------------------------------------------------------------
(* Telling the server how it ended. *)

(* After a failure the commit is looked for once more, which may fail too. *)
Failed(p) ==
    LET r == run[p]
    IN  /\ r.pc = "failed"
        /\ \/ /\ Found(p) # None
              /\ Goes(p, Submitting(r, Found(p)))
           \/ Goes(p, [r EXCEPT !.pc = "mark"])
        /\ UNCHANGED <<server, workspace, lock>>

(* mark_result_unknown *)
MarkUnknown(p) ==
    LET a == run[p].approval
    IN  /\ run[p].pc = "mark"
        /\ grant' = IF grant[a].receipt # None THEN grant
                    ELSE [grant EXCEPT ![a].unknown = TRUE]
        /\ Ends(p)
        /\ UNCHANGED <<approvalVars, workspace, lock>>

(* Mutant: a receipt may be older than its grant. *)
AcceptableMutant(g, commit, now) ==
    /\ commit.at <= g.before
    /\ commit.at <= now + Ahead

Acceptable(g, commit, now) ==
    /\ g.started <= commit.at
    /\ commit.at <= g.before
    /\ commit.at <= now + Ahead

(* submit_receipt: stored, or refused, or there is one already. *)
Submit(p) ==
    LET r == run[p]
        g == grant[run[p].approval]
    IN  /\ r.pc = "submit"
        /\ \E now \in HandlerReadings(r) :
            grant' = IF g.receipt = None /\ Acceptable(g, r.commit, now)
                     THEN [grant EXCEPT ![r.approval].receipt = r.commit]
                     ELSE grant
        /\ Ends(p)
        /\ UNCHANGED <<approvalVars, workspace, lock>>

-----------------------------------------------------------------------------
(* What surrounds the calls. *)

(* Killed, or an answer is lost and the call ends in an error.  The system *)
(* releases the lock, but not the git child that updates the refs.         *)
Crash(p) ==
    LET r == run[p]
        update == [workspace |-> Place(p), approval |-> r.approval,
                   commit |-> r.commit, head |-> HeadOf[r.evidence]]
    IN  /\ p \in Mortal
        /\ r.pc # "idle"
        /\ Ends(p)
        /\ lock' = [w \in Workspaces |-> IF lock[w] = p THEN None ELSE lock[w]]
        /\ \/ UNCHANGED orphans
           \/ r.pc = "update" /\ orphans' = orphans \cup {update}
        /\ UNCHANGED <<server, head, staged, attempts, refs, tries>>

OrphanUpdates(o) ==
    /\ head[o.workspace] = o.head
    /\ refs[o.workspace][o.approval] = None
    /\ Landed(o.workspace, o.approval, o.commit)
    /\ orphans' = orphans \ {o}
    /\ UNCHANGED <<server, staged, attempts, lock, run, tries>>

(* The developer checks out, resets, commits and stages as he likes. *)
Develop(w) ==
    /\ \E h \in Heads \cup {None}, e \in Evidences \cup {None} :
        /\ e # None => WorkspaceOf[e] = w
        /\ <<h, e>> # <<head[w], staged[w]>>
        /\ head' = [head EXCEPT ![w] = h]
        /\ staged' = [staged EXCEPT ![w] = e]
    /\ UNCHANGED <<server, attempts, refs, lock, orphans, run, tries>>

-----------------------------------------------------------------------------

Step(p) ==
    \/ ReadGrant(p) \/ Prepare(p) \/ Look(p) \/ GivesUp(p)
    \/ Lock(p) \/ LockTimeout(p) \/ GitFails(p)
    \/ FindUnderLock(p) \/ Refuse(p) \/ Reserve(p)
    \/ WriteTree(p) \/ CommitTree(p) \/ UpdateRefs(p) \/ UpdateRefused(p)
    \/ Failed(p) \/ MarkUnknown(p) \/ Submit(p)

Next ==
    \/ ApprovalNext /\ UNCHANGED grantVars
    \/ \E p \in Adapters :
        \/ \E a \in Approvals, e \in Evidences : Call(p, a, e)
        \/ Step(p)
        \/ Crash(p)
    \/ \E o \in orphans : OrphanUpdates(o)
    \/ \E w \in Workspaces : Develop(w)

Spec == Init /\ [][Next]_vars

Asked(p, a, e) == run[p].approval = a /\ run[p].evidence = e

(* An Adapter that is not killed goes on; its user repeats a call that did *)
(* not complete, and reading the grant and the refs does not fail forever. *)
FairSpec ==
    /\ Spec
    /\ \A p \in Adapters \ Mortal :
        /\ WF_vars(Step(p))
        /\ \A a \in Approvals, e \in Evidences :
            /\ SF_vars(Call(p, a, e))
            /\ SF_vars(Asked(p, a, e) /\ ReadGrant(p))
            /\ SF_vars(Asked(p, a, e) /\ Look(p))

-----------------------------------------------------------------------------
(* Properties *)

(* Every variable holds values of its kind, and a grant is one that the    *)
(* insert guard of migration 0036 admits: its window is not empty and does *)
(* not outlive an Approval that is approved.                               *)
TypeOK ==
    /\ ApprovalTypeOK
    /\ grant \in [Approvals -> Grant]
    /\ head \in [Workspaces -> Heads \cup {None}]
    /\ staged \in [Workspaces -> Evidences \cup {None}]
    /\ attempts \in [Workspaces -> SUBSET Approvals]
    /\ refs \in [Workspaces -> [Approvals -> Commit \cup {None}]]
    /\ lock \in [Workspaces -> Adapters \cup {None}]
    /\ orphans \subseteq Orphan
    /\ run \in [Adapters -> Run]
    /\ tries \in [Approvals -> Nat]
    /\ \A a \in Approvals : Granted(a) =>
            approvals[a].status = "approved" /\ grant[a].started < grant[a].before

(* However often the call is repeated, by however many Adapters, killed or *)
(* timed out wherever: the commit of an Approval is begun at most once,    *)
(* and lands in at most one workspace.                                     *)
AtMostOneAttempt ==
    \A a \in Approvals :
        /\ tries[a] <= 1
        /\ \A v, w \in Workspaces :
                refs[v][a] # None /\ refs[w][a] # None => v = w

(* Nothing is committed without a grant, in another workspace than the     *)
(* grant's, or dated after the grant or the Approval ended, although the   *)
(* branch, the clock and the Policy move on while the Adapter works and a  *)
(* git child may outlive it.                                               *)
CommitsAreGranted ==
    \A w \in Workspaces, a \in Approvals :
        refs[w][a] # None =>
            /\ Granted(a)
            /\ w = WorkspaceOf[grant[a].evidence]
            /\ refs[w][a].at < grant[a].before
            /\ refs[w][a].at < approvals[a].expires

(* A receipt the server holds is that of the commit in the granted         *)
(* workspace, made within the window the server set.                       *)
ReceiptsAreTrue ==
    \A a \in Approvals :
        grant[a].receipt # None =>
            /\ Granted(a)
            /\ grant[a].receipt = refs[WorkspaceOf[grant[a].evidence]][a]
            /\ grant[a].started <= grant[a].receipt.at
            /\ grant[a].receipt.at <= grant[a].before

(* On its way to begin the commit of a. *)
Committed(p, a) ==
    /\ run[p].approval = a
    /\ \/ run[p].pc \in {"lock", "locked"}
       \/ run[p].pc = "look" /\ run[p].open

(* Once the result is unknown and no call is past reading the grant,       *)
(* nothing but reconciliation follows: no call starts the commit again.    *)
OnlyReconciliation ==
    [][\A a \in Approvals :
        grant[a].unknown /\ (\A p \in Adapters : ~Committed(p, a)) =>
            /\ grant'[a].unknown
            /\ \A p \in Adapters : ~Committed(p, a)'
            /\ tries'[a] = tries[a]]_vars

(* A commit that was made reaches the server if the call is repeated,      *)
(* unless its time, cut to the second, precedes the grant.                 *)
ReceiptsArrive ==
    \A w \in Workspaces, a \in Approvals :
        refs[w][a] # None /\ refs[w][a].at >= grant[a].started
            ~> grant[a].receipt # None

(* adapter/actions.py: "Provider Receipt is known; retry only Receipt      *)
(* submission".  Retrying it brings every receipt to the server.           *)
EveryReceiptArrives ==
    \A w \in Workspaces, a \in Approvals :
        refs[w][a] # None ~> grant[a].receipt # None

Phase(a) ==
    CASE ~Granted(a) -> "none"
      [] Granted(a) /\ grant[a].receipt # None -> "done"
      [] Granted(a) /\ grant[a].receipt = None /\ grant[a].unknown -> "unknown"
      [] OTHER -> "authorized"

S == INSTANCE OneShot WITH
        Actions <- Approvals,
        phase <- [a \in Approvals |-> Phase(a)],
        performed <- [a \in Approvals |->
                        \E w \in Workspaces : refs[w][a] # None]

(* Server and Adapters together keep the promise of OneShot: "can be       *)
(* consumed only once", and never confirmed for nothing.                   *)
ImplementsOneShot == S!SSpec

=============================================================================
