----------------------------- MODULE AuditTrail -----------------------------
(***************************************************************************)
(* tas_audit_events with the order its insert trigger gives them, and the  *)
(* pages in which an Owner reads the events of a resource while others     *)
(* append (SQLiteAuditRepository, SQLiteAuditQueryRepository).             *)
(*                                                                         *)
(* An Owner may read the events of a resource whose rows name the Owner,   *)
(* and of most only as a member of their Team.                             *)
(***************************************************************************)
EXTENDS Naturals, Sequences, FiniteSets

CONSTANTS
    Resources,
    TeamResources, \* all but Credentials and Policies
    Owners,
    Parties,       \* Parties[r]: the Owners the rows of r name: who controls a
                   \* repository, receives or requests a Task or an Approval,
                   \* produced an Artifact; of a Project anybody
    Subjects,      \* what events are about: Approvals
    Limits,        \* page sizes a client asks for
    MaxDenials,    \* bound: denied queries
    None

ASSUME TrailAssumption ==
    /\ TeamResources \subseteq Resources
    /\ Parties \in [Resources -> SUBSET Owners]
    /\ Limits \subseteq Nat \ {0}
    /\ MaxDenials \in Nat
    /\ None \notin Resources \cup Subjects

VARIABLES
    log,     \* the events by their sequence
    reading, \* reading[o]: how far Owner o has paged through a resource
    members  \* Owners with a membership in the Team

readerVars == <<reading, members>>
trailVars == <<log, readerVars>>

Kinds == {"authorization_decision", "action_grant_consumed",
          "action_grant_rejected", "action_result_unknown",
          "action_receipt_reconciled"}

(* The resource of a denied query is a digest, nobody's repository.        *)
Event == [kind: Kinds, resource: Resources \cup {None},
          subject: Subjects \cup {None}]

(* seen, told: the sequences on the pages so far, and how many rows these  *)
(* had.  covered: they hold what there was up to here.                     *)
Unread == [resource |-> None, cursor |-> 0, seen |-> {}, told |-> 0,
           covered |-> 0]

Progress == [resource: Resources \cup {None}, cursor: Nat, seen: SUBSET Nat,
             told: Nat, covered: Nat]

TrailInit ==
    /\ log = <<>>
    /\ reading = [o \in Owners |-> Unread]
    /\ members = {}

Recorded(kind, r, s) ==
    log' = Append(log, [kind |-> kind, resource |-> r, subject |-> s])

About(r, after, upto) ==
    {k \in (after + 1) .. upto : log[k].resource = r}

(* ORDER BY sequence LIMIT limit                                           *)
First(ks, limit) ==
    {k \in ks : Cardinality({j \in ks : j < k}) < limit}

LastOf(ks) == CHOOSE k \in ks : \A j \in ks : j <= k

(* Mutant: the cursor is the row that was read only to see there is more.  *)
NextCursorMutant(r, after, limit) ==
    LET rows == First(About(r, after, Len(log)), limit + 1)
    IN  IF Cardinality(rows) > limit THEN LastOf(rows) ELSE 0

(* items[-1].id if has_more                                                *)
NextCursor(r, after, limit) ==
    LET rows == First(About(r, after, Len(log)), limit + 1)
    IN  IF Cardinality(rows) > limit THEN LastOf(First(rows, limit)) ELSE 0

(* Memberships are only inserted.                                          *)
Enter(o) ==
    /\ o \notin members
    /\ members' = members \cup {o}
    /\ UNCHANGED <<log, reading>>

(* _owner_can_access *)
Visible(o, r) ==
    /\ o \in Parties[r]
    /\ r \in TeamResources => o \in members

(* list_for_owner: from the start, or from the cursor of the last page.    *)
ListForOwner(o, r, limit) ==
    LET now == reading[o]
        page == First(About(r, now.cursor, Len(log)), limit)
        next == NextCursor(r, now.cursor, limit)
    IN  /\ Visible(o, r)
        /\ \/ now = Unread
           \/ now.resource = r /\ now.cursor > 0
        /\ reading' = [reading EXCEPT ![o] =
              [resource |-> r, cursor |-> next, seen |-> now.seen \cup page,
               told |-> now.told + Cardinality(page),
               covered |-> IF next = 0 THEN Len(log) ELSE next]]
        /\ UNCHANGED <<log, members>>

(* The client lets go of what it has read.                                 *)
Forget(o) ==
    /\ reading[o] # Unread
    /\ reading' = [reading EXCEPT ![o] = Unread]
    /\ UNCHANGED <<log, members>>

(* _record_denial *)
Deny(o, r) ==
    /\ ~Visible(o, r)
    /\ Cardinality({k \in 1 .. Len(log) : log[k].resource = None})
            < MaxDenials
    /\ Recorded("authorization_decision", None, None)
    /\ UNCHANGED readerVars

TrailNext ==
    \E o \in Owners :
        \/ Enter(o)
        \/ Forget(o)
        \/ \E r \in Resources :
            \/ Deny(o, r)
            \/ \E limit \in Limits : ListForOwner(o, r, limit)

(* The pages an Owner got, one after the other while events were added,    *)
(* hold each event of the resource up to their end exactly once.           *)
PagesAreExact ==
    \A o \in Owners :
        LET mine == reading[o]
        IN  /\ mine.seen = About(mine.resource, 0, mine.covered)
            /\ mine.told = Cardinality(mine.seen)
=============================================================================
