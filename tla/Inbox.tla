------------------------------- MODULE Inbox -------------------------------
(***************************************************************************)
(* The durable Inbox: at-least-once delivery of work items to Agents under *)
(* time-limited leases.  One row of tas_inbox_items per item, and one row  *)
(* of tas_idempotency_records per request key that has been answered.      *)
(*                                                                         *)
(* A handler is one HTTP request inside the server.  It reads the clock    *)
(* when it starts (now) and runs its SQLite transaction later, so the      *)
(* time a transaction works with may lag behind the clock, and handlers    *)
(* may commit in another order than they started.  Each BEGIN IMMEDIATE    *)
(* transaction is one step.  A handler may die between its steps.          *)
(*                                                                         *)
(* The local stdio MCP server has an older command on the same rows, which *)
(* keeps no ledger row; it is outside this module.                         *)
(***************************************************************************)
EXTENDS Integers, FiniteSets

CONSTANTS
    Agents,          \* the recipients
    Items,           \* inbox item ids: numbers, in the order of their strings
    Recipient,       \* Recipient[i]: tas_inbox_items.recipient_agent_id
    InitialMembers,  \* items whose recipient is in the team at the start
    ClaimKeys,       \* idempotency keys of claims
    FinishKeys,      \* idempotency keys of acknowledgements and releases
    Handlers,        \* requests the server works on at once
    ProcessOf,       \* ProcessOf[h]: the server process h runs in
    MaxAttempts,     \* max_attempts of every item
    Durations,       \* lease durations a client may ask for
    Waits,           \* long-poll timeouts; 0 is a plain claim
    Delays,          \* retry delays of a release
    MaxTime,         \* bound: the clock stops here
    NoItem, NoToken  \* NULL in the item and the token columns

ASSUME InboxAssumption ==
    /\ Items \subseteq Nat
    /\ Recipient \in [Items -> Agents]
    /\ InitialMembers \subseteq Items
    /\ MaxAttempts \in Nat \ {0}
    /\ Durations \subseteq Nat \ {0}
    /\ Waits \subseteq Nat
    /\ Delays \subseteq Nat
    /\ DOMAIN ProcessOf = Handlers
    /\ MaxTime \in Nat
    /\ NoItem \notin Items

(* HMAC of the claim: a token is the four values it is computed from. *)
Token == [agent : Agents, key : ClaimKeys, item : Items, attempt : Nat]

ASSUME NoTokenAssumption == NoToken \notin Token

VARIABLES
    clock,     \* the server's clock
    members,   \* items whose recipient's owner is in the task's team
    items,     \* tas_inbox_items
    claims,    \* idempotency rows of operation inbox.claim
    finishes,  \* idempotency rows of inbox.acknowledge and inbox.release
    audits,    \* rejections in tas_audit_events
    req        \* req[h]: the local state of handler h

vars == <<clock, members, items, claims, finishes, audits, req>>

Statuses == {"absent", "pending", "leased", "acknowledged", "dead_letter"}
Operations == {"acknowledge", "release"}
Reasons == {"inbox_unavailable", "lease_not_current"}

(* Columns of an item; acquired and expires are 0 while there is no lease. *)
Item == [status : Statuses, available : Nat, attempt : Nat,
         token : Token \cup {NoToken}, acquired : Nat, expires : Nat]

(* A claim's ledger row: its fingerprint (duration and wait) and result.   *)
ClaimRow == [agent : Agents, key : ClaimKeys, duration : Durations,
             wait : Waits, item : Items \cup {NoItem}, attempt : Nat]

FinishRow == [agent : Agents, op : Operations, key : FinishKeys,
              item : Items, token : Token \cup {NoToken}, delay : Delays \cup {-1},
              status : {"acknowledged", "pending", "dead_letter"},
              attempt : Nat]

(* What a rejection's audit event says; its time and id are left out.     *)
Audit == [agent : Agents, item : Items, reason : Reasons]

Idle == [pc |-> "idle"]

ClaimRequest == [pc : {"loop", "once", "sleep"}, agent : Agents,
                 key : ClaimKeys, duration : Durations, wait : Waits, deadline : Nat,
                 now : Nat, final : BOOLEAN]

(* A release carries its retry delay, an acknowledgement none (-1). *)
FinishRequest ==
    {r \in [pc : {"finish"}, op : Operations, agent : Agents,
            key : FinishKeys, item : Items, token : Token \cup {NoToken},
            delay : Delays \cup {-1}, now : Nat] :
        r.delay = -1 <=> r.op = "acknowledge"}

AuditRequest == [pc : {"audit"}, event : Audit]

Requests == {Idle} \cup ClaimRequest \cup FinishRequest \cup AuditRequest

Absent == [status |-> "absent", available |-> 0, attempt |-> 0,
           token |-> NoToken, acquired |-> 0, expires |-> 0]

Init ==
    /\ clock = 0
    /\ members = InitialMembers
    /\ items = [i \in Items |-> Absent]
    /\ claims = {}
    /\ finishes = {}
    /\ audits = {}
    /\ req = [h \in Handlers |-> Idle]

-----------------------------------------------------------------------------
(* Reading the tables. *)

Leased(i) == items[i].status = "leased"

(* The lease on i is still running at time t. *)
Running(i, t) == Leased(i) /\ items[i].expires > t

(* A lapsed lease with no attempt left: the claim moves it to dead_letter. *)
Exhausted(a, i, t) ==
    /\ Recipient[i] = a
    /\ Leased(i)
    /\ items[i].expires <= t
    /\ items[i].attempt >= MaxAttempts

(* Mutant: off by one, a lease is not counted in its last tick. *)
HasActiveLeaseMutant(a, t) ==
    \E i \in Items : Recipient[i] = a /\ Running(i, t + 1)

HasActiveLease(a, t) == \E i \in Items : Recipient[i] = a /\ Running(i, t)

(* Mutant: attempt_count<max_attempts is missing from the query. *)
ClaimableMutant(a, t) ==
    {i \in Items :
        /\ Recipient[i] = a
        /\ i \in members
        /\ \/ items[i].status = "pending" /\ items[i].available <= t
           \/ Leased(i) /\ items[i].expires <= t}

Claimable(a, t) ==
    {i \in Items :
        /\ Recipient[i] = a
        /\ i \in members
        /\ items[i].attempt < MaxAttempts
        /\ \/ items[i].status = "pending" /\ items[i].available <= t
           \/ Leased(i) /\ items[i].expires <= t}

(* ORDER BY available_at, id LIMIT 1 *)
Oldest(S, i) ==
    /\ i \in S
    /\ \A j \in S \ {i} :
        \/ items[i].available < items[j].available
        \/ items[i].available = items[j].available /\ i < j

(* Mutant: a stored empty answer is not taken for an answer. *)
ClaimRowsOfMutant(a, k) ==
    {row \in claims : row.agent = a /\ row.key = k /\ row.item # NoItem}

ClaimRowsOf(a, k) == {row \in claims : row.agent = a /\ row.key = k}

FinishRowsOf(a, o, k) ==
    {row \in finishes : row.agent = a /\ row.op = o /\ row.key = k}

Authorized(a, i) ==
    items[i].status # "absent" /\ Recipient[i] = a /\ i \in members

-----------------------------------------------------------------------------
(* Writing the tables. *)

(* Mutant: lease_token_hash=NULL is missing from the update. *)
WithoutLeaseMutant(item, status) ==
    [item EXCEPT !.status = status, !.acquired = 0, !.expires = 0]

WithoutLease(item, status) ==
    [item EXCEPT !.status = status, !.token = NoToken,
                 !.acquired = 0, !.expires = 0]

Reaped(a, t) ==
    [i \in Items |-> IF Exhausted(a, i, t)
                     THEN WithoutLease(items[i], "dead_letter")
                     ELSE items[i]]

TokenFor(r, i) == [agent |-> r.agent, key |-> r.key, item |-> i,
                   attempt |-> items[i].attempt + 1]

LeasedTo(r, i) ==
    [status |-> "leased", available |-> items[i].available,
     attempt |-> items[i].attempt + 1, token |-> TokenFor(r, i),
     acquired |-> r.now, expires |-> r.now + r.duration]

ClaimRowOf(r, i, n) ==
    [agent |-> r.agent, key |-> r.key, duration |-> r.duration,
     wait |-> r.wait, item |-> i, attempt |-> n]

Finished(h) == req' = [req EXCEPT ![h] = Idle]

-----------------------------------------------------------------------------
(* The environment: time passes, work and members arrive, handlers die.    *)

Tick ==
    /\ clock < MaxTime
    /\ clock' = clock + 1
    /\ UNCHANGED <<members, items, claims, finishes, audits, req>>

(* A producer of work commits an item with the task it belongs to. *)
Deliver(i) ==
    /\ items[i].status = "absent"
    /\ items' = [items EXCEPT ![i].status = "pending", ![i].available = clock]
    /\ UNCHANGED <<clock, members, claims, finishes, audits, req>>

(* Memberships are only ever inserted. *)
Join(i) ==
    /\ i \notin members
    /\ members' = members \cup {i}
    /\ UNCHANGED <<clock, items, claims, finishes, audits, req>>

Crash(h) ==
    /\ req[h] # Idle
    /\ Finished(h)
    /\ UNCHANGED <<clock, members, items, claims, finishes, audits>>

-----------------------------------------------------------------------------
(* POST /inbox/claim *)

(* active_long_polls, which each server process has for itself.            *)
LongPolling(p, a) ==
    \E h \in Handlers : /\ ProcessOf[h] = p
                        /\ req[h] \in ClaimRequest
                        /\ req[h].agent = a
                        /\ req[h].wait > 0

(* The route admits one long poll per Agent and process; a plain claim is  *)
(* not counted.                                                            *)
StartClaim(h, a, k, d, w) ==
    /\ req[h] = Idle
    /\ w > 0 => ~LongPolling(ProcessOf[h], a)
    /\ clock + w <= MaxTime
    /\ req' = [req EXCEPT ![h] =
                 [pc |-> "loop", agent |-> a, key |-> k, duration |-> d,
                  wait |-> w, deadline |-> clock + w, now |-> clock,
                  final |-> FALSE]]
    /\ UNCHANGED <<clock, members, items, claims, finishes, audits>>

(* The read-only probe: is there anything a transaction would act upon?    *)
MayProgress(r) ==
    \/ ClaimRowsOf(r.agent, r.key) # {}
    \/ HasActiveLease(r.agent, r.now)
    \/ \E i \in Items : Exhausted(r.agent, i, r.now)
    \/ Claimable(r.agent, r.now) # {}

(* Mutant: the probe decides past the deadline too. *)
ProbeMutant(h) ==
    LET r == req[h]
    IN  /\ r.pc = "loop"
        /\ req' = [req EXCEPT ![h].final = clock >= r.deadline,
                              ![h].pc = IF MayProgress(r)
                                        THEN "once" ELSE "sleep"]
        /\ UNCHANGED <<clock, members, items, claims, finishes, audits>>

(* Head of the loop: past the deadline the next attempt is the last one,   *)
(* before it an attempt is made only when the probe sees something.        *)
Probe(h) ==
    LET r == req[h]
        final == clock >= r.deadline
    IN  /\ r.pc = "loop"
        /\ req' = [req EXCEPT ![h].final = final,
                              ![h].pc = IF final \/ MayProgress(r)
                                        THEN "once" ELSE "sleep"]
        /\ UNCHANGED <<clock, members, items, claims, finishes, audits>>

(* After the pause the loop starts over with a fresh reading of the clock. *)
Wake(h) ==
    /\ req[h].pc = "sleep"
    /\ req' = [req EXCEPT ![h].pc = "loop", ![h].now = clock]
    /\ UNCHANGED <<clock, members, items, claims, finishes, audits>>

(* The key was answered before: the same answer, or a conflict when the    *)
(* fingerprint differs.  Either way nothing is written.                    *)
ReplayClaim(h) ==
    /\ req[h].pc = "once"
    /\ ClaimRowsOf(req[h].agent, req[h].key) # {}
    /\ Finished(h)
    /\ UNCHANGED <<clock, members, items, claims, finishes, audits>>

(* The Agent holds a running lease: rolled back, the reaping included.     *)
RefuseClaim(h) ==
    LET r == req[h]
    IN  /\ r.pc = "once"
        /\ ClaimRowsOf(r.agent, r.key) = {}
        /\ HasActiveLease(r.agent, r.now)
        /\ Finished(h)
        /\ UNCHANGED <<clock, members, items, claims, finishes, audits>>

ClaimItem(h, i) ==
    LET r == req[h]
    IN  /\ r.pc = "once"
        /\ ClaimRowsOf(r.agent, r.key) = {}
        /\ ~HasActiveLease(r.agent, r.now)
        /\ Oldest(Claimable(r.agent, r.now), i)
        /\ items' = [Reaped(r.agent, r.now) EXCEPT ![i] = LeasedTo(r, i)]
        /\ claims' = claims \cup {ClaimRowOf(r, i, items[i].attempt + 1)}
        /\ Finished(h)
        /\ UNCHANGED <<clock, members, finishes, audits>>

NothingToClaim(r) ==
    /\ ClaimRowsOf(r.agent, r.key) = {}
    /\ ~HasActiveLease(r.agent, r.now)
    /\ Claimable(r.agent, r.now) = {}

(* The last attempt of a poll stores the empty answer under the key. *)
ClaimEmpty(h) ==
    LET r == req[h]
    IN  /\ r.pc = "once" /\ r.final
        /\ NothingToClaim(r)
        /\ items' = Reaped(r.agent, r.now)
        /\ claims' = claims \cup {ClaimRowOf(r, NoItem, 0)}
        /\ Finished(h)
        /\ UNCHANGED <<clock, members, finishes, audits>>

(* Any earlier attempt is rolled back and the poll goes on. *)
ClaimLater(h) ==
    LET r == req[h]
    IN  /\ r.pc = "once" /\ ~r.final
        /\ NothingToClaim(r)
        /\ req' = [req EXCEPT ![h].pc = "sleep"]
        /\ UNCHANGED <<clock, members, items, claims, finishes, audits>>

-----------------------------------------------------------------------------
(* POST /inbox/{item}/acknowledge and /release *)

IssuedTokens ==
    {[agent |-> row.agent, key |-> row.key, item |-> row.item,
      attempt |-> row.attempt] : row \in {c \in claims : c.item # NoItem}}

(* A client sends the item and the token of an answer it once got, however *)
(* old, or a token nobody issued.                                          *)
StartFinish(h, o, a, k, i, t, d) ==
    /\ req[h] = Idle
    /\ t # NoToken => t.item = i
    /\ d = -1 <=> o = "acknowledge"
    /\ req' = [req EXCEPT ![h] =
                 [pc |-> "finish", op |-> o, agent |-> a, key |-> k,
                  item |-> i, token |-> t, delay |-> d, now |-> clock]]
    /\ UNCHANGED <<clock, members, items, claims, finishes, audits>>

(* The transaction rolled back; the rejection is audited in a second one.  *)
Reject(h, reason) ==
    /\ req' = [req EXCEPT ![h] =
                 [pc |-> "audit",
                  event |-> [agent |-> req[h].agent, item |-> req[h].item,
                             reason |-> reason]]]
    /\ UNCHANGED <<clock, members, items, claims, finishes, audits>>

FinishUnavailable(h) ==
    /\ req[h].pc = "finish"
    /\ ~Authorized(req[h].agent, req[h].item)
    /\ Reject(h, "inbox_unavailable")

ReplayFinish(h) ==
    LET r == req[h]
    IN  /\ r.pc = "finish"
        /\ Authorized(r.agent, r.item)
        /\ FinishRowsOf(r.agent, r.op, r.key) # {}
        /\ Finished(h)
        /\ UNCHANGED <<clock, members, items, claims, finishes, audits>>

(* Mutant: the token is not compared, the Agent is trusted. *)
CurrentMutant(r) ==
    /\ items[r.item].status = "leased"
    /\ items[r.item].expires > r.now

Current(r) ==
    /\ items[r.item].status = "leased"
    /\ items[r.item].token = r.token
    /\ items[r.item].expires > r.now

FinishNotCurrent(h) ==
    LET r == req[h]
    IN  /\ r.pc = "finish"
        /\ Authorized(r.agent, r.item)
        /\ FinishRowsOf(r.agent, r.op, r.key) = {}
        /\ ~Current(r)
        /\ Reject(h, "lease_not_current")

FinishRowFor(r, status) ==
    [agent |-> r.agent, op |-> r.op, key |-> r.key, item |-> r.item,
     token |-> r.token, delay |-> r.delay, status |-> status,
     attempt |-> items[r.item].attempt]

Settle(h, status, available) ==
    LET r == req[h]
        i == r.item
    IN  /\ Authorized(r.agent, i)
        /\ FinishRowsOf(r.agent, r.op, r.key) = {}
        /\ Current(r)
        /\ items' = [items EXCEPT ![i] =
                       [WithoutLease(items[i], status)
                          EXCEPT !.available = available]]
        /\ finishes' = finishes \cup {FinishRowFor(r, status)}
        /\ Finished(h)
        /\ UNCHANGED <<clock, members, claims, audits>>

Acknowledge(h) ==
    /\ req[h].pc = "finish" /\ req[h].op = "acknowledge"
    /\ Settle(h, "acknowledged", items[req[h].item].available)

ReleaseForRetry(h) ==
    /\ req[h].pc = "finish" /\ req[h].op = "release"
    /\ items[req[h].item].attempt < MaxAttempts
    /\ Settle(h, "pending", req[h].now + req[h].delay)

ReleaseExhausted(h) ==
    /\ req[h].pc = "finish" /\ req[h].op = "release"
    /\ items[req[h].item].attempt >= MaxAttempts
    /\ Settle(h, "dead_letter", items[req[h].item].available)

AuditRejection(h) ==
    /\ req[h].pc = "audit"
    /\ audits' = audits \cup {req[h].event}
    /\ Finished(h)
    /\ UNCHANGED <<clock, members, items, claims, finishes>>

-----------------------------------------------------------------------------

ClaimStep(h) ==
    \/ Probe(h)
    \/ Wake(h)
    \/ ReplayClaim(h)
    \/ RefuseClaim(h)
    \/ \E i \in Items : ClaimItem(h, i)
    \/ ClaimEmpty(h)
    \/ ClaimLater(h)

FinishStep(h) ==
    \/ FinishUnavailable(h)
    \/ ReplayFinish(h)
    \/ FinishNotCurrent(h)
    \/ Acknowledge(h)
    \/ ReleaseForRetry(h)
    \/ ReleaseExhausted(h)
    \/ AuditRejection(h)

Start(h) ==
    \/ \E a \in Agents, k \in ClaimKeys, d \in Durations, w \in Waits :
            StartClaim(h, a, k, d, w)
    \/ \E o \in Operations, a \in Agents, k \in FinishKeys, i \in Items,
          t \in IssuedTokens \cup {NoToken}, d \in Delays \cup {-1} :
            StartFinish(h, o, a, k, i, t, d)

Next ==
    \/ Tick
    \/ \E i \in Items : Deliver(i) \/ Join(i)
    \/ \E h \in Handlers :
        \/ Start(h)
        \/ ClaimStep(h)
        \/ FinishStep(h)
        \/ Crash(h)

Spec == Init /\ [][Next]_vars

(* The clock runs, and a handler that is not killed goes on.  Nothing      *)
(* obliges a client to send anything.                                      *)
FairSpec ==
    /\ Spec
    /\ WF_vars(Tick)
    /\ \A h \in Handlers : WF_vars(ClaimStep(h)) /\ WF_vars(FinishStep(h))

-----------------------------------------------------------------------------
(* Types, and the CHECK of tas_inbox_items: an item has a lease exactly    *)
(* while it is leased, and a lease ends after it begins.                   *)
TypeOK ==
    /\ clock \in Nat
    /\ members \subseteq Items
    /\ items \in [Items -> Item]
    /\ claims \subseteq ClaimRow
    /\ finishes \subseteq FinishRow
    /\ audits \subseteq Audit
    /\ req \in [Handlers -> Requests]
    /\ \A i \in Items : /\ Leased(i) <=> items[i].token # NoToken
                        /\ Leased(i) => items[i].acquired < items[i].expires

(* Two leases of one Agent never overlap: the "active Lease" check of      *)
(* _claim_once holds for every interleaving of handlers, also when they    *)
(* commit out of the order in which they read the clock.                   *)
LeasesDisjoint ==
    \A i, j \in Items :
        i # j /\ Recipient[i] = Recipient[j] /\ Leased(i) /\ Leased(j)
            => \/ items[i].expires <= items[j].acquired
               \/ items[j].expires <= items[i].acquired

(* A key has one answer, and every attempt an item has used up was handed  *)
(* out under exactly one key: a client that lost the answer of a claim     *)
(* gets the same attempt again, and no retry, crash or race of handlers    *)
(* consumes an attempt that nobody can be told of.                         *)
AttemptsAreAnswered ==
    /\ \A r1, r2 \in claims :
           r1.agent = r2.agent /\ r1.key = r2.key => r1 = r2
    /\ \A i \in Items :
           /\ \A n \in 1..items[i].attempt :
                  \E row \in claims : row.item = i /\ row.attempt = n
           /\ \A r1, r2 \in claims :
                  r1.item = i /\ r2.item = i /\ r1.attempt = r2.attempt
                      => r1 = r2

(* A lease is settled at most once, and only while it is the item's last:  *)
(* a late acknowledge or release of a superseded lease has no effect, and  *)
(* what was acknowledged or given up is never handed out again.            *)
SettledOnce ==
    \A row \in finishes :
        /\ row.token # NoToken
        /\ row.token.item = row.item /\ row.token.attempt = row.attempt
        /\ row.token.agent = row.agent
        /\ \A other \in finishes : other.token = row.token => other = row
        /\ row.attempt = items[row.item].attempt
               => items[row.item].status = row.status
        /\ row.status # "pending" => row.attempt = items[row.item].attempt

(* A long poll ends: past its deadline the next attempt is final.          *)
PollReturns ==
    \A h \in Handlers : req[h] \in ClaimRequest ~> req[h] = Idle

(* The Inbox is an implementation of Delivery.                             *)
PhaseOf(status) ==
    CASE status = "absent" -> "none"
      [] status = "pending" -> "waiting"
      [] status = "leased" -> "out"
      [] status = "acknowledged" -> "done"
      [] status = "dead_letter" -> "buried"

D == INSTANCE Delivery WITH
        phase <- [i \in Items |-> PhaseOf(items[i].status)],
        attempts <- [i \in Items |-> items[i].attempt]

(* Whatever clients send and whenever handlers commit or die, the rows     *)
(* move as Delivery allows: bounded attempts, no redelivery of settled     *)
(* work, nothing buried before its last attempt is over.                   *)
ImplementsDelivery == D!DSpec

=============================================================================
