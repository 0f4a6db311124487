---------------------------- MODULE InboxProofs ----------------------------
(***************************************************************************)
(* Proofs about Inbox for every number of Agents, items, handlers and keys *)
(* and every bound on attempts and time.                                   *)
(***************************************************************************)
EXTENDS Inbox, TLAPS

(* What the invariants need besides themselves: the lease on an item is    *)
(* for its last attempt, attempts stay within the limit, and no ledger row *)
(* is ahead of the item it names.                                          *)
LeaseIsLast ==
    \A i \in Items :
        /\ items[i].attempt <= MaxAttempts
        /\ items[i].status = "dead_letter" => items[i].attempt = MaxAttempts
        /\ Leased(i) => /\ items[i].token.agent = Recipient[i]
                        /\ items[i].token.item = i
                        /\ items[i].token.attempt = items[i].attempt

RowsNotAhead ==
    /\ \A row \in claims :
           row.item # NoItem => row.attempt \in 1..items[row.item].attempt
    /\ \A row \in finishes : row.attempt <= items[row.item].attempt

(* Most steps leave the three tables alone. *)
Quiet == UNCHANGED <<items, claims, finishes>>

(* The three ways to settle a lease. *)
Settling(h) == Acknowledge(h) \/ ReleaseForRetry(h) \/ ReleaseExhausted(h)

-----------------------------------------------------------------------------
(* Facts about the helpers. *)

LEMMA RequestTypes ==
    ASSUME TypeOK, NEW h \in Handlers
    PROVE  /\ req[h] \in Requests
           /\ req[h].pc \in {"loop", "once", "sleep"} => req[h] \in ClaimRequest
           /\ req[h].pc = "finish" => req[h] \in FinishRequest
           /\ req[h].pc = "audit" => req[h] \in AuditRequest
  BY DEF TypeOK, Requests, Idle, ClaimRequest, FinishRequest, AuditRequest

LEMMA WithoutLeaseType ==
    ASSUME NEW item \in Item, NEW status \in Statuses
    PROVE  /\ WithoutLease(item, status) \in Item
           /\ WithoutLease(item, status).status = status
           /\ WithoutLease(item, status).token = NoToken
           /\ WithoutLease(item, status).attempt = item.attempt
           /\ WithoutLease(item, status).available = item.available
  BY DEF WithoutLease, Item

LEMMA ReapedType ==
    ASSUME TypeOK, NEW a \in Agents, NEW t \in Nat, NEW i \in Items
    PROVE  /\ Reaped(a, t) \in [Items -> Item]
           /\ Reaped(a, t)[i].attempt = items[i].attempt
           /\ ~Exhausted(a, i, t) => Reaped(a, t)[i] = items[i]
           /\ Exhausted(a, i, t) =>
                /\ Reaped(a, t)[i].status = "dead_letter"
                /\ Reaped(a, t)[i].token = NoToken
  BY WithoutLeaseType DEF TypeOK, Reaped, Statuses

LEMMA LeasedToType ==
    ASSUME TypeOK, NEW r \in ClaimRequest, NEW i \in Items
    PROVE  /\ TokenFor(r, i) \in Token
           /\ TokenFor(r, i) # NoToken
           /\ LeasedTo(r, i) \in Item
           /\ LeasedTo(r, i).status = "leased"
           /\ LeasedTo(r, i).token = TokenFor(r, i)
           /\ LeasedTo(r, i).attempt = items[i].attempt + 1
           /\ LeasedTo(r, i).acquired = r.now
           /\ LeasedTo(r, i).expires = r.now + r.duration
           /\ LeasedTo(r, i).acquired < LeasedTo(r, i).expires
  <1>1. TokenFor(r, i) \in Token
    BY DEF TypeOK, TokenFor, Token, ClaimRequest, Item
  <1>2. TokenFor(r, i) # NoToken
    BY <1>1, NoTokenAssumption
  <1>3. /\ r.now \in Nat /\ r.duration \in Nat \ {0}
        /\ items[i] \in Item
        /\ items[i].available \in Nat /\ items[i].attempt \in Nat
    BY InboxAssumption DEF TypeOK, ClaimRequest, Item
  <1>4. /\ LeasedTo(r, i) \in Item
        /\ LeasedTo(r, i).status = "leased"
        /\ LeasedTo(r, i).token = TokenFor(r, i)
        /\ LeasedTo(r, i).attempt = items[i].attempt + 1
        /\ LeasedTo(r, i).acquired = r.now
        /\ LeasedTo(r, i).expires = r.now + r.duration
    BY <1>1, <1>3 DEF LeasedTo, Item, Statuses
  <1> QED BY <1>1, <1>2, <1>3, <1>4

LEMMA ClaimRowType ==
    ASSUME TypeOK, NEW r \in ClaimRequest, NEW i \in Items \cup {NoItem},
           NEW n \in Nat
    PROVE  /\ ClaimRowOf(r, i, n) \in ClaimRow
           /\ ClaimRowOf(r, i, n).agent = r.agent
           /\ ClaimRowOf(r, i, n).key = r.key
           /\ ClaimRowOf(r, i, n).item = i
           /\ ClaimRowOf(r, i, n).attempt = n
  BY DEF ClaimRowOf, ClaimRow, ClaimRequest

LEMMA FinishRowType ==
    ASSUME TypeOK, NEW r \in FinishRequest,
           NEW status \in {"acknowledged", "pending", "dead_letter"}
    PROVE  /\ FinishRowFor(r, status) \in FinishRow
           /\ FinishRowFor(r, status).agent = r.agent
           /\ FinishRowFor(r, status).item = r.item
           /\ FinishRowFor(r, status).token = r.token
           /\ FinishRowFor(r, status).status = status
           /\ FinishRowFor(r, status).attempt = items[r.item].attempt
  BY DEF FinishRowFor, FinishRow, FinishRequest, TypeOK, Item

-----------------------------------------------------------------------------
(* Type correctness. *)

(* The tables change in four ways only. *)
LEMMA TableSteps ==
    ASSUME [Next]_vars
    PROVE  \/ Quiet
           \/ \E i \in Items : Deliver(i)
           \/ \E h \in Handlers, i \in Items : ClaimItem(h, i)
           \/ \E h \in Handlers : ClaimEmpty(h)
           \/ \E h \in Handlers : Settling(h)
  <1>1. CASE Tick
    BY <1>1 DEF Tick, Quiet
  <1>2. CASE \E i \in Items : Deliver(i) \/ Join(i)
    BY <1>2 DEF Join, Quiet
  <1>3. ASSUME NEW h \in Handlers, Start(h) \/ Crash(h)
        PROVE  Quiet
    BY <1>3 DEF Start, StartClaim, StartFinish, Crash, Quiet
  <1>4. ASSUME NEW h \in Handlers, ClaimStep(h)
        PROVE  \/ Quiet
               \/ \E i \in Items : ClaimItem(h, i)
               \/ ClaimEmpty(h)
    BY <1>4 DEF ClaimStep, Probe, Wake, ReplayClaim, RefuseClaim, ClaimLater,
                Quiet
  <1>5. ASSUME NEW h \in Handlers, FinishStep(h)
        PROVE  Quiet \/ Settling(h)
    BY <1>5 DEF FinishStep, FinishUnavailable, ReplayFinish, FinishNotCurrent,
                AuditRejection, Reject, Settling, Quiet
  <1>6. CASE UNCHANGED vars
    BY <1>6 DEF vars, Quiet
  <1> QED BY <1>1, <1>2, <1>3, <1>4, <1>5, <1>6 DEF Next

(* A settled item keeps its attempt, loses its lease and gets a ledger row. *)
LEMMA SettlingEffect ==
    ASSUME TypeOK, NEW h \in Handlers, Settling(h)
    PROVE  /\ req[h] \in FinishRequest
           /\ Recipient[req[h].item] = req[h].agent
           /\ Current(req[h])
           /\ req' = [req EXCEPT ![h] = Idle]
           /\ UNCHANGED <<clock, members, claims, audits>>
           /\ \E status \in {"acknowledged", "pending", "dead_letter"},
                 item \in Item :
                /\ item.status = status
                /\ item.token = NoToken
                /\ item.attempt = items[req[h].item].attempt
                /\ status = "dead_letter" => item.attempt >= MaxAttempts
                /\ status = "pending" => item.attempt < MaxAttempts
                /\ items' = [items EXCEPT ![req[h].item] = item]
                /\ finishes' = finishes \cup {FinishRowFor(req[h], status)}
  <1> DEFINE r == req[h]
             i == r.item
             Left(status, available) ==
                [WithoutLease(items[i], status) EXCEPT !.available = available]
  <1>1. /\ r \in FinishRequest
        /\ r.now \in Nat /\ i \in Items /\ r.op \in Operations
        /\ r.delay \in Delays \cup {-1}
    BY RequestTypes DEF Settling, Acknowledge, ReleaseForRetry,
                        ReleaseExhausted, FinishRequest
  <1>2. items[i] \in Item /\ items[i].available \in Nat
    BY <1>1 DEF TypeOK, Item
  <1>3. ASSUME NEW status \in {"acknowledged", "pending", "dead_letter"},
               NEW available \in Nat
        PROVE  /\ Left(status, available) \in Item
               /\ Left(status, available).status = status
               /\ Left(status, available).token = NoToken
               /\ Left(status, available).attempt = items[i].attempt
    <2>1. WithoutLease(items[i], status) \in Item
      BY <1>2, WithoutLeaseType DEF Statuses
    <2> QED
      BY <1>2, <2>1, WithoutLeaseType DEF Statuses, Item
  <1>4. CASE Acknowledge(h)
    BY <1>1, <1>2, <1>3, <1>4
    DEF Acknowledge, Settle, Authorized, Finished
  <1>5. CASE ReleaseForRetry(h)
    <2>1. r.op = "release" /\ r.delay # -1
      BY <1>1, <1>5 DEF ReleaseForRetry, FinishRequest
    <2>2. r.now + r.delay \in Nat
      BY <1>1, <2>1, InboxAssumption
    <2> QED
      BY <1>1, <1>2, <1>3, <1>5, <2>2
      DEF ReleaseForRetry, Settle, Authorized, Finished
  <1>6. CASE ReleaseExhausted(h)
    BY <1>1, <1>2, <1>3, <1>6
    DEF ReleaseExhausted, Settle, Authorized, Finished
  <1> QED BY <1>4, <1>5, <1>6 DEF Settling

(* Every handler is in a state of its request, whatever step it takes.     *)
LEMMA StartTypes ==
    ASSUME TypeOK, NEW h \in Handlers, Start(h)
    PROVE  req' \in [Handlers -> Requests]
  <1>1. ASSUME NEW a \in Agents, NEW k \in ClaimKeys, NEW d \in Durations,
               NEW w \in Waits, StartClaim(h, a, k, d, w)
        PROVE  req' \in [Handlers -> Requests]
    <2>1. clock \in Nat /\ clock + w \in Nat
      BY InboxAssumption DEF TypeOK
    <2> QED
      BY <1>1, <2>1 DEF StartClaim, TypeOK, Requests, ClaimRequest
  <1>2. ASSUME NEW o \in Operations, NEW a \in Agents, NEW k \in FinishKeys,
               NEW i \in Items, NEW t \in IssuedTokens \cup {NoToken},
               NEW d \in Delays \cup {-1}, StartFinish(h, o, a, k, i, t, d)
        PROVE  req' \in [Handlers -> Requests]
    <2>1. t \in Token \cup {NoToken}
      BY DEF IssuedTokens, Token, TypeOK, ClaimRow
    <2> DEFINE new == [pc |-> "finish", op |-> o, agent |-> a, key |-> k,
                       item |-> i, token |-> t, delay |-> d, now |-> clock]
    <2>2. new \in FinishRequest
      BY <1>2, <2>1 DEF StartFinish, FinishRequest, TypeOK
    <2>3. req' = [req EXCEPT ![h] = new]
      BY <1>2 DEF StartFinish
    <2> QED
      BY <2>2, <2>3 DEF TypeOK, Requests
  <1> QED BY <1>1, <1>2 DEF Start

LEMMA ClaimStepTypes ==
    ASSUME TypeOK, NEW h \in Handlers, ClaimStep(h)
    PROVE  req' \in [Handlers -> Requests]
  <1>1. CASE Probe(h) \/ Wake(h) \/ ClaimLater(h)
    <2>1. req[h] \in ClaimRequest
      BY <1>1, RequestTypes DEF Probe, Wake, ClaimLater
    <2>2. \E r \in ClaimRequest : req' = [req EXCEPT ![h] = r]
      <3>1. CASE Probe(h)
        <4>1. PICK final \in BOOLEAN, pc \in {"once", "sleep"} :
                 req' = [req EXCEPT ![h] = [req[h] EXCEPT !.final = final,
                                                          !.pc = pc]]
          <5>1. (clock >= req[h].deadline) \in BOOLEAN
            OBVIOUS
          <5> QED BY <3>1, <5>1, Zenon DEF Probe
        <4>2. [req[h] EXCEPT !.final = final, !.pc = pc] \in ClaimRequest
          BY <2>1 DEF ClaimRequest
        <4> QED BY <4>1, <4>2
      <3>2. CASE Wake(h)
        <4> DEFINE new == [req[h] EXCEPT !.pc = "loop", !.now = clock]
        <4>1. new \in ClaimRequest
          BY <2>1 DEF ClaimRequest, TypeOK
        <4>2. req' = [req EXCEPT ![h] = new]
          BY <3>2 DEF Wake, TypeOK
        <4> QED BY <4>1, <4>2
      <3>3. CASE ClaimLater(h)
        <4> DEFINE new == [req[h] EXCEPT !.pc = "sleep"]
        <4>1. new \in ClaimRequest
          BY <2>1 DEF ClaimRequest
        <4>2. req' = [req EXCEPT ![h] = new]
          BY <3>3 DEF ClaimLater, TypeOK
        <4> QED BY <4>1, <4>2
      <3> QED BY <1>1, <3>1, <3>2, <3>3
    <2> QED
      BY <2>2 DEF TypeOK, Requests
  <1>2. CASE \/ ReplayClaim(h) \/ RefuseClaim(h) \/ ClaimEmpty(h)
             \/ \E i \in Items : ClaimItem(h, i)
    BY <1>2 DEF ReplayClaim, RefuseClaim, ClaimEmpty, ClaimItem, Finished,
                TypeOK, Requests
  <1> QED BY <1>1, <1>2 DEF ClaimStep

LEMMA FinishStepTypes ==
    ASSUME TypeOK, NEW h \in Handlers, FinishStep(h)
    PROVE  req' \in [Handlers -> Requests] /\ audits' \subseteq Audit
  <1>1. CASE FinishUnavailable(h) \/ FinishNotCurrent(h)
    <2>1. req[h] \in FinishRequest
      BY <1>1, RequestTypes DEF FinishUnavailable, FinishNotCurrent
    <2>2. PICK reason \in Reasons : Reject(h, reason)
      BY <1>1 DEF FinishUnavailable, FinishNotCurrent, Reasons
    <2> DEFINE new == [pc |-> "audit",
                  event |-> [agent |-> req[h].agent, item |-> req[h].item,
                             reason |-> reason]]
    <2>3. new \in AuditRequest
      BY <2>1 DEF AuditRequest, Audit, FinishRequest
    <2>4. req' = [req EXCEPT ![h] = new] /\ UNCHANGED audits
      BY <2>2 DEF Reject
    <2> QED
      BY <2>3, <2>4 DEF TypeOK, Requests
  <1>2. CASE ReplayFinish(h)
    BY <1>2 DEF ReplayFinish, Finished, TypeOK, Requests
  <1>3. CASE Settling(h)
    BY <1>3, SettlingEffect DEF TypeOK, Requests
  <1>4. CASE AuditRejection(h)
    <2>1. req[h].event \in Audit
      BY <1>4, RequestTypes DEF AuditRejection, AuditRequest
    <2> QED
      BY <1>4, <2>1 DEF AuditRejection, Finished, TypeOK, Requests
  <1> QED BY <1>1, <1>2, <1>3, <1>4 DEF FinishStep, Settling

(* What a claim writes besides the request it ends. *)
LEMMA ClaimEffect ==
    ASSUME TypeOK, NEW h \in Handlers, NEW i \in Items, ClaimItem(h, i)
    PROVE  /\ req[h] \in ClaimRequest
           /\ Recipient[i] = req[h].agent
           /\ ~Exhausted(req[h].agent, i, req[h].now)
           /\ items[i].attempt < MaxAttempts
           /\ ~HasActiveLease(req[h].agent, req[h].now)
           /\ ClaimRowsOf(req[h].agent, req[h].key) = {}
           /\ items' = [Reaped(req[h].agent, req[h].now)
                          EXCEPT ![i] = LeasedTo(req[h], i)]
           /\ claims' = claims
                \cup {ClaimRowOf(req[h], i, items[i].attempt + 1)}
           /\ UNCHANGED finishes
  <1>1. req[h] \in ClaimRequest
    BY RequestTypes DEF ClaimItem
  <1>2. items[i].attempt \in Nat
    BY DEF TypeOK, Item
  <1>3. i \in Claimable(req[h].agent, req[h].now)
    BY DEF ClaimItem, Oldest
  <1>4. /\ Recipient[i] = req[h].agent
        /\ items[i].attempt < MaxAttempts
    BY <1>3 DEF Claimable
  <1>5. ~Exhausted(req[h].agent, i, req[h].now)
    BY <1>2, <1>4, InboxAssumption DEF Exhausted
  <1> QED BY <1>1, <1>4, <1>5 DEF ClaimItem

LEMMA LeaseColumns ==
    ASSUME TypeOK, [Next]_vars
    PROVE  /\ items' \in [Items -> Item]
           /\ \A i \in Items :
                /\ Leased(i)' <=> items'[i].token # NoToken
                /\ Leased(i)' => items'[i].acquired < items'[i].expires
  <1>1. CASE Quiet
    BY <1>1 DEF Quiet, TypeOK, Leased
  <1>2. ASSUME NEW i \in Items, Deliver(i)
        PROVE  /\ items' \in [Items -> Item]
               /\ \A j \in Items :
                    /\ Leased(j)' <=> items'[j].token # NoToken
                    /\ Leased(j)' => items'[j].acquired < items'[j].expires
    <2>1. items[i] \in Item /\ items[i].token = NoToken
      BY <1>2 DEF Deliver, TypeOK, Leased
    <2> DEFINE new == [items[i] EXCEPT !.status = "pending",
                                       !.available = clock]
    <2>2. new \in Item /\ new.status = "pending" /\ new.token = NoToken
      BY <2>1 DEF Item, Statuses, TypeOK
    <2>3. items' = [items EXCEPT ![i] = new]
      BY <1>2 DEF Deliver, TypeOK
    <2> QED
      BY <2>2, <2>3 DEF TypeOK, Leased
  <1>3. ASSUME NEW h \in Handlers, NEW i \in Items, ClaimItem(h, i)
        PROVE  /\ items' \in [Items -> Item]
               /\ \A j \in Items :
                    /\ Leased(j)' <=> items'[j].token # NoToken
                    /\ Leased(j)' => items'[j].acquired < items'[j].expires
    <2>1. req[h] \in ClaimRequest /\ req[h].agent \in Agents
          /\ req[h].now \in Nat
      BY <1>3, ClaimEffect DEF ClaimRequest
    <2>2. items' = [Reaped(req[h].agent, req[h].now)
                      EXCEPT ![i] = LeasedTo(req[h], i)]
      BY <1>3, ClaimEffect
    <2> QED
      BY <2>1, <2>2, ReapedType, LeasedToType DEF TypeOK, Leased
  <1>4. ASSUME NEW h \in Handlers, ClaimEmpty(h)
        PROVE  /\ items' \in [Items -> Item]
               /\ \A j \in Items :
                    /\ Leased(j)' <=> items'[j].token # NoToken
                    /\ Leased(j)' => items'[j].acquired < items'[j].expires
    <2>1. req[h].agent \in Agents /\ req[h].now \in Nat
      BY <1>4, RequestTypes DEF ClaimEmpty, ClaimRequest
    <2>2. items' = Reaped(req[h].agent, req[h].now)
      BY <1>4 DEF ClaimEmpty
    <2>3. items' \in [Items -> Item]
      BY <2>2, WithoutLeaseType DEF Reaped, TypeOK, Statuses
    <2> QED
      BY <2>1, <2>2, <2>3, ReapedType DEF TypeOK, Leased
  <1>5. ASSUME NEW h \in Handlers, Settling(h)
        PROVE  /\ items' \in [Items -> Item]
               /\ \A j \in Items :
                    /\ Leased(j)' <=> items'[j].token # NoToken
                    /\ Leased(j)' => items'[j].acquired < items'[j].expires
    <2>1. PICK status \in {"acknowledged", "pending", "dead_letter"},
               item \in Item :
            /\ item.status = status
            /\ item.token = NoToken
            /\ items' = [items EXCEPT ![req[h].item] = item]
      BY <1>5, SettlingEffect
    <2>2. req[h].item \in Items
      BY <1>5, SettlingEffect DEF FinishRequest
    <2> QED
      BY <2>1, <2>2 DEF TypeOK, Leased
  <1> QED BY <1>1, <1>2, <1>3, <1>4, <1>5, TableSteps

LEMMA LedgerTypes ==
    ASSUME TypeOK, [Next]_vars
    PROVE  claims' \subseteq ClaimRow /\ finishes' \subseteq FinishRow
  <1>1. CASE Quiet
    BY <1>1 DEF Quiet, TypeOK
  <1>2. CASE \E i \in Items : Deliver(i)
    BY <1>2 DEF Deliver, TypeOK
  <1>3. ASSUME NEW h \in Handlers, NEW i \in Items, ClaimItem(h, i)
        PROVE  claims' \subseteq ClaimRow /\ finishes' \subseteq FinishRow
    <2>1. items[i].attempt + 1 \in Nat
      BY DEF TypeOK, Item
    <2> QED BY <1>3, <2>1, ClaimEffect, ClaimRowType DEF TypeOK
  <1>4. ASSUME NEW h \in Handlers, ClaimEmpty(h)
        PROVE  claims' \subseteq ClaimRow /\ finishes' \subseteq FinishRow
    BY <1>4, RequestTypes, ClaimRowType DEF ClaimEmpty, TypeOK
  <1>5. ASSUME NEW h \in Handlers, Settling(h)
        PROVE  claims' \subseteq ClaimRow /\ finishes' \subseteq FinishRow
    BY <1>5, SettlingEffect, FinishRowType DEF TypeOK
  <1> QED BY <1>1, <1>2, <1>3, <1>4, <1>5, TableSteps

LEMMA TypeStep == TypeOK /\ [Next]_vars => TypeOK'
  <1> SUFFICES ASSUME TypeOK, [Next]_vars PROVE TypeOK'
    OBVIOUS
  <1>1. clock' \in Nat /\ members' \subseteq Items
        /\ req' \in [Handlers -> Requests] /\ audits' \subseteq Audit
    <2>1. CASE Tick
      BY <2>1 DEF Tick, TypeOK
    <2>2. CASE \E i \in Items : Deliver(i) \/ Join(i)
      BY <2>2 DEF Deliver, Join, TypeOK
    <2>3. ASSUME NEW h \in Handlers, Start(h)
          PROVE  clock' \in Nat /\ members' \subseteq Items
                 /\ req' \in [Handlers -> Requests] /\ audits' \subseteq Audit
      <3>1. UNCHANGED <<clock, members, audits>>
        BY <2>3 DEF Start, StartClaim, StartFinish
      <3> QED BY <2>3, <3>1, StartTypes DEF TypeOK
    <2>4. ASSUME NEW h \in Handlers, ClaimStep(h)
          PROVE  clock' \in Nat /\ members' \subseteq Items
                 /\ req' \in [Handlers -> Requests] /\ audits' \subseteq Audit
      <3>1. UNCHANGED <<clock, members, audits>>
        BY <2>4 DEF ClaimStep, Probe, Wake, ReplayClaim, RefuseClaim,
                    ClaimItem, ClaimEmpty, ClaimLater
      <3> QED BY <2>4, <3>1, ClaimStepTypes DEF TypeOK
    <2>5. ASSUME NEW h \in Handlers, FinishStep(h)
          PROVE  clock' \in Nat /\ members' \subseteq Items
                 /\ req' \in [Handlers -> Requests] /\ audits' \subseteq Audit
      <3>1. UNCHANGED <<clock, members>>
        BY <2>5 DEF FinishStep, FinishUnavailable, ReplayFinish, Acknowledge,
                    FinishNotCurrent, Reject, ReleaseForRetry, Settle,
                    ReleaseExhausted, AuditRejection
      <3> QED BY <2>5, <3>1, FinishStepTypes DEF TypeOK
    <2>6. ASSUME NEW h \in Handlers, Crash(h)
          PROVE  clock' \in Nat /\ members' \subseteq Items
                 /\ req' \in [Handlers -> Requests] /\ audits' \subseteq Audit
      BY <2>6 DEF Crash, Finished, TypeOK, Requests
    <2>7. CASE UNCHANGED vars
      BY <2>7 DEF vars, TypeOK
    <2> QED BY <2>1, <2>2, <2>3, <2>4, <2>5, <2>6, <2>7 DEF Next
  <1> QED BY <1>1, LeaseColumns, LedgerTypes DEF TypeOK

LEMMA TypeInit == Init => TypeOK
  BY InboxAssumption
  DEF Init, TypeOK, Absent, Item, Statuses, Requests, Leased

(* The columns keep their types, and the CHECK constraint of               *)
(* tas_inbox_items is never hit by any of the handlers.                    *)
THEOREM TypeCorrect == Spec => []TypeOK
  BY TypeInit, TypeStep, PTL DEF Spec

-----------------------------------------------------------------------------
(* The inductive invariant. *)

IInv == /\ TypeOK
        /\ LeaseIsLast
        /\ RowsNotAhead
        /\ LeasesDisjoint
        /\ AttemptsAreAnswered
        /\ SettledOnce

LEMMA QuietStep == IInv /\ TypeOK' /\ Quiet => IInv'
  BY DEF IInv, Quiet, LeaseIsLast, RowsNotAhead, LeasesDisjoint, Leased,
         AttemptsAreAnswered, SettledOnce

LEMMA DeliverStep ==
    ASSUME IInv, TypeOK', NEW i \in Items, Deliver(i)
    PROVE  IInv'
  <1>1. /\ items[i].status = "absent"
        /\ items'[i].status = "pending"
        /\ items'[i].attempt = items[i].attempt
        /\ \A j \in Items \ {i} : items'[j] = items[j]
        /\ UNCHANGED <<claims, finishes>>
    BY DEF Deliver, IInv, TypeOK, Item
  <1>2. LeaseIsLast'
    BY <1>1 DEF IInv, LeaseIsLast, Leased
  <1>3. \A j \in Items : items'[j].attempt = items[j].attempt
    BY <1>1
  <1>4. RowsNotAhead'
    BY <1>1, <1>3 DEF IInv, RowsNotAhead, TypeOK, ClaimRow, FinishRow
  <1>5. LeasesDisjoint'
    BY <1>1 DEF IInv, LeasesDisjoint, Leased
  <1>6. AttemptsAreAnswered'
    BY <1>1, <1>3 DEF IInv, AttemptsAreAnswered
  <1>7. SettledOnce'
    <2> SUFFICES ASSUME NEW row \in finishes
                 PROVE  /\ row.attempt = items'[row.item].attempt
                             => items'[row.item].status = row.status
                        /\ row.status # "pending"
                             => row.attempt = items'[row.item].attempt
      BY <1>1 DEF IInv, SettledOnce
    <2>1. /\ row.item \in Items
          /\ row.status \in {"acknowledged", "pending", "dead_letter"}
      BY DEF IInv, TypeOK, FinishRow
    <2>2. /\ row.attempt = items[row.item].attempt
               => items[row.item].status = row.status
          /\ row.status # "pending" => row.attempt = items[row.item].attempt
      BY DEF IInv, SettledOnce
    <2> QED BY <1>1, <1>3, <2>1, <2>2
  <1> QED
    BY <1>2, <1>4, <1>5, <1>6, <1>7 DEF IInv

(* Reaping gives up leases of last attempts; nothing else changes.         *)
LEMMA ReapingKeeps ==
    ASSUME IInv, NEW a \in Agents, NEW t \in Nat, NEW i \in Items
    PROVE  /\ Reaped(a, t)[i].attempt = items[i].attempt
           /\ \/ Reaped(a, t)[i] = items[i]
              \/ /\ Leased(i)
                 /\ items[i].attempt = MaxAttempts
                 /\ Reaped(a, t)[i].status = "dead_letter"
                 /\ Reaped(a, t)[i].token = NoToken
  <1>1. /\ TypeOK /\ items[i].attempt \in Nat
        /\ items[i].attempt <= MaxAttempts
    BY DEF IInv, LeaseIsLast, TypeOK, Item
  <1>2. Exhausted(a, i, t) => Leased(i) /\ items[i].attempt = MaxAttempts
    BY <1>1, InboxAssumption DEF Exhausted
  <1> QED BY <1>1, <1>2, ReapedType

(* The rows of finishes stay true when items are leased or reaped.         *)
LEMMA SettledKept ==
    ASSUME IInv, UNCHANGED finishes,
           \A i \in Items :
              \/ /\ items'[i].status = items[i].status
                 /\ items'[i].attempt = items[i].attempt
              \/ Leased(i) /\ items'[i].attempt = items[i].attempt
              \/ /\ items[i].status \in {"pending", "leased"}
                 /\ items'[i].attempt = items[i].attempt + 1
    PROVE  SettledOnce'
  <1> SUFFICES ASSUME NEW row \in finishes
               PROVE  /\ row.attempt = items'[row.item].attempt
                           => items'[row.item].status = row.status
                      /\ row.status # "pending"
                           => row.attempt = items'[row.item].attempt
    BY DEF IInv, SettledOnce
  <1>1. /\ row.item \in Items /\ row.attempt \in Nat
        /\ items[row.item].attempt \in Nat
        /\ row.status \in {"acknowledged", "pending", "dead_letter"}
    BY DEF IInv, TypeOK, FinishRow, Item
  <1>2. /\ row.attempt <= items[row.item].attempt
        /\ row.attempt = items[row.item].attempt
               => items[row.item].status = row.status
        /\ row.status # "pending" => row.attempt = items[row.item].attempt
    BY DEF IInv, SettledOnce, RowsNotAhead
  <1> QED BY <1>1, <1>2 DEF Leased

LEMMA ClaimEmptyStep ==
    ASSUME IInv, TypeOK', NEW h \in Handlers, ClaimEmpty(h)
    PROVE  IInv'
  <1> DEFINE r == req[h]
  <1>1. r \in ClaimRequest /\ r.agent \in Agents /\ r.now \in Nat
    BY RequestTypes DEF IInv, ClaimEmpty, ClaimRequest
  <1>2. /\ items' = Reaped(r.agent, r.now)
        /\ claims' = claims \cup {ClaimRowOf(r, NoItem, 0)}
        /\ ClaimRowsOf(r.agent, r.key) = {}
        /\ UNCHANGED finishes
    BY DEF ClaimEmpty, NothingToClaim
  <1>3. \A i \in Items :
            /\ items'[i].attempt = items[i].attempt
            /\ \/ items'[i] = items[i]
               \/ /\ Leased(i)
                  /\ items[i].attempt = MaxAttempts
                  /\ items'[i].status = "dead_letter"
                  /\ items'[i].token = NoToken
    BY <1>1, <1>2, ReapingKeeps
  <1>4. LeaseIsLast'
    BY <1>3 DEF IInv, LeaseIsLast, Leased
  <1>5. /\ ClaimRowOf(r, NoItem, 0).item = NoItem
        /\ ClaimRowOf(r, NoItem, 0).agent = r.agent
        /\ ClaimRowOf(r, NoItem, 0).key = r.key
    BY DEF ClaimRowOf
  <1>6. RowsNotAhead'
    <2>1. \A row \in claims' :
             row.item # NoItem => row.attempt \in 1..items'[row.item].attempt
      BY <1>2, <1>3, <1>5 DEF IInv, RowsNotAhead, TypeOK, ClaimRow
    <2>2. \A row \in finishes' : row.attempt <= items'[row.item].attempt
      BY <1>2, <1>3 DEF IInv, RowsNotAhead, TypeOK, FinishRow
    <2> QED BY <2>1, <2>2 DEF RowsNotAhead
  <1>7. LeasesDisjoint'
    BY <1>3 DEF IInv, LeasesDisjoint, Leased
  <1>8. AttemptsAreAnswered'
    <2>1. \A r1, r2 \in claims' :
             r1.agent = r2.agent /\ r1.key = r2.key => r1 = r2
      BY <1>2, <1>5 DEF IInv, AttemptsAreAnswered, ClaimRowsOf
    <2>2. ASSUME NEW i \in Items
          PROVE  /\ \A n \in 1..items'[i].attempt :
                       \E row \in claims' : row.item = i /\ row.attempt = n
                 /\ \A r1, r2 \in claims' :
                       r1.item = i /\ r2.item = i /\ r1.attempt = r2.attempt
                          => r1 = r2
      <3>1. i # NoItem
        BY InboxAssumption
      <3> QED BY <1>2, <1>3, <1>5, <3>1 DEF IInv, AttemptsAreAnswered
    <2> QED BY <2>1, <2>2 DEF AttemptsAreAnswered
  <1>9. SettledOnce'
    BY <1>2, <1>3, SettledKept
  <1> QED BY <1>4, <1>6, <1>7, <1>8, <1>9 DEF IInv

LEMMA ClaimItemStep ==
    ASSUME IInv, TypeOK', NEW h \in Handlers, NEW i \in Items,
           ClaimItem(h, i)
    PROVE  IInv'
  <1> DEFINE r == req[h]
             n == items[i].attempt + 1
             new == ClaimRowOf(r, i, n)
  <1>1. /\ TypeOK
        /\ r \in ClaimRequest /\ r.agent \in Agents /\ r.now \in Nat
        /\ Recipient[i] = r.agent
        /\ items[i].attempt \in Nat /\ n <= MaxAttempts
    BY ClaimEffect, InboxAssumption DEF IInv, ClaimRequest, TypeOK, Item
  <1>2. /\ items' = [Reaped(r.agent, r.now) EXCEPT ![i] = LeasedTo(r, i)]
        /\ claims' = claims \cup {new}
        /\ ~HasActiveLease(r.agent, r.now)
        /\ ClaimRowsOf(r.agent, r.key) = {}
        /\ UNCHANGED finishes
    BY <1>1, ClaimEffect
  <1>3. /\ items'[i].status = "leased"
        /\ items'[i].attempt = n
        /\ items'[i].token = TokenFor(r, i)
        /\ items'[i].acquired = r.now
    BY <1>1, <1>2, LeasedToType, ReapedType
  <1>4. \A j \in Items \ {i} :
            /\ items'[j].attempt = items[j].attempt
            /\ \/ items'[j] = items[j]
               \/ /\ Leased(j)
                  /\ items[j].attempt = MaxAttempts
                  /\ items'[j].status = "dead_letter"
                  /\ items'[j].token = NoToken
    BY <1>1, <1>2, ReapingKeeps, ReapedType
  <1>5. /\ TokenFor(r, i).agent = Recipient[i]
        /\ TokenFor(r, i).item = i
        /\ TokenFor(r, i).attempt = n
    BY <1>1 DEF TokenFor
  <1>6. /\ new.item = i /\ new.attempt = n
        /\ new.agent = r.agent /\ new.key = r.key
    BY DEF ClaimRowOf
  <1>7. i # NoItem
    BY InboxAssumption
  <1>8. LeaseIsLast'
    BY <1>1, <1>3, <1>4, <1>5 DEF IInv, LeaseIsLast, Leased
  <1>9. RowsNotAhead'
    <2>1. \A row \in claims :
             row.item # NoItem => row.attempt \in 1..items'[row.item].attempt
      <3> SUFFICES ASSUME NEW row \in claims, row.item # NoItem
                   PROVE  row.attempt \in 1..items'[row.item].attempt
        OBVIOUS
      <3>1. row.item \in Items /\ row.attempt \in 1..items[row.item].attempt
        BY DEF IInv, RowsNotAhead, TypeOK, ClaimRow
      <3> QED BY <1>1, <1>3, <1>4, <3>1
    <2>2. new.attempt \in 1..items'[new.item].attempt
      BY <1>1, <1>3, <1>6
    <2>3. \A row \in finishes : row.attempt <= items'[row.item].attempt
      <3> SUFFICES ASSUME NEW row \in finishes
                   PROVE  row.attempt <= items'[row.item].attempt
        OBVIOUS
      <3>1. /\ row.item \in Items /\ row.attempt \in Nat
            /\ row.attempt <= items[row.item].attempt
        BY DEF IInv, RowsNotAhead, TypeOK, FinishRow
      <3> QED BY <1>1, <1>3, <1>4, <3>1
    <2> QED BY <1>2, <2>1, <2>2, <2>3 DEF RowsNotAhead
  <1>10. LeasesDisjoint'
    <2>1. ASSUME NEW j \in Items \ {i}, Recipient[j] = r.agent, Leased(j)'
          PROVE  items'[j].expires <= items'[i].acquired
      <3>1. items'[j] = items[j] /\ Leased(j)
        BY <1>4, <2>1 DEF Leased
      <3>2. ~(items[j].expires > r.now)
        BY <1>2, <2>1, <3>1 DEF HasActiveLease, Running
      <3>3. items[j].expires \in Nat
        BY <1>1 DEF TypeOK, Item
      <3> QED BY <1>1, <1>3, <3>1, <3>2, <3>3
    <2>2. ASSUME NEW j \in Items \ {i}, NEW k \in Items \ {i}, j # k,
                 Recipient[j] = Recipient[k], Leased(j)', Leased(k)'
          PROVE  \/ items'[j].expires <= items'[k].acquired
                 \/ items'[k].expires <= items'[j].acquired
      <3>1. /\ items'[j] = items[j] /\ Leased(j)
            /\ items'[k] = items[k] /\ Leased(k)
        BY <1>4, <2>2 DEF Leased
      <3> QED BY <2>2, <3>1 DEF IInv, LeasesDisjoint
    <2> QED BY <1>1, <2>1, <2>2 DEF LeasesDisjoint
  <1>11. AttemptsAreAnswered'
    <2>1. \A r1, r2 \in claims' :
             r1.agent = r2.agent /\ r1.key = r2.key => r1 = r2
      BY <1>2, <1>6 DEF IInv, AttemptsAreAnswered, ClaimRowsOf
    <2>2. \A row \in claims : row.item = i => row.attempt # n
      BY <1>1, <1>7 DEF IInv, RowsNotAhead
    <2>3. ASSUME NEW j \in Items
          PROVE  /\ \A m \in 1..items'[j].attempt :
                       \E row \in claims' : row.item = j /\ row.attempt = m
                 /\ \A r1, r2 \in claims' :
                       r1.item = j /\ r2.item = j /\ r1.attempt = r2.attempt
                          => r1 = r2
      <3>1. \A m \in 1..items[j].attempt :
                \E row \in claims : row.item = j /\ row.attempt = m
        BY DEF IInv, AttemptsAreAnswered
      <3>2. \A r1, r2 \in claims :
                r1.item = j /\ r2.item = j /\ r1.attempt = r2.attempt
                   => r1 = r2
        BY DEF IInv, AttemptsAreAnswered
      <3>3. CASE j = i
        <4>1. \A m \in 1..n : m \in 1..items[i].attempt \/ m = n
          BY <1>1
        <4> QED BY <1>2, <1>3, <1>6, <2>2, <3>1, <3>2, <3>3, <4>1
      <3>4. CASE j # i
        BY <1>2, <1>4, <1>6, <3>1, <3>2, <3>4
      <3> QED BY <3>3, <3>4
    <2> QED BY <2>1, <2>3 DEF AttemptsAreAnswered
  <1>12. SettledOnce'
    <2>1. items[i].status \in {"pending", "leased"}
      BY DEF ClaimItem, Oldest, Claimable, Leased
    <2> QED BY <1>2, <1>3, <1>4, <2>1, SettledKept
  <1> QED BY <1>8, <1>9, <1>10, <1>11, <1>12 DEF IInv

LEMMA SettlingStep ==
    ASSUME IInv, TypeOK', NEW h \in Handlers, Settling(h)
    PROVE  IInv'
  <1> DEFINE r == req[h]
             i == r.item
  <1>1. PICK status \in {"acknowledged", "pending", "dead_letter"},
             item \in Item :
            /\ item.status = status
            /\ item.token = NoToken
            /\ item.attempt = items[i].attempt
            /\ status = "dead_letter" => item.attempt >= MaxAttempts
            /\ items' = [items EXCEPT ![i] = item]
            /\ finishes' = finishes \cup {FinishRowFor(r, status)}
    BY SettlingEffect DEF IInv
  <1>2. /\ TypeOK /\ r \in FinishRequest /\ i \in Items
        /\ items[i].attempt \in Nat /\ items[i].attempt <= MaxAttempts
        /\ Recipient[i] = r.agent
        /\ Leased(i) /\ items[i].token = r.token
        /\ UNCHANGED claims
    BY SettlingEffect
    DEF IInv, FinishRequest, TypeOK, Item, LeaseIsLast, Current, Leased
  <1>3. /\ items'[i] = item
        /\ \A j \in Items \ {i} : items'[j] = items[j]
        /\ \A j \in Items : items'[j].attempt = items[j].attempt
    BY <1>1, <1>2 DEF TypeOK
  <1> DEFINE new == FinishRowFor(r, status)
  <1>4. /\ new.item = i /\ new.agent = r.agent /\ new.status = status
        /\ new.token = items[i].token /\ new.attempt = items[i].attempt
    BY <1>2, FinishRowType
  <1>5. /\ items[i].token # NoToken
        /\ items[i].token.agent = Recipient[i]
        /\ items[i].token.item = i
        /\ items[i].token.attempt = items[i].attempt
    BY <1>2 DEF IInv, LeaseIsLast, TypeOK
  <1>6. LeaseIsLast'
    BY <1>1, <1>2, <1>3, InboxAssumption DEF IInv, LeaseIsLast, Leased
  <1>7. RowsNotAhead'
    <2>1. \A row \in claims :
             row.item # NoItem => row.attempt \in 1..items'[row.item].attempt
      BY <1>3 DEF IInv, RowsNotAhead, TypeOK, ClaimRow
    <2>2. \A row \in finishes : row.attempt <= items'[row.item].attempt
      BY <1>3 DEF IInv, RowsNotAhead, TypeOK, FinishRow
    <2>3. new.attempt <= items'[new.item].attempt
      BY <1>2, <1>3, <1>4
    <2> QED BY <1>1, <1>2, <2>1, <2>2, <2>3 DEF RowsNotAhead
  <1>8. LeasesDisjoint'
    BY <1>1, <1>3 DEF IInv, LeasesDisjoint, Leased
  <1>9. AttemptsAreAnswered'
    BY <1>2, <1>3 DEF IInv, AttemptsAreAnswered
  <1>10. SettledOnce'
    <2>1. \A row \in finishes :
             /\ row.token # NoToken
             /\ row.token.item = row.item /\ row.token.attempt = row.attempt
             /\ row.token.agent = row.agent
             /\ \A other \in finishes : other.token = row.token => other = row
             /\ row.attempt = items[row.item].attempt
                    => items[row.item].status = row.status
             /\ row.status # "pending" => row.attempt = items[row.item].attempt
      BY DEF IInv, SettledOnce
    <2>2. ASSUME NEW row \in finishes
          PROVE  row.item = i => row.attempt # items[i].attempt
      <3>1. row.status \in {"acknowledged", "pending", "dead_letter"}
        BY DEF IInv, TypeOK, FinishRow
      <3> QED BY <1>2, <2>1, <3>1 DEF Leased
    <2>3. \A row \in finishes : row.token # new.token
      BY <1>4, <1>5, <2>1, <2>2
    <2>4. ASSUME NEW row \in finishes
          PROVE  /\ row.attempt = items'[row.item].attempt
                      => items'[row.item].status = row.status
                 /\ row.status # "pending"
                      => row.attempt = items'[row.item].attempt
      <3>1. row.item \in Items
        BY DEF IInv, TypeOK, FinishRow
      <3> QED BY <1>3, <2>1, <2>2, <3>1
    <2>5. /\ new.token # NoToken
          /\ new.token.item = new.item /\ new.token.attempt = new.attempt
          /\ new.token.agent = new.agent
          /\ items'[new.item].status = new.status
          /\ new.attempt = items'[new.item].attempt
      BY <1>1, <1>2, <1>3, <1>4, <1>5
    <2> QED BY <1>1, <2>1, <2>3, <2>4, <2>5 DEF SettledOnce
  <1> QED BY <1>6, <1>7, <1>8, <1>9, <1>10 DEF IInv

-----------------------------------------------------------------------------
(* The theorems. *)

LEMMA IInvInit == Init => IInv
  <1> SUFFICES ASSUME Init PROVE IInv
    OBVIOUS
  <1>1. \A i \in Items : items[i] = Absent
    BY DEF Init
  <1>2. claims = {} /\ finishes = {}
    BY DEF Init
  <1> QED
    BY <1>1, <1>2, TypeInit, InboxAssumption
    DEF IInv, LeaseIsLast, RowsNotAhead, LeasesDisjoint, Leased, Absent,
        AttemptsAreAnswered, SettledOnce

LEMMA IInvStep == IInv /\ [Next]_vars => IInv'
  <1> SUFFICES ASSUME IInv, [Next]_vars PROVE IInv'
    OBVIOUS
  <1>1. TypeOK'
    BY TypeStep DEF IInv
  <1> QED
    BY <1>1, TableSteps, QuietStep, DeliverStep, ClaimItemStep,
       ClaimEmptyStep, SettlingStep

(* No Agent ever has two overlapping leases.                               *)
THEOREM LeasesAlwaysDisjoint == Spec => []LeasesDisjoint
  <1>1. IInv => LeasesDisjoint
    BY DEF IInv
  <1> QED BY <1>1, IInvInit, IInvStep, PTL DEF Spec

(* Every attempt used up was answered under exactly one key.               *)
THEOREM AttemptsAlwaysAnswered == Spec => []AttemptsAreAnswered
  <1>1. IInv => AttemptsAreAnswered
    BY DEF IInv
  <1> QED BY <1>1, IInvInit, IInvStep, PTL DEF Spec

(* A lease is settled once, and only by its holder's last token.           *)
THEOREM AlwaysSettledOnce == Spec => []SettledOnce
  <1>1. IInv => SettledOnce
    BY DEF IInv
  <1> QED BY <1>1, IInvInit, IInvStep, PTL DEF Spec

-----------------------------------------------------------------------------
(* Inbox implements Delivery. *)

LEMMA PhaseOfStatus ==
    /\ PhaseOf("absent") = "none"
    /\ PhaseOf("pending") = "waiting"
    /\ PhaseOf("leased") = "out"
    /\ PhaseOf("acknowledged") = "done"
    /\ PhaseOf("dead_letter") = "buried"
  BY DEF PhaseOf

(* What a claim reaps is out for the last time.                            *)
LEMMA ExhaustedIsLost ==
    ASSUME IInv, NEW a \in Agents, NEW t \in Nat, NEW i \in Items,
           Exhausted(a, i, t)
    PROVE  i \in D!LostItems
  <1>1. items[i].attempt \in Nat /\ items[i].attempt <= MaxAttempts
    BY DEF IInv, LeaseIsLast, TypeOK, Item
  <1>2. items[i].status = "leased" /\ items[i].attempt = MaxAttempts
    BY <1>1, InboxAssumption DEF Exhausted, Leased
  <1> QED BY <1>2, PhaseOfStatus DEF D!LostItems

LEMMA DeliveryInit == Init => D!DInit
  BY PhaseOfStatus DEF Init, Absent, D!DInit

LEMMA DeliveryStep == IInv /\ [Next]_vars => [D!DNext]_(D!dvars)
  <1> SUFFICES ASSUME IInv, [Next]_vars PROVE [D!DNext]_(D!dvars)
    OBVIOUS
  <1> DEFINE ph == [i \in Items |-> PhaseOf(items[i].status)]
             at == [i \in Items |-> items[i].attempt]
  <1>t. TypeOK
    BY DEF IInv
  <1>1. CASE Quiet
    BY <1>1 DEF Quiet, D!dvars
  <1>2. ASSUME NEW i \in Items, Deliver(i)
        PROVE  D!DNext
    <2>1. /\ items[i].status = "absent"
          /\ items'[i].status = "pending"
          /\ \A j \in Items : items'[j].attempt = items[j].attempt
          /\ \A j \in Items \ {i} : items'[j] = items[j]
      BY <1>2, <1>t DEF Deliver, TypeOK, Item
    <2>2. D!Offer(i)
      BY <2>1, PhaseOfStatus DEF D!Offer
    <2> QED BY <2>2 DEF D!DNext
  <1>3. ASSUME NEW h \in Handlers, NEW i \in Items, ClaimItem(h, i)
        PROVE  D!DNext
    <2> DEFINE r == req[h]
    <2>0. PICK L \in SUBSET Items :
             \A j \in Items : j \in L <=> Exhausted(r.agent, j, r.now)
      <3> WITNESS {j \in Items : Exhausted(r.agent, j, r.now)}
                    \in SUBSET Items
      <3> QED OBVIOUS
    <2>1. /\ r \in ClaimRequest /\ r.agent \in Agents /\ r.now \in Nat
          /\ i \notin L
          /\ items[i].attempt < MaxAttempts
          /\ items' = [Reaped(r.agent, r.now) EXCEPT ![i] = LeasedTo(r, i)]
      BY <1>3, <1>t, <2>0, ClaimEffect DEF ClaimRequest
    <2>2. items[i].status \in {"pending", "leased"}
      BY <1>3 DEF ClaimItem, Oldest, Claimable, Leased
    <2>3. /\ items'[i].status = "leased"
          /\ items'[i].attempt = items[i].attempt + 1
      BY <1>t, <2>1, LeasedToType, ReapedType
    <2>4. \A j \in Items \ {i} :
             /\ items'[j].attempt = items[j].attempt
             /\ j \in L => items'[j].status = "dead_letter"
             /\ j \notin L => items'[j].status = items[j].status
      BY <1>t, <2>0, <2>1, ReapedType
    <2>5. L \in SUBSET D!LostItems
      BY <2>0, <2>1, ExhaustedIsLost
    <2>6. D!HandOut(i, L)
      <3>1. /\ at[i] < MaxAttempts
            /\ at' = [at EXCEPT ![i] = at[i] + 1]
        <4>1. at[i] = items[i].attempt
          OBVIOUS
        <4>2. at' = [j \in Items |-> items'[j].attempt]
          OBVIOUS
        <4>3. \A j \in Items :
                 items'[j].attempt = IF j = i THEN at[i] + 1 ELSE at[j]
          BY <2>3, <2>4
        <4> HIDE DEF at
        <4>4. at = [j \in Items |-> at[j]]
          BY DEF at
        <4> QED BY <2>1, <4>1, <4>2, <4>3, <4>4
      <3>2. ph' = [j \in Items |-> IF j \in L THEN "buried"
                                   ELSE IF j = i THEN "out" ELSE ph[j]]
        BY <2>1, <2>3, <2>4, PhaseOfStatus
      <3>3. ph[i] \in {"waiting", "out"}
        BY <2>2, PhaseOfStatus
      <3> QED BY <3>1, <3>2, <3>3 DEF D!HandOut
    <2> QED BY <2>5, <2>6 DEF D!DNext
  <1>4. ASSUME NEW h \in Handlers, ClaimEmpty(h)
        PROVE  D!DNext
    <2> DEFINE r == req[h]
    <2>0. PICK L \in SUBSET Items :
             \A j \in Items : j \in L <=> Exhausted(r.agent, j, r.now)
      <3> WITNESS {j \in Items : Exhausted(r.agent, j, r.now)}
                    \in SUBSET Items
      <3> QED OBVIOUS
    <2>1. /\ r.agent \in Agents /\ r.now \in Nat
          /\ items' = Reaped(r.agent, r.now)
      BY <1>4, <1>t, RequestTypes DEF ClaimEmpty, ClaimRequest
    <2>2. \A j \in Items :
             /\ items'[j].attempt = items[j].attempt
             /\ j \in L => items'[j].status = "dead_letter"
             /\ j \notin L => items'[j].status = items[j].status
      BY <1>t, <2>0, <2>1, ReapedType
    <2>3. L \in SUBSET D!LostItems
      BY <2>0, <2>1, ExhaustedIsLost
    <2>4. /\ ph' = [j \in Items |-> IF j \in L THEN "buried" ELSE ph[j]]
          /\ at' = at
      BY <2>2, PhaseOfStatus
    <2> QED BY <2>3, <2>4 DEF D!DNext, D!Bury
  <1>5. ASSUME NEW h \in Handlers, Settling(h)
        PROVE  D!DNext
    <2> DEFINE i == req[h].item
    <2>1. PICK status \in {"acknowledged", "pending", "dead_letter"},
               item \in Item :
            /\ item.status = status
            /\ item.attempt = items[i].attempt
            /\ status = "dead_letter" => item.attempt >= MaxAttempts
            /\ status = "pending" => item.attempt < MaxAttempts
            /\ items' = [items EXCEPT ![i] = item]
      BY <1>5, <1>t, SettlingEffect
    <2>2. i \in Items /\ items[i].status = "leased"
      BY <1>5, <1>t, SettlingEffect DEF FinishRequest, Current
    <2>3. /\ items'[i].status = status
          /\ \A j \in Items : items'[j].attempt = items[j].attempt
          /\ \A j \in Items \ {i} : items'[j] = items[j]
      BY <1>t, <2>1, <2>2 DEF TypeOK
    <2>4. at' = at /\ at[i] = item.attempt /\ ph[i] = "out"
      BY <2>1, <2>2, <2>3, PhaseOfStatus
    <2>5. CASE status = "acknowledged"
      <3>1. ph' = [ph EXCEPT ![i] = "done"]
        BY <2>3, <2>5, PhaseOfStatus
      <3>2. D!Confirm(i)
        BY <2>4, <3>1 DEF D!Confirm
      <3> QED BY <2>2, <3>2 DEF D!DNext
    <2>6. CASE status \in {"pending", "dead_letter"}
      <3>1. item.attempt \in Nat
        BY DEF Item
      <3>2. ph' = [ph EXCEPT ![i] = IF at[i] < MaxAttempts
                                    THEN "waiting" ELSE "buried"]
        BY <2>1, <2>3, <2>4, <2>6, <3>1, PhaseOfStatus, InboxAssumption
      <3>3. D!GiveBack(i)
        BY <2>4, <3>2 DEF D!GiveBack
      <3> QED BY <2>2, <3>3 DEF D!DNext
    <2> QED BY <2>5, <2>6
  <1> QED
    BY <1>1, <1>2, <1>3, <1>4, <1>5, TableSteps

(* Every behaviour of the Inbox is one Delivery allows.                    *)
THEOREM InboxImplementsDelivery == Spec => ImplementsDelivery
  BY DeliveryInit, DeliveryStep, IInvInit, IInvStep, PTL
  DEF Spec, ImplementsDelivery, D!DSpec

=============================================================================
