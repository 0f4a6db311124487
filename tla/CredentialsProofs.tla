------------------------- MODULE CredentialsProofs -------------------------
(***************************************************************************)
(* Proofs about Credentials, for any number of Credentials and calls, any  *)
(* profiles and lifetimes.                                                 *)
(*                                                                         *)
(* TypeOK is not inductive: that the row a revocation writes can be        *)
(* restored rests on the row being issued before the call read its clock.  *)
(* Inv says so of every row (RowOK) and call (CallOK), and that a request  *)
(* which came late sees its Credential ended.  What a call read of the     *)
(* rows stays true because rows only grow (Grows).                         *)
(***************************************************************************)
EXTENDS Credentials, TLAPS

RowOK(row, now) ==
    /\ row \in Credential
    /\ Valid(row)
    /\ row.issuedAt <= now

CallOK(r) ==
    \/ r = Idle
    \/ /\ r.pc = "authenticate"
       /\ r.id \in Ids
       /\ r.now \in 0 .. clock
       /\ r.late => Ended(r.id, r.now)
    \/ /\ r.pc = "principal"
       /\ r.scope \in Scopes
       /\ ~r.late
    \/ /\ r.pc \in {"rotate", "revoke"}
       /\ r.id \in Ids
       /\ Issued(r.id)
       /\ credentials[r.id].issuedAt <= r.now
       /\ r.now \in 0 .. clock

RowsInv ==
    /\ clock \in 0 .. MaxClock
    /\ credentials \in [Ids -> Credential \cup {None}]
    /\ \A id \in Ids : Issued(id) => RowOK(credentials[id], clock)

CallsInv ==
    /\ DOMAIN calls = Calls
    /\ calls = [c \in Calls |-> calls[c]]
    /\ \A c \in Calls : CallOK(calls[c])

Inv == RowsInv /\ CallsInv

(* What no step takes back of a row. *)
Keeps(old, new) ==
    /\ new # None
    /\ new.issuedAt = old.issuedAt
    /\ new.expiresAt = old.expiresAt
    /\ new.rotatedFrom = old.rotatedFrom
    /\ old.status = "revoked" => new.status = "revoked"

Grows ==
    /\ clock \in Nat /\ clock' \in Nat /\ clock <= clock'
    /\ \A id \in Ids : Issued(id) => Keeps(credentials[id], credentials'[id])

(* The calls of a step: one of them is given a new state.                  *)
Moves(c, r) == calls' = [calls EXCEPT ![c] = r]

-----------------------------------------------------------------------------

LEMMA Assumptions ==
  /\ None \notin Ids /\ None \notin Nat /\ None \notin Credential
  /\ MaxClock \in Nat
  /\ \A l \in Lifetimes : l \in Nat /\ l > 0
  /\ \A p \in Profiles : p.subject \in Subjects /\ p.scopes \in SUBSET Scopes
<1>1. None \notin Ids /\ None \notin Nat /\ None \notin Credential
  BY NoneAssumption
<1>2. MaxClock \in Nat
  BY ClockAssumption
<1>3. \A l \in Lifetimes : l \in Nat /\ l > 0
  BY LifetimesAssumption
<1>4. \A p \in Profiles : p.subject \in Subjects /\ p.scopes \in SUBSET Scopes
  BY ProfilesAssumption
<1> QED BY <1>1, <1>2, <1>3, <1>4

(* A row as Issue and RotateWithAudit write it. *)
LEMMA NewRow ==
  ASSUME NEW subject \in Subjects, NEW scopes \in SUBSET Scopes,
         PolicyAdmits(subject, scopes),
         NEW from \in Ids \cup {None}, NEW at \in Nat, NEW now \in Nat,
         at <= now, NEW lifetime \in Nat, lifetime > 0
  PROVE  /\ RowOK(New(subject, scopes, from, at, lifetime), now)
         /\ New(subject, scopes, from, at, lifetime).rotatedFrom = from
         /\ New(subject, scopes, from, at, lifetime).status = "active"
<1> DEFINE row == New(subject, scopes, from, at, lifetime)
<1>1. /\ row.subject = subject /\ row.scopes = scopes /\ row.issuedAt = at
      /\ row.expiresAt = at + lifetime /\ row.status = "active"
      /\ row.revokedAt = None /\ row.rotatedFrom = from
      /\ row.replacedBy = None
  BY DEF New
<1>2. row \in Credential
  BY DEF New, Credential
<1> HIDE DEF row
<1>3. at < at + lifetime
  OBVIOUS
<1>4. Valid(row)
  BY <1>1, <1>3 DEF Valid, PolicyAdmits
<1> QED BY <1>1, <1>2, <1>4 DEF RowOK, row

(* A row as it is revoked or replaced. *)
LEMMA EndedRow ==
  ASSUME NEW now \in Nat, NEW row, RowOK(row, now),
         NEW at \in Nat, row.issuedAt <= at,
         NEW successor \in Ids \cup {None}
  PROVE  /\ RowOK(Ends(row, at, successor), now)
         /\ Keeps(row, Ends(row, at, successor))
         /\ Ends(row, at, successor).status = "revoked"
<1> DEFINE ended == Ends(row, at, successor)
<1>1. /\ ended.subject = row.subject /\ ended.scopes = row.scopes
      /\ ended.issuedAt = row.issuedAt /\ ended.expiresAt = row.expiresAt
      /\ ended.status = "revoked" /\ ended.revokedAt = at
      /\ ended.rotatedFrom = row.rotatedFrom /\ ended.replacedBy = successor
  BY DEF Ends, RowOK, Credential
<1>2. ended \in Credential
  BY DEF Ends, RowOK, Credential
<1> HIDE DEF ended
<1>3. at # None /\ ended # None
  BY <1>2, Assumptions
<1>4. Valid(ended)
  BY <1>1, <1>3 DEF Valid, RowOK
<1> QED BY <1>1, <1>2, <1>3, <1>4 DEF RowOK, Keeps, ended

(* What a call that does not move has read stays true. *)
LEMMA CallsPersist ==
  ASSUME Grows, NEW r, CallOK(r)
  PROVE  CallOK(r)'
<1>1. CASE r = Idle
  BY <1>1 DEF CallOK
<1>2. CASE /\ r.pc = "authenticate"
           /\ r.id \in Ids
           /\ r.now \in 0 .. clock
           /\ r.late => Ended(r.id, r.now)
  <2>1. r.now \in 0 .. clock'
    BY <1>2 DEF Grows
  <2>2. ASSUME Ended(r.id, r.now) PROVE Ended(r.id, r.now)'
    BY <1>2, <2>2 DEF Ended, Issued, Expired, Grows, Keeps
  <2> QED BY <1>2, <2>1, <2>2 DEF CallOK
<1>3. CASE /\ r.pc = "principal"
           /\ r.scope \in Scopes
           /\ ~r.late
  BY <1>3 DEF CallOK
<1>4. CASE /\ r.pc \in {"rotate", "revoke"}
           /\ r.id \in Ids
           /\ Issued(r.id)
           /\ credentials[r.id].issuedAt <= r.now
           /\ r.now \in 0 .. clock
  <2>1. r.now \in 0 .. clock'
    BY <1>4 DEF Grows
  <2>2. Issued(r.id)' /\ credentials'[r.id].issuedAt <= r.now
    BY <1>4 DEF Grows, Keeps, Issued
  <2> QED BY <1>4, <2>1, <2>2 DEF CallOK
<1> QED BY <1>1, <1>2, <1>3, <1>4 DEF CallOK

LEMMA OneCallMoves ==
  ASSUME CallsInv, Grows, NEW c \in Calls, NEW r, Moves(c, r), CallOK(r)'
  PROVE  CallsInv'
<1>1. DOMAIN calls' = Calls /\ calls' = [d \in Calls |-> calls'[d]]
  BY DEF CallsInv, Moves
<1>2. ASSUME NEW d \in Calls PROVE CallOK(calls[d])'
  <2>1. PICK s : s = calls'[d]
    OBVIOUS
  <2>2. s = r \/ s = calls[d]
    BY <2>1 DEF CallsInv, Moves
  <2>3. CallOK(s)'
    BY <2>2, CallsPersist DEF CallsInv
  <2> QED BY <2>1, <2>3
<1> QED BY <1>1, <1>2 DEF CallsInv

LEMMA NothingWritten ==
  ASSUME RowsInv, UNCHANGED <<clock, credentials>>
  PROVE  RowsInv' /\ Grows
<1>1. clock \in Nat
  BY Assumptions DEF RowsInv
<1> QED BY <1>1 DEF RowsInv, Grows, Keeps, Issued, RowOK

LEMMA RowWritten ==
  ASSUME RowsInv, UNCHANGED clock, NEW id \in Ids, NEW row,
         RowOK(row, clock),
         Issued(id) => Keeps(credentials[id], row),
         credentials' = [credentials EXCEPT ![id] = row]
  PROVE  RowsInv' /\ Grows
<1>1. clock \in Nat
  BY Assumptions DEF RowsInv
<1>2. \A d \in Ids : credentials'[d] = IF d = id THEN row ELSE credentials[d]
  BY DEF RowsInv
<1>3. credentials' \in [Ids -> Credential \cup {None}]
  BY DEF RowsInv, RowOK
<1>4. row # None
  BY Assumptions DEF RowOK
<1> QED BY <1>1, <1>2, <1>3, <1>4 DEF RowsInv, Grows, Keeps, Issued

(* A call in the middle of a revocation or rotation. *)
LEMMA Managing ==
  ASSUME Inv, NEW c \in Calls, calls[c].pc \in {"rotate", "revoke"}
  PROVE  /\ calls[c].id \in Ids
         /\ Issued(calls[c].id)
         /\ credentials[calls[c].id].issuedAt <= calls[c].now
         /\ calls[c].now \in Nat
         /\ calls[c].now <= clock
         /\ clock \in Nat
         /\ RowOK(credentials[calls[c].id], clock)
<1>1. CallOK(calls[c]) /\ calls[c] # Idle
  BY DEF Inv, CallsInv, Idle
<1> QED BY <1>1, Assumptions DEF CallOK, Inv, RowsInv

LEMMA IdleOK ==
  CallOK(Idle) /\ CallOK(Idle)'
BY DEF CallOK

-----------------------------------------------------------------------------
(* The steps that write rows.                                              *)

LEMMA IssueInv ==
  ASSUME Inv, NEW c \in Calls, NEW id \in Ids, NEW profile \in Profiles,
         NEW lifetime \in Lifetimes, Issue(c, id, profile, lifetime)
  PROVE  Inv' /\ Grows
<1> DEFINE row == New(profile.subject, profile.scopes, None, clock, lifetime)
<1>1. clock \in Nat /\ lifetime \in Nat /\ lifetime > 0
      /\ profile.subject \in Subjects /\ profile.scopes \in SUBSET Scopes
  BY Assumptions DEF Inv, RowsInv
<1>2. RowOK(row, clock)
  <2>1. PolicyAdmits(profile.subject, profile.scopes)
    BY DEF Issue
  <2>2. None \in Ids \cup {None} /\ clock <= clock
    BY <1>1
  <2> QED BY <1>1, <2>1, <2>2, NewRow
<1> HIDE DEF row
<1>3. RowsInv' /\ Grows
  BY <1>2, RowWritten DEF Inv, Issue, row
<1>4. CallsInv'
  BY <1>3, IdleOK, OneCallMoves DEF Inv, Issue, Moves
<1> QED BY <1>3, <1>4 DEF Inv

LEMMA RevokeInv ==
  ASSUME Inv, NEW c \in Calls, RevokeWithAudit(c)
  PROVE  Inv' /\ Grows
<1>1. PICK call : call = calls[c]
  OBVIOUS
<1>2. calls[c].pc \in {"rotate", "revoke"}
  BY DEF RevokeWithAudit
<1>3. RowsInv' /\ Grows
  <2>1. CASE StillActive(call.id)
    <3>1. PICK row : row = Ends(credentials[call.id], call.now, None)
      OBVIOUS
    <3>2. RowOK(row, clock) /\ Keeps(credentials[call.id], row)
      BY <1>1, <1>2, <3>1, Managing, EndedRow
    <3>3. credentials' = [credentials EXCEPT ![call.id] = row]
      BY <1>1, <2>1, <3>1 DEF RevokeWithAudit
    <3> QED BY <1>1, <1>2, <3>2, <3>3, Managing, RowWritten
              DEF Inv, RevokeWithAudit
  <2>2. CASE ~StillActive(call.id)
    BY <1>1, <2>2, NothingWritten DEF Inv, RevokeWithAudit
  <2> QED BY <2>1, <2>2
<1>4. CallsInv'
  BY <1>3, IdleOK, OneCallMoves DEF Inv, RevokeWithAudit, Moves
<1> QED BY <1>3, <1>4 DEF Inv

(* The rows a rotation that goes through writes. *)
LEMMA Rotated ==
  ASSUME Inv, NEW c \in Calls, NEW id \in Ids, NEW lifetime \in Lifetimes,
         RotateWithAudit(c, id, lifetime), StillActive(calls[c].id),
         NEW from, from = calls[c].id
  PROVE  /\ from \in Ids /\ Issued(from) /\ from # id
         /\ credentials[from].status = "active"
         /\ \E row, new :
               /\ RowOK(row, clock) /\ Keeps(credentials[from], row)
               /\ row.status = "revoked"
               /\ RowOK(new, clock)
               /\ new.rotatedFrom = from /\ new.status = "active"
               /\ credentials' = [credentials EXCEPT ![from] = row,
                                                    ![id] = new]
<1>1. PICK call : call = calls[c]
  OBVIOUS
<1>2. PICK old : old = credentials[from]
  OBVIOUS
<1>3. call.pc \in {"rotate", "revoke"} /\ ~Issued(id)
  BY <1>1 DEF RotateWithAudit
<1>4. /\ from \in Ids /\ Issued(from) /\ from # id
      /\ old.issuedAt <= call.now /\ call.now \in Nat
      /\ call.now <= clock /\ clock \in Nat /\ RowOK(old, clock)
  BY <1>1, <1>2, <1>3, Managing
<1>5. old.status = "active"
  BY <1>2 DEF StillActive
<1>6. PICK row : row = Ends(old, call.now, id)
  OBVIOUS
<1>7. RowOK(row, clock) /\ Keeps(old, row) /\ row.status = "revoked"
  BY <1>4, <1>6, EndedRow
<1>8. PICK new : new = New(old.subject, old.scopes, from, call.now, lifetime)
  OBVIOUS
<1>9. /\ RowOK(new, clock) /\ new.rotatedFrom = from
      /\ new.status = "active"
  <2>1. old.subject \in Subjects /\ old.scopes \in SUBSET Scopes
        /\ PolicyAdmits(old.subject, old.scopes)
    BY <1>4 DEF RowOK, Credential, Valid, PolicyAdmits
  <2>2. lifetime \in Nat /\ lifetime > 0
    BY Assumptions
  <2> QED BY <1>4, <1>8, <2>1, <2>2, NewRow
<1>10. credentials' = [credentials EXCEPT ![from] = row, ![id] = new]
  BY <1>1, <1>2, <1>6, <1>8 DEF RotateWithAudit
<1> QED BY <1>2, <1>4, <1>5, <1>7, <1>9, <1>10

LEMMA RotateInv ==
  ASSUME Inv, NEW c \in Calls, NEW id \in Ids, NEW lifetime \in Lifetimes,
         RotateWithAudit(c, id, lifetime)
  PROVE  Inv' /\ Grows
<1>1. RowsInv' /\ Grows
  <2>1. CASE StillActive(calls[c].id)
    <3>1. PICK from : from = calls[c].id
      OBVIOUS
    <3>2. from \in Ids /\ Issued(from) /\ from # id
      BY <2>1, <3>1, Rotated
    <3>3. PICK row, new :
               /\ RowOK(row, clock) /\ Keeps(credentials[from], row)
               /\ row.status = "revoked"
               /\ RowOK(new, clock)
               /\ new.rotatedFrom = from /\ new.status = "active"
               /\ credentials' = [credentials EXCEPT ![from] = row,
                                                    ![id] = new]
      BY <2>1, <3>1, Rotated
    <3>4. \A d \in Ids : credentials'[d] = IF d = id THEN new
                           ELSE IF d = from THEN row ELSE credentials[d]
      BY <3>2, <3>3 DEF Inv, RowsInv
    <3>5. credentials' \in [Ids -> Credential \cup {None}]
      BY <3>3 DEF Inv, RowsInv, RowOK
    <3>6. row # None /\ new # None
      BY <3>3, Assumptions DEF RowOK
    <3>7. clock' = clock /\ clock \in Nat /\ ~Issued(id)
      BY Assumptions DEF Inv, RowsInv, RotateWithAudit
    <3> QED BY <3>2, <3>3, <3>4, <3>5, <3>6, <3>7
              DEF Inv, RowsInv, Grows, Keeps, Issued
  <2>2. CASE ~StillActive(calls[c].id)
    BY <2>2, NothingWritten DEF Inv, RotateWithAudit
  <2> QED BY <2>1, <2>2
<1>2. CallsInv'
  BY <1>1, IdleOK, OneCallMoves DEF Inv, RotateWithAudit, Moves
<1> QED BY <1>1, <1>2 DEF Inv

-----------------------------------------------------------------------------
(* The steps that write no row.                                            *)

LEMMA TickInv ==
  ASSUME Inv, Tick
  PROVE  Inv' /\ Grows
<1>1. clock \in Nat /\ clock' = clock + 1 /\ clock' \in 0 .. MaxClock
  BY Assumptions DEF Inv, RowsInv, Tick
<1>2. RowsInv' /\ Grows
  <2>1. ASSUME NEW id \in Ids, Issued(id)'
        PROVE  RowOK(credentials[id], clock)'
    <3>1. credentials'[id] = credentials[id] /\ Issued(id)
      BY <2>1 DEF Tick, Issued
    <3>2. PICK row : row = credentials[id]
      OBVIOUS
    <3>3. RowOK(row, clock)
      BY <3>1, <3>2 DEF Inv, RowsInv
    <3>4. row.issuedAt \in Nat
      BY <3>3 DEF RowOK, Credential
    <3>5. RowOK(row, clock')
      BY <1>1, <3>3, <3>4 DEF RowOK
    <3> QED BY <3>1, <3>2, <3>5
  <2> QED BY <1>1, <2>1 DEF Inv, RowsInv, Tick, Grows, Keeps, Issued
<1>3. ASSUME NEW c \in Calls PROVE CallOK(calls[c])'
  <2>1. PICK r : r = calls[c]
    OBVIOUS
  <2>2. CallOK(r)'
    BY <1>2, <2>1, CallsPersist DEF Inv, CallsInv
  <2> QED BY <2>1, <2>2 DEF Tick
<1> QED BY <1>2, <1>3 DEF Inv, CallsInv, Tick

LEMMA BeginAuthenticateInv ==
  ASSUME Inv, NEW c \in Calls, NEW id \in Ids, BeginAuthenticate(c, id)
  PROVE  Inv' /\ Grows
<1>1. RowsInv' /\ Grows
  BY NothingWritten DEF Inv, BeginAuthenticate
<1>2. PICK r : r = [pc |-> "authenticate", id |-> id, now |-> clock,
                    late |-> Issued(id)
                               /\ (credentials[id].status = "revoked"
                                    \/ clock >= credentials[id].expiresAt)]
  OBVIOUS
<1>3. r.late => Ended(id, clock)
  BY <1>2, Zenon DEF Ended, Expired
<1>4. r.pc = "authenticate" /\ r.id = id /\ r.now = clock
  BY <1>2
<1>5. Ended(id, clock) => Ended(id, clock)'
  BY DEF BeginAuthenticate, Ended, Issued, Expired
<1>6. CallOK(r)'
  BY <1>1, <1>3, <1>4, <1>5, Assumptions
  DEF CallOK, Inv, RowsInv, BeginAuthenticate, Ended, Issued, Expired
<1>7. Moves(c, r)
  BY <1>2, Zenon DEF BeginAuthenticate, Moves
<1>8. CallsInv'
  BY <1>1, <1>6, <1>7, OneCallMoves DEF Inv
<1> QED BY <1>1, <1>8 DEF Inv

LEMMA AuthenticateInv ==
  ASSUME Inv, NEW c \in Calls, NEW scope \in Scopes, NEW genuine \in BOOLEAN,
         Authenticate(c, scope, genuine)
  PROVE  Inv' /\ Grows
<1>1. RowsInv' /\ Grows
  BY NothingWritten DEF Inv, Authenticate
<1>2. PICK call : call = calls[c]
  OBVIOUS
<1>3. CASE Accepted(call, scope, genuine)
  <2>1. call.pc = "authenticate" /\ CallOK(call) /\ call # Idle
    BY <1>2 DEF Inv, CallsInv, Authenticate, Idle
  <2>2. call.late => Ended(call.id, call.now)
    BY <2>1 DEF CallOK
  <2>3. ~call.late
    BY <1>3, <2>2 DEF Accepted
  <2>4. PICK r : r = [pc |-> "principal", scope |-> scope, late |-> call.late]
    OBVIOUS
  <2>5. r.pc = "principal" /\ r.scope = scope /\ ~r.late
    BY <2>3, <2>4
  <2>6. CallOK(r)'
    BY <2>5 DEF CallOK
  <2>7. Moves(c, r)
    BY <1>2, <1>3, <2>4, Zenon DEF Authenticate, Moves
  <2>8. CallsInv'
    BY <1>1, <2>6, <2>7, OneCallMoves DEF Inv
  <2> QED BY <1>1, <2>8 DEF Inv
<1>4. CASE ~Accepted(call, scope, genuine)
  <2>1. Moves(c, Idle)
    BY <1>2, <1>4, Zenon DEF Authenticate, Moves
  <2>2. CallsInv'
    BY <1>1, <2>1, IdleOK, OneCallMoves DEF Inv
  <2> QED BY <1>1, <2>2 DEF Inv
<1> QED BY <1>3, <1>4

LEMMA BeginManagingInv ==
  ASSUME Inv, NEW c \in Calls, NEW id \in Ids,
         BeginRevoke(c, id) \/ BeginRotate(c, id)
  PROVE  Inv' /\ Grows
<1>1. RowsInv' /\ Grows
  BY NothingWritten DEF Inv, BeginRevoke, BeginRotate
<1>2. PICK r : /\ r.pc \in {"rotate", "revoke"} /\ r.id = id
               /\ r.now = clock /\ Moves(c, r)
  <2>1. CASE BeginRevoke(c, id)
    BY <2>1 DEF BeginRevoke, Moves
  <2>2. CASE BeginRotate(c, id)
    BY <2>2 DEF BeginRotate, Moves
  <2> QED BY <2>1, <2>2
<1>3. CallOK(r)'
  <2>1. /\ Issued(id) /\ UNCHANGED <<clock, credentials>>
        /\ credentials[id].issuedAt <= clock /\ clock \in Nat
    BY Assumptions DEF Inv, RowsInv, RowOK, BeginRevoke, BeginRotate
  <2> QED BY <1>2, <2>1 DEF CallOK, Issued
<1>4. CallsInv'
  BY <1>1, <1>2, <1>3, OneCallMoves DEF Inv
<1> QED BY <1>1, <1>4 DEF Inv

LEMMA ReturnInv ==
  ASSUME Inv, NEW c \in Calls, Return(c)
  PROVE  Inv' /\ Grows
<1>1. RowsInv' /\ Grows
  BY NothingWritten DEF Inv, Return
<1>2. CallsInv'
  BY <1>1, IdleOK, OneCallMoves DEF Inv, Return, Moves
<1> QED BY <1>1, <1>2 DEF Inv

-----------------------------------------------------------------------------

LEMMA InitInv == Init => Inv
<1> SUFFICES ASSUME Init PROVE Inv
  OBVIOUS
<1>1. clock \in 0 .. MaxClock
  BY Assumptions DEF Init
<1>2. RowsInv
  BY <1>1 DEF Init, RowsInv, Issued
<1>3. CallsInv
  BY DEF Init, CallsInv, CallOK
<1> QED BY <1>2, <1>3 DEF Inv

LEMMA NextInv == Inv /\ [Next]_vars => Inv'
<1> SUFFICES ASSUME Inv, [Next]_vars PROVE Inv'
  OBVIOUS
<1>1. CASE Tick
  BY <1>1, TickInv
<1>2. ASSUME NEW c \in Calls, CallStep(c) PROVE Inv'
  BY <1>2, BeginAuthenticateInv, AuthenticateInv, ReturnInv, IssueInv,
     BeginManagingInv, RevokeInv, RotateInv DEF CallStep
<1>3. CASE UNCHANGED vars
  <2>1. RowsInv' /\ Grows
    BY <1>3, NothingWritten DEF vars, Inv
  <2>2. ASSUME NEW c \in Calls PROVE CallOK(calls[c])'
    <3>1. PICK r : r = calls[c]
      OBVIOUS
    <3>2. CallOK(r)'
      BY <2>1, <3>1, CallsPersist DEF Inv, CallsInv
    <3> QED BY <1>3, <3>1, <3>2 DEF vars
  <2> QED BY <1>3, <2>1, <2>2 DEF vars, Inv, CallsInv
<1> QED BY <1>1, <1>2, <1>3 DEF Next

LEMMA InvTypeOK == Inv => TypeOK
<1> SUFFICES ASSUME Inv PROVE TypeOK
  OBVIOUS
<1>1. \A id \in Ids : Issued(id) =>
          credentials[id] \in Credential /\ Valid(credentials[id])
  BY DEF Inv, RowsInv, RowOK
<1>2. ASSUME NEW c \in Calls
      PROVE  \/ calls[c] = Idle
             \/ /\ calls[c].pc = "authenticate"
                /\ calls[c].id \in Ids
                /\ calls[c].now \in 0 .. clock
             \/ calls[c].pc = "principal" /\ calls[c].scope \in Scopes
             \/ /\ calls[c].pc \in {"rotate", "revoke"}
                /\ Issued(calls[c].id)
                /\ credentials[calls[c].id].issuedAt <= calls[c].now
                /\ calls[c].now \in 0 .. clock
  <2>1. CallOK(calls[c])
    BY DEF Inv, CallsInv
  <2> QED BY <2>1 DEF CallOK
<1> QED BY <1>1, <1>2, Zenon DEF TypeOK, Inv, RowsInv

LEMMA InvNeverLate == Inv => NeverAuthenticatedLate
<1> SUFFICES ASSUME Inv, NEW c \in Calls, calls[c].pc = "principal"
             PROVE  ~calls[c].late
  BY Zenon DEF NeverAuthenticatedLate
<1>1. CallOK(calls[c])
  BY DEF Inv, CallsInv
<1> QED BY <1>1 DEF CallOK, Idle

-----------------------------------------------------------------------------
(* Refinement: what Handover sees of the rows.                             *)

Spent == {id \in Ids : Issued(id)} \ Active

From == [id \in Ids |-> IF Issued(id) THEN credentials[id].rotatedFrom
                                       ELSE None]

LEMMA Unwritten ==
  ASSUME UNCHANGED credentials
  PROVE  UNCHANGED <<Active, Spent, From>>
BY DEF Active, Spent, From, Issued

LEMMA IssueHandsOut ==
  ASSUME Inv, NEW c \in Calls, NEW id \in Ids, NEW profile \in Profiles,
         NEW lifetime \in Lifetimes, Issue(c, id, profile, lifetime)
  PROVE  /\ id \notin Active \cup Spent
         /\ Active' = Active \cup {id}
         /\ UNCHANGED <<Spent, From>>
<1>1. PICK row :
        row = New(profile.subject, profile.scopes, None, clock, lifetime)
  OBVIOUS
<1>2. row.status = "active" /\ row.rotatedFrom = None /\ row # None
  <2>1. clock \in Nat /\ lifetime \in Nat /\ lifetime > 0
        /\ profile.subject \in Subjects /\ profile.scopes \in SUBSET Scopes
        /\ clock <= clock /\ None \in Ids \cup {None}
    BY Assumptions DEF Inv, RowsInv
  <2>2. PolicyAdmits(profile.subject, profile.scopes)
    BY DEF Issue
  <2>3. RowOK(New(profile.subject, profile.scopes, None, clock, lifetime),
              clock)
    BY <2>1, <2>2, NewRow
  <2>4. /\ row.rotatedFrom = None /\ row.status = "active"
    BY <1>1 DEF New
  <2> QED BY <1>1, <2>3, <2>4, Assumptions DEF RowOK
<1>3. \A d \in Ids : credentials'[d] = IF d = id THEN row ELSE credentials[d]
  BY <1>1 DEF Issue, Inv, RowsInv
<1>4. ~Issued(id)
  BY DEF Issue
<1> QED BY <1>2, <1>3, <1>4 DEF Active, Spent, From, Issued

LEMMA RevokeEnds ==
  ASSUME Inv, NEW c \in Calls, RevokeWithAudit(c), StillActive(calls[c].id),
         NEW old, old = calls[c].id
  PROVE  /\ old \in Ids /\ old \in Active
         /\ Active' = Active \ {old}
         /\ Spent' = Spent \cup {old}
         /\ UNCHANGED From
<1>1. calls[c].pc \in {"rotate", "revoke"}
  BY DEF RevokeWithAudit
<1>2. PICK row : row = Ends(credentials[old], calls[c].now, None)
  OBVIOUS
<1>3. /\ old \in Ids /\ Issued(old) /\ RowOK(row, clock)
      /\ Keeps(credentials[old], row) /\ row.status = "revoked"
  BY <1>1, <1>2, Managing, EndedRow
<1>4. credentials' = [credentials EXCEPT ![old] = row]
  BY <1>2 DEF RevokeWithAudit
<1>5. \A d \in Ids : credentials'[d] = IF d = old THEN row ELSE credentials[d]
  BY <1>3, <1>4 DEF Inv, RowsInv
<1>6. credentials[old].status = "active"
  BY DEF StillActive
<1> QED BY <1>3, <1>5, <1>6 DEF Active, Spent, From, Issued, Keeps

LEMMA RotateHandsOver ==
  ASSUME Inv, NEW c \in Calls, NEW id \in Ids, NEW lifetime \in Lifetimes,
         RotateWithAudit(c, id, lifetime), StillActive(calls[c].id),
         NEW old, old = calls[c].id
  PROVE  /\ old \in Ids /\ old \in Active
         /\ id \notin Active \cup Spent
         /\ Active' = (Active \ {old}) \cup {id}
         /\ Spent' = Spent \cup {old}
         /\ From' = [From EXCEPT ![id] = old]
<1>1. /\ old \in Ids /\ Issued(old) /\ old # id
      /\ credentials[old].status = "active"
  BY Rotated
<1>2. PICK row, new :
         /\ RowOK(row, clock) /\ Keeps(credentials[old], row)
         /\ row.status = "revoked"
         /\ RowOK(new, clock)
         /\ new.rotatedFrom = old /\ new.status = "active"
         /\ credentials' = [credentials EXCEPT ![old] = row, ![id] = new]
  BY Rotated
<1>3. \A d \in Ids : credentials'[d] = IF d = id THEN new
                       ELSE IF d = old THEN row ELSE credentials[d]
  BY <1>1, <1>2 DEF Inv, RowsInv
<1>4. ~Issued(id) /\ new # None
  BY <1>2, Assumptions DEF RotateWithAudit, RowOK
<1>5. /\ row # None /\ row.status = "revoked"
      /\ row.rotatedFrom = credentials[old].rotatedFrom
      /\ new.rotatedFrom = old /\ new.status = "active"
  BY <1>2 DEF Keeps
<1>6. old \in Active /\ id \notin Active \cup Spent
  BY <1>1, <1>4 DEF Active, Spent
<1>7. Active' = (Active \ {old}) \cup {id} /\ Spent' = Spent \cup {old}
  BY <1>1, <1>3, <1>4, <1>5 DEF Active, Spent, Issued
<1>8. From' = [From EXCEPT ![id] = old]
  BY <1>1, <1>3, <1>4, <1>5 DEF From, Issued
<1> QED BY <1>1, <1>6, <1>7, <1>8

LEMMA InitHandover == Init => Successors!Init
BY DEF Init, Successors!Init, Active, Issued

LEMMA StepHandover ==
  Inv /\ [Next]_vars => [Successors!Next]_(Successors!vars)
<1> SUFFICES ASSUME Inv, [Next]_vars
             PROVE  [Successors!Next]_(Successors!vars)
  OBVIOUS
<1>1. ASSUME UNCHANGED credentials PROVE UNCHANGED Successors!vars
  BY <1>1, Unwritten DEF Successors!vars, Spent, From
<1>2. CASE Tick \/ UNCHANGED vars
  BY <1>1, <1>2 DEF Tick, vars
<1>3. ASSUME NEW c \in Calls, CallStep(c)
      PROVE  Successors!Next \/ UNCHANGED Successors!vars
  <2>1. ASSUME NEW id \in Ids, NEW profile \in Profiles,
               NEW lifetime \in Lifetimes, Issue(c, id, profile, lifetime)
        PROVE  Successors!Next
    BY <2>1, IssueHandsOut
    DEF Successors!Next, Successors!Issue, Successors!Fresh, Spent, From
  <2>2. CASE RevokeWithAudit(c) /\ StillActive(calls[c].id)
    BY <2>2, RevokeEnds DEF Successors!Next, Successors!End, Spent, From
  <2>3. ASSUME NEW id \in Ids, NEW lifetime \in Lifetimes,
               RotateWithAudit(c, id, lifetime), StillActive(calls[c].id)
        PROVE  Successors!Next
    <3>1. PICK old : old = calls[c].id
      OBVIOUS
    <3>2. /\ old \in Ids /\ old \in Active
          /\ id \notin Active \cup Spent
          /\ Active' = (Active \ {old}) \cup {id}
          /\ Spent' = Spent \cup {old}
          /\ From' = [From EXCEPT ![id] = old]
      BY <2>3, <3>1, RotateHandsOver
    <3>3. Successors!HandOver(old, id)
      BY <3>2 DEF Successors!HandOver, Successors!Fresh, Spent, From
    <3> QED BY <3>2, <3>3 DEF Successors!Next
  <2>4. CASE ~StillActive(calls[c].id)
             /\ (RevokeWithAudit(c)
                  \/ \E id \in Ids, lifetime \in Lifetimes :
                        RotateWithAudit(c, id, lifetime))
    BY <1>1, <2>4 DEF RevokeWithAudit, RotateWithAudit
  <2>5. CASE \/ \E id \in Ids : BeginAuthenticate(c, id)
             \/ \E scope \in Scopes, genuine \in BOOLEAN :
                    Authenticate(c, scope, genuine)
             \/ Return(c)
             \/ \E id \in Ids : BeginRevoke(c, id) \/ BeginRotate(c, id)
    BY <1>1, <2>5, Zenon
    DEF BeginAuthenticate, Authenticate, Return, BeginRevoke, BeginRotate
  <2> QED BY <1>3, <2>1, <2>2, <2>3, <2>4, <2>5 DEF CallStep
<1> QED BY <1>2, <1>3 DEF Next

-----------------------------------------------------------------------------

(* The rows and calls of CredentialService are always well typed, and      *)
(* every row is one Credential.__post_init__ restores.                     *)
THEOREM TypeCorrect == Spec => []TypeOK
<1>1. Spec => []Inv
  BY InitInv, NextInv, PTL DEF Spec
<1> QED BY <1>1, InvTypeOK, PTL

(* No request that begins after its Credential was revoked or expired is   *)
(* authenticated (CredentialService.authenticate).                         *)
THEOREM NeverLate == Spec => []NeverAuthenticatedLate
<1>1. Spec => []Inv
  BY InitInv, NextInv, PTL DEF Spec
<1> QED BY <1>1, InvNeverLate, PTL

(* Rotations and revocations that overlap leave every chain of rotations   *)
(* with one end (rotate_with_audit, revoke_with_audit).                    *)
THEOREM RotationHandsOver == Spec => ImplementsHandover
<1>1. Spec => []Inv
  BY InitInv, NextInv, PTL DEF Spec
<1> QED BY <1>1, InitHandover, StepHandover, PTL
        DEF Spec, ImplementsHandover, Successors!Spec
=============================================================================
