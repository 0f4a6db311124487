---------------------------- MODULE Credentials ----------------------------
(***************************************************************************)
(* The life of Credentials (CredentialService,                             *)
(* PrincipalCredentialManagementService, SQLiteCredentialRepository):      *)
(* calls authenticate with a token, and what they may manage they issue,   *)
(* rotate and revoke.  The service reads the Credential first and writes   *)
(* in a transaction of its own.                                            *)
(*                                                                         *)
(* One Owner with its Agents, whose bindings never change; the keyring of  *)
(* the server knows every key.  The audit events are left out.             *)
(***************************************************************************)
EXTENDS Integers

CONSTANTS
    Ids,        \* Credential ids
    Calls,      \* concurrent calls of the service
    Profiles,   \* subjects and scopes Credentials are asked for
    Lifetimes,  \* lifetimes the policy admits
    MaxClock,   \* bound: the clock stops here
    None

Subjects == {"owner", "agent"}

Scopes == {"session:read", "credentials:manage"}

OwnerOnlyScopes == {"credentials:manage"}

ASSUME ProfilesAssumption ==
    Profiles \subseteq [subject: Subjects, scopes: SUBSET Scopes]
ASSUME LifetimesAssumption == Lifetimes \subseteq Nat \ {0}
ASSUME ClockAssumption == MaxClock \in Nat
VARIABLES
    clock,
    credentials,    \* tas_credentials and their scopes, by id
    calls           \* local state of each call

vars == <<clock, credentials, calls>>

(* A row with its sealed scopes; why it was revoked is left out.           *)
Credential ==
    [subject: Subjects, scopes: SUBSET Scopes, issuedAt: Nat, expiresAt: Nat,
     status: {"active", "revoked"}, revokedAt: Nat \cup {None},
     rotatedFrom: Ids \cup {None}, replacedBy: Ids \cup {None}]

ASSUME NoneAssumption == None \notin Ids \cup Nat \cup Credential

(* What Credential.__post_init__ and the CHECKs of the table require.      *)
Valid(row) ==
    /\ row.scopes # {}
    /\ row.subject = "agent" => row.scopes \cap OwnerOnlyScopes = {}
    /\ row.issuedAt < row.expiresAt
    /\ row.status = "active" <=> row.revokedAt = None
    /\ row.status = "active" => row.replacedBy = None
    /\ row.revokedAt # None => row.issuedAt <= row.revokedAt

Issued(id) == credentials[id] # None

(* "late" is a history variable: the Credential had ended before the call  *)
(* that presents it began.                                                 *)
Idle == [pc |-> "idle"]

TypeOK ==
    /\ clock \in 0 .. MaxClock
    /\ \A id \in Ids :
        Issued(id) => credentials[id] \in Credential /\ Valid(credentials[id])
    /\ \A c \in Calls :
        \/ calls[c] = Idle
        \/ /\ calls[c].pc = "authenticate"
           /\ calls[c].id \in Ids
           /\ calls[c].now \in 0 .. clock
        \/ calls[c].pc = "principal" /\ calls[c].scope \in Scopes
        \/ /\ calls[c].pc \in {"rotate", "revoke"}
           /\ Issued(calls[c].id)
           /\ credentials[calls[c].id].issuedAt <= calls[c].now
           /\ calls[c].now \in 0 .. clock

Init ==
    /\ clock = 0
    /\ credentials = [id \in Ids |-> None]
    /\ calls = [c \in Calls |-> Idle]

Tick ==
    /\ clock < MaxClock
    /\ clock' = clock + 1
    /\ UNCHANGED <<credentials, calls>>

(***************************************************************************)
(* authenticate                                                            *)
(***************************************************************************)

(* Mutant: a Credential is still good at the instant it expires. *)
ExpiredMutant(row, now) == now > row.expiresAt

(* Credential.effective_status *)
Expired(row, now) == now >= row.expiresAt

Ended(id, now) ==
    Issued(id) /\ (credentials[id].status = "revoked"
                    \/ Expired(credentials[id], now))

(* The clock is read before the row; the id may be one never issued.       *)
BeginAuthenticate(c, id) ==
    /\ calls[c] = Idle
    /\ calls' = [calls EXCEPT ![c] =
                   [pc |-> "authenticate", id |-> id, now |-> clock,
                    late |-> Issued(id)
                               /\ (credentials[id].status = "revoked"
                                    \/ clock >= credentials[id].expiresAt)]]
    /\ UNCHANGED <<clock, credentials>>

(* The secret of the token is the one issued or not; Owner and Agent stay  *)
(* bound, so that binding_valid holds.                                     *)
Accepted(call, scope, genuine) ==
    /\ Issued(call.id)
    /\ ~Ended(call.id, call.now)
    /\ genuine
    /\ scope \in credentials[call.id].scopes

Authenticate(c, scope, genuine) ==
    LET call == calls[c]
    IN  /\ call.pc = "authenticate"
        /\ calls' = [calls EXCEPT ![c] =
                       IF Accepted(call, scope, genuine)
                       THEN [pc |-> "principal", scope |-> scope,
                             late |-> call.late]
                       ELSE Idle]
        /\ UNCHANGED <<clock, credentials>>

(* The Principal is dropped with the request.                              *)
Return(c) ==
    /\ calls[c].pc = "principal"
    /\ calls' = [calls EXCEPT ![c] = Idle]
    /\ UNCHANGED <<clock, credentials>>

(***************************************************************************)
(* Management.  The actor is the system, or an Owner's Principal with the  *)
(* scope for it: its Credential is not looked at again.                    *)
(***************************************************************************)

Manages(c) ==
    \/ calls[c] = Idle
    \/ /\ calls[c].pc = "principal"
       /\ calls[c].scope = "credentials:manage"

(* Mutant: scopes only an Owner may hold are not looked for. *)
PolicyAdmitsMutant(subject, scopes) == scopes # {}

(* _validate_policy *)
PolicyAdmits(subject, scopes) ==
    /\ scopes # {}
    /\ subject = "agent" => scopes \cap OwnerOnlyScopes = {}

New(subject, scopes, from, now, lifetime) ==
    [subject |-> subject, scopes |-> scopes, issuedAt |-> now,
     expiresAt |-> now + lifetime, status |-> "active", revokedAt |-> None,
     rotatedFrom |-> from, replacedBy |-> None]

Issue(c, id, profile, lifetime) ==
    /\ Manages(c)
    /\ PolicyAdmits(profile.subject, profile.scopes)
    /\ ~Issued(id)
    /\ credentials' = [credentials EXCEPT ![id] =
                         New(profile.subject, profile.scopes, None, clock,
                             lifetime)]
    /\ calls' = [calls EXCEPT ![c] = Idle]
    /\ UNCHANGED clock

(* get, before the transaction; a rotation stops at a revoked one.         *)
BeginRevoke(c, id) ==
    /\ Manages(c)
    /\ Issued(id)
    /\ calls' = [calls EXCEPT ![c] = [pc |-> "revoke", id |-> id,
                                      now |-> clock]]
    /\ UNCHANGED <<clock, credentials>>

BeginRotate(c, id) ==
    /\ Manages(c)
    /\ Issued(id)
    /\ credentials[id].status = "active"
    /\ calls' = [calls EXCEPT ![c] = [pc |-> "rotate", id |-> id,
                                      now |-> clock]]
    /\ UNCHANGED <<clock, credentials>>

(* Mutant: the transaction relies on what the service read. *)
StillActiveMutant(id) == Issued(id)

(* The row is read again in the transaction, and the UPDATE names it.      *)
StillActive(id) == Issued(id) /\ credentials[id].status = "active"

Ends(row, now, successor) ==
    [row EXCEPT !.status = "revoked", !.revokedAt = now,
                !.replacedBy = successor]

(* Otherwise the call ends in a conflict.                                  *)
RevokeWithAudit(c) ==
    LET call == calls[c]
    IN  /\ call.pc = "revoke"
        /\ credentials' =
             IF StillActive(call.id)
             THEN [credentials EXCEPT ![call.id] = Ends(@, call.now, None)]
             ELSE credentials
        /\ calls' = [calls EXCEPT ![c] = Idle]
        /\ UNCHANGED clock

RotateWithAudit(c, id, lifetime) ==
    LET call == calls[c]
        old == credentials[call.id]
    IN  /\ call.pc = "rotate"
        /\ ~Issued(id)
        /\ credentials' =
             IF StillActive(call.id)
             THEN [credentials EXCEPT
                     ![call.id] = Ends(old, call.now, id),
                     ![id] = New(old.subject, old.scopes, call.id, call.now,
                                 lifetime)]
             ELSE credentials
        /\ calls' = [calls EXCEPT ![c] = Idle]
        /\ UNCHANGED clock

CallStep(c) ==
    \/ \E id \in Ids : BeginAuthenticate(c, id)
    \/ \E scope \in Scopes, genuine \in BOOLEAN : Authenticate(c, scope, genuine)
    \/ Return(c)
    \/ \E id \in Ids, profile \in Profiles, lifetime \in Lifetimes :
            Issue(c, id, profile, lifetime)
    \/ \E id \in Ids : BeginRevoke(c, id) \/ BeginRotate(c, id)
    \/ RevokeWithAudit(c)
    \/ \E id \in Ids, lifetime \in Lifetimes : RotateWithAudit(c, id, lifetime)

Next == Tick \/ \E c \in Calls : CallStep(c)

Spec == Init /\ [][Next]_vars

(***************************************************************************)
(* Properties                                                              *)
(***************************************************************************)

(* A request that begins when its Credential is revoked or expired is not  *)
(* authenticated, whatever is rotated and revoked while it is on its way   *)
(* (CredentialService.authenticate reads the clock before the row).        *)
NeverAuthenticatedLate ==
    \A c \in Calls : calls[c].pc = "principal" => ~calls[c].late

Active == {id \in Ids : Issued(id) /\ credentials[id].status = "active"}

Successors == INSTANCE Handover WITH
    live <- Active,
    spent <- {id \in Ids : Issued(id)} \ Active,
    from <- [id \in Ids |-> IF Issued(id) THEN credentials[id].rotatedFrom
                                          ELSE None]

(* Rotations and revocations that overlap leave every chain of rotations   *)
(* with one end: a Credential hands over to one other or to none, and a    *)
(* revoked one neither comes back nor gets a successor                     *)
(* (credential_repository.py rotate_with_audit, revoke_with_audit).        *)
ImplementsHandover == Successors!Spec
=============================================================================
