------------------------- MODULE ConsumeGrantProofs -------------------------
(***************************************************************************)
(* Proofs about ConsumeGrant, for any number of Approvals, calls and       *)
(* repositories, whatever else is in the audit trail.                      *)
(*                                                                         *)
(* LedgersAgree rests on what a call knows when it writes one of the       *)
(* three: Inv says it of every call (Knows).  It stays true while others   *)
(* write because row, receipt and trail only grow (Grows).                 *)
(*                                                                         *)
(* PagesAreExact rests on PageIsExact: what a page takes of a resource is  *)
(* what there is up to the next cursor, whatever the page size.            *)
(***************************************************************************)
EXTENDS ConsumeGrant, TLAPS, FiniteSetTheorems, WellFoundedInduction

Knows(r) ==
    /\ r.pc \in {"find again", "execute"} =>
            row[r.approval] # None /\ row[r.approval].asked = r.asked
    /\ r.pc = "complete" =>
            r.receipt # None /\ r.receipt = receipts[r.approval]
    /\ r.pc \in {"look", "add", "mark"} =>
            row[r.approval] # None /\ row[r.approval].receipt # None
    /\ r.pc = "mark" => CompletionEvents(r.approval) # {}

CallOK(r) == r = None \/ r = Over \/ (r \in Call /\ Knows(r))

Agrees(a) ==
    /\ executions[a] = IF receipts[a] = None THEN 0 ELSE 1
    /\ receipts[a] # None =>
          row[a] # None /\ row[a].asked = receipts[a].asked
    /\ row[a] # None => row[a].receipt \in {None, receipts[a]}

Told(a) ==
    /\ \A j, k \in CompletionEvents(a) : j = k
    /\ \A k \in CompletionEvents(a) :
          /\ row[a] # None /\ row[a].receipt # None
          /\ log[k].kind = Completion(row[a].source)
    /\ row[a] # None /\ row[a].audited => CompletionEvents(a) # {}

WorldInv ==
    /\ clock \in Nat
    /\ policy \in Versions
    /\ decision \in [Approvals -> Decision \cup {None}]
    /\ related \subseteq Approvals
    /\ resource \in [Repositories -> Revisions]
    /\ members \subseteq Owners

StoreInv ==
    /\ receipts \in [Approvals -> Receipt \cup {None}]
    /\ executions \in [Approvals -> Nat]
    /\ row \in [Approvals -> Row \cup {None}]
    /\ log \in Seq(Event)
    /\ \A a \in Approvals : Agrees(a) /\ Told(a)

CallsInv ==
    /\ call = [c \in Calls |-> call[c]]
    /\ \A c \in Calls : CallOK(call[c])

Inv == WorldInv /\ StoreInv /\ CallsInv

(* What no step takes back. *)
Grows ==
    \A a \in Approvals :
        /\ receipts[a] # None => receipts'[a] = receipts[a]
        /\ row[a] # None =>
              /\ row'[a] # None
              /\ row'[a].asked = row[a].asked
              /\ row[a].receipt # None =>
                    /\ row'[a].receipt = row[a].receipt
                    /\ row'[a].source = row[a].source
        /\ CompletionEvents(a) \subseteq CompletionEvents(a)'

FreePcs == {"approval", "grant", "find", "check", "preconditions", "reserve",
            "reject", "unknown"}

Pcs == FreePcs \cup {"find again", "execute", "complete", "look", "add",
                     "mark"}

Moves(c, r) == call' = [call EXCEPT ![c] = r]

(* What OneShot sees of row and executor. *)
Phases == [a \in Approvals |-> Phase(a)]

Performs == [a \in Approvals |-> receipts[a] # None]

-----------------------------------------------------------------------------

LEMMA Nones ==
  /\ None # Over /\ None \notin Receipt /\ None \notin Row /\ None \notin Call
  /\ None \notin Approvals
  /\ \A a \in Approvals : a \in Subjects /\ RepositoryOf[a] \in Resources
BY NoneAssumption, ConsumeAssumption

LEMMA OverIsNoCall == Over \notin Call
BY DEF Over, Call

LEMMA CallsPersist ==
  ASSUME Grows, NEW r, CallOK(r)
  PROVE  CallOK(r)'
<1>1. CASE r = None \/ r = Over
  BY <1>1 DEF CallOK
<1>2. CASE r \in Call /\ Knows(r)
  <2>1. r.approval \in Approvals
    BY <1>2 DEF Call
  <2>2. PICK a : a = r.approval
    OBVIOUS
  <2>3. CompletionEvents(a) # {} => CompletionEvents(a)' # {}
    BY <2>1, <2>2 DEF Grows
  <2>4. Knows(r)'
    BY <1>2, <2>1, <2>2, <2>3 DEF Knows, Grows
  <2> QED BY <1>2, <2>4 DEF CallOK
<1> QED BY <1>1, <1>2 DEF CallOK

LEMMA OneCallMoves ==
  ASSUME CallsInv, Grows, NEW c \in Calls, NEW r, Moves(c, r), CallOK(r)'
  PROVE  CallsInv'
<1>1. call' = [d \in Calls |-> call'[d]]
  BY DEF CallsInv, Moves
<1>2. ASSUME NEW d \in Calls PROVE CallOK(call[d])'
  <2>1. PICK s : s = call'[d]
    OBVIOUS
  <2>2. s = r \/ s = call[d]
    BY <2>1 DEF CallsInv, Moves
  <2>3. CallOK(s)'
    BY <2>2, CallsPersist DEF CallsInv
  <2> QED BY <2>1, <2>3
<1> QED BY <1>1, <1>2 DEF CallsInv

LEMMA NoCallMoves ==
  ASSUME CallsInv, Grows, UNCHANGED call
  PROVE  CallsInv'
<1>1. ASSUME NEW d \in Calls PROVE CallOK(call[d])'
  <2>1. PICK s : s = call[d]
    OBVIOUS
  <2>2. CallOK(s)'
    BY <2>1, CallsPersist DEF CallsInv
  <2> QED BY <2>1, <2>2
<1> QED BY <1>1 DEF CallsInv

(* A call that is over, and one that only goes on. *)
LEMMA CallEnds ==
  ASSUME CallsInv, Grows, NEW c \in Calls, Ends(c)
  PROVE  CallsInv'
<1>1. CallOK(Over)'
  BY DEF CallOK
<1> QED BY <1>1, OneCallMoves DEF Ends, Moves

LEMMA CallGoes ==
  ASSUME CallsInv, NEW c \in Calls, call[c] \in Call,
         NEW pc \in Pcs, Goes(c, pc)
  PROVE  \E r \in Call : /\ r.pc = pc /\ Moves(c, r)
                         /\ r.approval = call[c].approval
                         /\ r.asked = call[c].asked
                         /\ r.receipt = call[c].receipt
                         /\ r.source = call[c].source
<1>1. PICK old : old = call[c]
  OBVIOUS
<1>2. PICK r : r = [old EXCEPT !.pc = pc]
  OBVIOUS
<1>3. /\ r \in Call /\ r.pc = pc /\ r.approval = old.approval
      /\ r.asked = old.asked /\ r.receipt = old.receipt
      /\ r.source = old.source
  BY <1>1, <1>2 DEF Call, Pcs, FreePcs
<1>4. Moves(c, r)
  BY <1>1, <1>2 DEF Goes, Moves
<1> QED BY <1>1, <1>3, <1>4

(* A call that goes where nothing need be known of. *)
LEMMA CallGoesFreely ==
  ASSUME CallsInv, Grows, NEW c \in Calls, call[c] \in Call,
         NEW pc \in FreePcs, Goes(c, pc)
  PROVE  CallsInv'
<1>1. PICK r \in Call : r.pc = pc /\ Moves(c, r)
  <2>1. pc \in Pcs
    BY DEF Pcs
  <2> QED BY <2>1, CallGoes
<1>2. CallOK(r)'
  BY <1>1 DEF CallOK, Knows, FreePcs
<1> QED BY <1>1, <1>2, OneCallMoves

LEMMA Running ==
  ASSUME CallsInv, NEW c \in Calls, call[c] # None, call[c] # Over
  PROVE  /\ call[c] \in Call /\ Knows(call[c])
         /\ call[c].approval \in Approvals
         /\ call[c].asked \in Revisions
         /\ call[c].receipt \in Receipt \cup {None}
         /\ call[c].source \in Sources \cup {None}
<1>1. call[c] \in Call /\ Knows(call[c])
  BY DEF CallsInv, CallOK
<1> QED BY <1>1 DEF Call

LEMMA RunningAt ==
  ASSUME CallsInv, NEW c \in Calls, NEW pc, At(c, pc), pc # "over"
  PROVE  /\ call[c] \in Call /\ Knows(call[c]) /\ call[c].pc = pc
         /\ call[c].approval \in Approvals
         /\ call[c].asked \in Revisions
         /\ call[c].receipt \in Receipt \cup {None}
         /\ call[c].source \in Sources \cup {None}
<1>1. call[c] # None /\ call[c].pc = pc /\ call[c] # Over
  BY DEF At, Over
<1> QED BY <1>1, Running

-----------------------------------------------------------------------------
(* What happens to row, executor and trail.                                *)

LEMMA Quiet ==
  ASSUME StoreInv, UNCHANGED <<row, executorVars, log>>
  PROVE  StoreInv' /\ Grows /\ UNCHANGED <<Phases, Performs>>
BY DEF StoreInv, Grows, executorVars, Agrees, Told, CompletionEvents, Phases,
       Performs, Phase

LEMMA Appended ==
  ASSUME log \in Seq(Event), NEW e \in Event, log' = Append(log, e), NEW a
  PROVE  /\ log' \in Seq(Event)
         /\ CompletionEvents(a)' =
              CompletionEvents(a) \cup
                {k \in {Len(log) + 1} :
                    e.subject = a /\ e.kind \in Completions}
         /\ \A k \in CompletionEvents(a) : log'[k] = log[k]
         /\ log'[Len(log) + 1] = e
<1>1. /\ log' \in Seq(Event) /\ Len(log) \in Nat /\ Len(log') = Len(log) + 1
      /\ log'[Len(log) + 1] = e
      /\ \A k \in 1 .. Len(log) : log'[k] = log[k]
  OBVIOUS
<1>2. 1 .. Len(log') = 1 .. Len(log) \cup {Len(log) + 1}
  BY <1>1
<1> QED BY <1>1, <1>2 DEF CompletionEvents

(* An event that says of no grant that it was consumed. *)
LEMMA Logged ==
  ASSUME StoreInv, UNCHANGED <<row, executorVars>>,
         NEW kind, NEW r, NEW s, Recorded(kind, r, s),
         kind \in Kinds \ Completions,
         r \in Resources \cup {None}, s \in Subjects \cup {None}
  PROVE  StoreInv' /\ Grows /\ UNCHANGED <<Phases, Performs>>
<1>1. PICK e : e = [kind |-> kind, resource |-> r, subject |-> s]
  OBVIOUS
<1>2. e \in Event /\ e.kind \notin Completions /\ log' = Append(log, e)
  BY <1>1 DEF Event, Recorded
<1>3. log \in Seq(Event)
  BY DEF StoreInv
<1>4. log' \in Seq(Event)
  BY <1>2, <1>3, Appended
<1>5. ASSUME NEW a \in Approvals
      PROVE  /\ CompletionEvents(a)' = CompletionEvents(a)
             /\ \A k \in CompletionEvents(a) : log'[k] = log[k]
  <2>1. /\ CompletionEvents(a)' =
             CompletionEvents(a) \cup
               {k \in {Len(log) + 1} :
                   e.subject = a /\ e.kind \in Completions}
        /\ \A k \in CompletionEvents(a) : log'[k] = log[k]
    BY <1>2, <1>3, Appended
  <2>2. \A k : ~(e.subject = a /\ e.kind \in Completions)
    BY <1>2
  <2> QED BY <2>1, <2>2
<1>6. ASSUME NEW a \in Approvals PROVE Agrees(a)' /\ Told(a)'
  <2>1. Agrees(a) /\ Told(a) /\ row'[a] = row[a] /\ receipts'[a] = receipts[a]
        /\ executions'[a] = executions[a]
    BY DEF StoreInv, executorVars
  <2>2. Agrees(a)'
    BY <2>1 DEF Agrees
  <2>3. Told(a)'
    BY <1>5, <2>1 DEF Told
  <2> QED BY <2>2, <2>3
<1>7. Grows
  BY <1>5 DEF Grows, executorVars
<1> QED BY <1>4, <1>6, <1>7
        DEF StoreInv, executorVars, Phases, Performs, Phase

LEMMA OtherKinds ==
  /\ "authorization_decision" \in Kinds \ Completions
  /\ "action_grant_rejected" \in Kinds \ Completions
  /\ "action_result_unknown" \in Kinds \ Completions
  /\ \A s : Completion(s) \in Kinds \cap Completions
<1>1. Completions = {"action_receipt_reconciled", "action_grant_consumed"}
  BY DEF Completions, Completion, Sources
<1> QED BY <1>1 DEF Kinds, Completion

-----------------------------------------------------------------------------
(* The steps of a call.                                                    *)

LEMMA WorldStays ==
  ASSUME WorldInv, UNCHANGED <<worldVars, resource, members>>
  PROVE  WorldInv'
BY DEF WorldInv, worldVars

LEMMA ReadingSteps ==
  ASSUME Inv, NEW c \in Calls, ReadApproval(c) \/ ReadGrant(c)
  PROVE  Inv' /\ UNCHANGED <<Phases, Performs>>
<1>1. StoreInv' /\ Grows /\ UNCHANGED <<Phases, Performs>>
  BY Quiet DEF Inv, ReadApproval, ReadGrant, server, trailVars
<1>2. WorldInv'
  BY WorldStays DEF Inv, ReadApproval, ReadGrant, server, trailVars, readerVars
<1>3. CASE ReadApproval(c)
  <2>1. call[c] \in Call
    BY <1>3, RunningAt DEF Inv, ReadApproval
  <2>2. Goes(c, "grant") \/ Goes(c, "reject")
    BY <1>3 DEF ReadApproval
  <2>3. CallsInv'
    BY <1>1, <2>1, <2>2, CallGoesFreely DEF Inv, FreePcs
  <2> QED BY <1>1, <1>2, <2>3 DEF Inv
<1>4. CASE ReadGrant(c)
  <2>1. call[c] \in Call /\ call[c].approval \in Approvals
    BY <1>4, RunningAt DEF Inv, ReadGrant
  <2>2. CASE Goes(c, "check") \/ Goes(c, "reject") \/ Goes(c, "find")
    BY <1>1, <1>2, <2>1, <2>2, CallGoesFreely DEF Inv, FreePcs
  <2>3. CASE /\ RowOf(c) # None /\ RowOf(c).receipt # None
             /\ Goes(c, "look")
    <3>0. "look" \in Pcs
      BY DEF Pcs
    <3>1. PICK r \in Call : r.pc = "look" /\ Moves(c, r)
                            /\ r.approval = call[c].approval
      BY <2>1, <2>3, <3>0, CallGoes DEF Inv
    <3>2. CallOK(r)'
      BY <1>4, <2>1, <2>3, <3>1 DEF CallOK, Knows, RowOf, ReadGrant, server
    <3>3. CallsInv'
      BY <1>1, <3>1, <3>2, OneCallMoves DEF Inv
    <3> QED BY <1>1, <1>2, <3>3 DEF Inv
  <2> QED BY <1>4, <2>2, <2>3 DEF ReadGrant, Resumes
<1> QED BY <1>3, <1>4

LEMMA FindReceiptStep ==
  ASSUME Inv, NEW c \in Calls, FindReceipt(c)
  PROVE  Inv' /\ UNCHANGED <<Phases, Performs>>
<1>1. StoreInv' /\ Grows /\ UNCHANGED <<Phases, Performs>>
  BY Quiet DEF Inv, FindReceipt, server, trailVars
<1>2. WorldInv'
  BY WorldStays DEF Inv, FindReceipt, server, trailVars, readerVars
<1>3. call[c] \in Call /\ Knows(call[c]) /\ call[c].approval \in Approvals
      /\ call[c].pc \in {"find", "find again"}
  BY RunningAt DEF Inv, FindReceipt
<1>4. CallsInv'
  <2>1. CASE Goes(c, "unknown") \/ Goes(c, "check")
    BY <1>1, <1>3, <2>1, CallGoesFreely DEF Inv, FreePcs
  <2>2. CASE Goes(c, "execute") /\ ~At(c, "find")
    <3>0. "execute" \in Pcs
      BY DEF Pcs
    <3>1. PICK r \in Call : r.pc = "execute" /\ Moves(c, r)
                            /\ r.approval = call[c].approval
                            /\ r.asked = call[c].asked
      BY <1>3, <2>2, <3>0, CallGoes DEF Inv
    <3>2. call[c].pc = "find again"
      BY <2>2, <1>3 DEF At, FindReceipt
    <3>3. CallOK(r)'
      BY <1>3, <3>1, <3>2 DEF CallOK, Knows, FindReceipt, server
    <3> QED BY <1>1, <3>1, <3>3, OneCallMoves DEF Inv
  <2>3. CASE /\ receipts[call[c].approval] # None
             /\ call' = [call EXCEPT ![c].pc = "complete",
                            ![c].receipt = receipts[call[c].approval],
                            ![c].source = "reconciled"]
    <3>1. PICK old : old = call[c]
      OBVIOUS
    <3>2. PICK found : found = receipts[old.approval]
      OBVIOUS
    <3>3. found \in Receipt
      BY <1>3, <2>3, <3>1, <3>2 DEF Inv, StoreInv
    <3>4. PICK r : r = [old EXCEPT !.pc = "complete", !.receipt = found,
                                   !.source = "reconciled"]
      OBVIOUS
    <3>5. r \in Call /\ r.pc = "complete" /\ r.approval = old.approval
          /\ r.receipt = found
      BY <1>3, <3>1, <3>3, <3>4 DEF Call, Sources
    <3>6. Moves(c, r)
      BY <2>3, <3>1, <3>2, <3>4 DEF Moves
    <3>7. CallOK(r)'
      BY <2>3, <3>1, <3>2, <3>5
      DEF CallOK, Knows, FindReceipt, executorVars
    <3> QED BY <1>1, <3>6, <3>7, OneCallMoves DEF Inv
  <2> QED BY <2>1, <2>2, <2>3, Zenon DEF FindReceipt
<1> QED BY <1>1, <1>2, <1>4 DEF Inv

LEMMA CheckSteps ==
  ASSUME Inv, NEW c \in Calls, Check(c) \/ CheckPreconditions(c)
  PROVE  Inv' /\ UNCHANGED <<Phases, Performs>>
<1>1. call[c] \in Call /\ call[c].approval \in Approvals
  BY RunningAt DEF Inv, Check, CheckPreconditions
<1>2. WorldInv'
  BY WorldStays
  DEF Inv, Check, CheckPreconditions, server, trailVars, readerVars
<1>3. CASE Check(c)
  <2>1. StoreInv' /\ Grows /\ UNCHANGED <<Phases, Performs>>
    <3>1. CASE UNCHANGED log
      BY <1>3, <3>1, Quiet DEF Inv, Check, server
    <3>2. CASE Audited(c, "authorization_decision")
      BY <1>1, <1>3, <3>2, Logged, OtherKinds, Nones
      DEF Inv, Check, server, Audited
    <3> QED BY <1>3, <3>1, <3>2 DEF Check
  <2>2. CASE Goes(c, "preconditions") \/ Goes(c, "reject")
    BY <1>1, <1>2, <2>1, <2>2, CallGoesFreely DEF Inv, FreePcs
  <2> QED BY <1>3, <2>2 DEF Check
<1>4. CASE CheckPreconditions(c)
  <2>1. StoreInv' /\ Grows /\ UNCHANGED <<Phases, Performs>>
    BY <1>4, Quiet DEF Inv, CheckPreconditions, server, trailVars
  <2>2. CASE Goes(c, "reserve") \/ Goes(c, "reject")
    BY <1>1, <1>2, <2>1, <2>2, CallGoesFreely DEF Inv, FreePcs
  <2> QED BY <1>4, <2>2 DEF CheckPreconditions
<1> QED BY <1>3, <1>4

LEMMA EndingSteps ==
  ASSUME Inv, NEW c \in Calls, Stop(c) \/ Refuse(c) \/ RecordUnknown(c)
  PROVE  Inv' /\ UNCHANGED <<Phases, Performs>>
<1>1. WorldInv'
  BY WorldStays
  DEF Inv, Stop, Refuse, RecordUnknown, server, trailVars, readerVars
<1>2. StoreInv' /\ Grows /\ UNCHANGED <<Phases, Performs>>
  <2>1. CASE Stop(c)
    BY <2>1, Quiet DEF Inv, Stop, server, trailVars
  <2>2. CASE Refuse(c)
    <3>1. call[c].approval \in Approvals
      BY <2>2, RunningAt DEF Inv, Refuse
    <3>2. \E r \in Resources :
            Recorded("action_grant_rejected", r, call[c].approval)
      BY <2>2, <3>1, Nones DEF Refuse, Presented
    <3> QED BY <2>2, <3>1, <3>2, Logged, OtherKinds, Nones
            DEF Inv, Refuse, server
  <2>3. CASE RecordUnknown(c)
    <3>1. call[c].approval \in Approvals
      BY <2>3, RunningAt DEF Inv, RecordUnknown
    <3> QED BY <2>3, <3>1, Logged, OtherKinds, Nones
            DEF Inv, RecordUnknown, server, Audited
  <2> QED BY <2>1, <2>2, <2>3
<1>3. CallsInv'
  BY <1>2, CallEnds DEF Inv, Stop, Refuse, RecordUnknown
<1> QED BY <1>1, <1>2, <1>3 DEF Inv

-----------------------------------------------------------------------------
(* The steps that write the row or act.                                    *)

LEMMA ReserveStep ==
  ASSUME Inv, NEW c \in Calls, Reserve(c)
  PROVE  Inv' /\ [S!SNext]_(S!svars)
<1>1. PICK old : old = call[c]
  OBVIOUS
<1>2. PICK a : a = old.approval
  OBVIOUS
<1>3. old \in Call /\ a \in Approvals /\ old.asked \in Revisions
  BY <1>1, <1>2, RunningAt DEF Inv, Reserve
<1>4. WorldInv'
  BY WorldStays DEF Inv, Reserve, trailVars, readerVars
<1>5. CASE Held(c)
  <2>1. StoreInv' /\ Grows /\ UNCHANGED <<Phases, Performs>>
    BY <1>5, Quiet DEF Inv, Reserve, trailVars
  <2>2. CASE Goes(c, "reject")
    BY <1>1, <1>3, <1>4, <2>1, <2>2, CallGoesFreely
    DEF Inv, FreePcs, S!svars, Phases, Performs
  <2>3. CASE row[a].asked = old.asked /\ row[a].receipt # None /\ Goes(c, "look")
    <3>0. "look" \in Pcs
      BY DEF Pcs
    <3>1. PICK r \in Call : r.pc = "look" /\ Moves(c, r)
                            /\ r.approval = call[c].approval
      BY <1>1, <1>3, <2>3, <3>0, CallGoes DEF Inv
    <3>2. CallOK(r)'
      BY <1>1, <1>2, <1>5, <2>3, <3>1 DEF CallOK, Knows, Held, RowOf, Reserve
    <3> QED BY <1>4, <2>1, <3>1, <3>2, OneCallMoves
            DEF Inv, S!svars, Phases, Performs
  <2>4. CASE row[a].asked = old.asked /\ Goes(c, "find again")
    <3>0. "find again" \in Pcs
      BY DEF Pcs
    <3>1. PICK r \in Call : r.pc = "find again" /\ Moves(c, r)
                            /\ r.approval = call[c].approval
                            /\ r.asked = call[c].asked
      BY <1>1, <1>3, <2>4, <3>0, CallGoes DEF Inv
    <3>2. CallOK(r)'
      BY <1>1, <1>2, <1>5, <2>4, <3>1 DEF CallOK, Knows, Held, RowOf, Reserve
    <3> QED BY <1>4, <2>1, <3>1, <3>2, OneCallMoves
            DEF Inv, S!svars, Phases, Performs
  <2> QED BY <1>1, <1>2, <1>5, <2>2, <2>3, <2>4 DEF Reserve, Resumes, RowOf
<1>6. CASE ~Held(c)
  <2>1. PICK new : new = [asked |-> old.asked, receipt |-> None,
                          source |-> None, audited |-> FALSE]
    OBVIOUS
  <2>2. /\ new \in Row /\ new.asked = old.asked /\ new.receipt = None
        /\ ~new.audited
    BY <1>3, <2>1 DEF Row
  <2>3. new # None
    BY <2>2, Nones
  <2>4. row' = [row EXCEPT ![a] = new] /\ row[a] = None
    BY <1>1, <1>2, <1>6, <2>1, Zenon DEF Reserve, Held, RowOf
  <2>5. UNCHANGED <<receipts, executions, log>>
    BY DEF Reserve, executorVars, trailVars
  <2>6. receipts[a] = None
    BY <1>3, <2>4 DEF Inv, StoreInv, Agrees
  <2>7. \A b \in Approvals : row'[b] = IF b = a THEN new ELSE row[b]
    BY <2>4 DEF Inv, StoreInv
  <2>8. StoreInv' /\ Grows
    <3>1. row' \in [Approvals -> Row \cup {None}]
      BY <2>2, <2>4 DEF Inv, StoreInv
    <3>2. ASSUME NEW b \in Approvals PROVE Agrees(b)' /\ Told(b)'
      <4>1. Agrees(b) /\ Told(b)
        BY DEF Inv, StoreInv
      <4>2. CompletionEvents(b)' = CompletionEvents(b) /\ log' = log
        BY <2>5 DEF CompletionEvents
      <4>3. Agrees(b)'
        BY <2>2, <2>3, <2>4, <2>5, <2>6, <2>7, <4>1 DEF Agrees
      <4>4. Told(b)'
        BY <2>2, <2>3, <2>4, <2>7, <4>1, <4>2 DEF Told
      <4> QED BY <4>3, <4>4
    <3>3. Grows
      BY <2>4, <2>5, <2>7 DEF Grows, CompletionEvents
    <3> QED BY <2>5, <3>1, <3>2, <3>3 DEF Inv, StoreInv
  <2>9. CallsInv'
    <3>0. "find again" \in Pcs
      BY DEF Pcs
    <3>1. PICK r \in Call : r.pc = "find again" /\ Moves(c, r)
                            /\ r.approval = call[c].approval
                            /\ r.asked = call[c].asked
      BY <1>1, <1>3, <1>6, <3>0, CallGoes DEF Inv, Reserve
    <3>2. CallOK(r)'
      BY <1>1, <1>2, <1>3, <2>2, <2>3, <2>7, <3>1 DEF CallOK, Knows
    <3> QED BY <2>8, <3>1, <3>2, OneCallMoves DEF Inv
  <2>10. S!Authorize(a)
    <3>1. Phase(a) = "none"
      BY <2>4 DEF Phase
    <3>2. Phases' = [Phases EXCEPT ![a] = "authorized"]
      BY <1>3, <2>2, <2>3, <2>7 DEF Phases, Phase
    <3>3. Performs' = Performs
      BY <2>5 DEF Performs
    <3> QED BY <1>3, <3>1, <3>2, <3>3 DEF S!Authorize, Phases, Performs
  <2> QED BY <1>3, <1>4, <2>8, <2>9, <2>10 DEF Inv, S!SNext
<1> QED BY <1>5, <1>6

LEMMA PerformedStep ==
  ASSUME Inv, NEW c \in Calls, At(c, "execute"), Performed(c),
         ~Known(call[c].approval), UNCHANGED <<row, log>>
  PROVE  /\ StoreInv' /\ Grows /\ S!SNext
         /\ receipts'[call[c].approval] \in Receipt
<1>1. PICK old : old = call[c]
  OBVIOUS
<1>2. PICK a : a = old.approval
  OBVIOUS
<1>3. old \in Call /\ a \in Approvals /\ old.asked \in Revisions
      /\ row[a] # None /\ row[a].asked = old.asked
  BY <1>1, <1>2, RunningAt DEF Inv, Knows
<1>4. receipts[a] = None /\ executions[a] = 0 /\ row[a].receipt = None
  BY <1>1, <1>2, <1>3 DEF Known, Inv, StoreInv, Agrees
<1>5. PICK new : new = [asked |-> old.asked, action |-> executions[a] + 1]
  OBVIOUS
<1>6. new \in Receipt /\ new.asked = old.asked /\ new # None
  BY <1>3, <1>4, <1>5, Nones DEF Receipt
<1>7. /\ receipts' = [receipts EXCEPT ![a] = new]
      /\ executions' = [executions EXCEPT ![a] = @ + 1]
  BY <1>1, <1>2, <1>5 DEF Performed
<1>8. \A b \in Approvals :
        /\ receipts'[b] = IF b = a THEN new ELSE receipts[b]
        /\ executions'[b] = IF b = a THEN 1 ELSE executions[b]
  BY <1>4, <1>7 DEF Inv, StoreInv
<1>9. StoreInv'
  <2>0. receipts' \in [Approvals -> Receipt \cup {None}]
    BY <1>6, <1>7 DEF Inv, StoreInv
  <2>1. executions' \in [Approvals -> Nat]
    <3>1. executions' = [executions EXCEPT ![a] = 1]
      BY <1>4, <1>7
    <3> QED BY <3>1 DEF Inv, StoreInv
  <2>2. ASSUME NEW b \in Approvals PROVE Agrees(b)' /\ Told(b)'
    <3>1. Agrees(b) /\ Told(b)
      BY DEF Inv, StoreInv
    <3>2. CompletionEvents(b)' = CompletionEvents(b)
      BY DEF CompletionEvents
    <3>3. Agrees(b)'
      BY <1>3, <1>4, <1>6, <1>8, <3>1 DEF Agrees
    <3>4. Told(b)'
      BY <3>1, <3>2 DEF Told
    <3> QED BY <3>3, <3>4
  <2> QED BY <2>0, <2>1, <2>2 DEF Inv, StoreInv
<1>10. Grows
  BY <1>4, <1>8 DEF Grows, CompletionEvents
<1>11. S!Perform(a)
  <2>1. Phase(a) = "authorized"
    BY <1>3, <1>4 DEF Phase
  <2>2. Performs' = [Performs EXCEPT ![a] = TRUE]
    BY <1>3, <1>6, <1>8 DEF Performs
  <2>3. Phases' = Phases
    BY DEF Phases, Phase
  <2> QED BY <1>3, <1>4, <2>1, <2>2, <2>3
          DEF S!Perform, Phases, Performs
<1> QED BY <1>1, <1>2, <1>3, <1>6, <1>8, <1>9, <1>10, <1>11 DEF S!SNext

(* A call that holds a receipt of the executor's. *)
LEMMA CallHolds ==
  ASSUME Inv, Grows, NEW c \in Calls, call[c] \in Call,
         NEW receipt \in Receipt, receipt = receipts'[call[c].approval],
         NEW source \in Sources,
         call' = [call EXCEPT ![c].pc = "complete", ![c].receipt = receipt,
                              ![c].source = source]
  PROVE  CallsInv'
<1>1. PICK old : old = call[c]
  OBVIOUS
<1>2. PICK r : r = [old EXCEPT !.pc = "complete", !.receipt = receipt,
                               !.source = source]
  OBVIOUS
<1>3. r \in Call /\ r.pc = "complete" /\ r.approval = old.approval
      /\ r.receipt = receipt
  BY <1>1, <1>2 DEF Call
<1>4. Moves(c, r)
  BY <1>1, <1>2 DEF Moves
<1>5. CallOK(r)'
  BY <1>1, <1>3, Nones DEF CallOK, Knows
<1> QED BY <1>4, <1>5, OneCallMoves DEF Inv

LEMMA ExecuteOnceStep ==
  ASSUME Inv, NEW c \in Calls, ExecuteOnce(c)
  PROVE  Inv' /\ [S!SNext]_(S!svars)
<1>1. call[c] \in Call /\ call[c].approval \in Approvals
  BY RunningAt DEF Inv, ExecuteOnce
<1>2. WorldInv'
  BY WorldStays DEF Inv, ExecuteOnce, server, trailVars, readerVars
<1>3. CASE UNCHANGED executorVars
  <2>1. StoreInv' /\ Grows /\ UNCHANGED <<Phases, Performs>>
    BY <1>3, Quiet DEF Inv, ExecuteOnce, server, trailVars
  <2>2. CASE Goes(c, "reject") \/ Goes(c, "unknown")
    BY <1>1, <1>2, <2>1, <2>2, CallGoesFreely
    DEF Inv, FreePcs, S!svars, Phases, Performs
  <2>3. CASE /\ Known(call[c].approval)
             /\ call' = [call EXCEPT ![c].pc = "complete",
                            ![c].receipt = receipts[call[c].approval],
                            ![c].source = "executed"]
    <3>1. PICK receipt : receipt = receipts[call[c].approval]
      OBVIOUS
    <3>2. receipt \in Receipt /\ receipt = receipts'[call[c].approval]
      BY <1>1, <1>3, <2>3, <3>1 DEF Inv, StoreInv, Known, executorVars
    <3>3. "executed" \in Sources
      BY DEF Sources
    <3>4. CallsInv'
      BY <1>1, <2>1, <2>3, <3>1, <3>2, <3>3, CallHolds DEF Inv
    <3> QED BY <1>2, <2>1, <3>4 DEF Inv, S!svars, Phases, Performs
  <2>4. CASE Performed(c) /\ ~Known(call[c].approval)
    <3>1. receipts'[call[c].approval] # receipts[call[c].approval]
      BY <1>1, <2>4, PerformedStep, Nones DEF Known, ExecuteOnce, server,
         trailVars
    <3> QED BY <1>3, <3>1 DEF executorVars
  <2> QED BY <2>2, <2>3, <2>4 DEF ExecuteOnce
<1>4. CASE /\ ~Known(call[c].approval)
           /\ Performed(c)
           /\ \/ Goes(c, "unknown")
              \/ call' = [call EXCEPT ![c].pc = "complete",
                             ![c].receipt = receipts'[call[c].approval],
                             ![c].source = "executed"]
  <2>1. /\ StoreInv' /\ Grows /\ S!SNext
        /\ receipts'[call[c].approval] \in Receipt
    BY <1>4, PerformedStep DEF ExecuteOnce, server, trailVars
  <2>2. CASE Goes(c, "unknown")
    BY <1>1, <1>2, <2>1, <2>2, CallGoesFreely DEF Inv, FreePcs
  <2>3. CASE call' = [call EXCEPT ![c].pc = "complete",
                             ![c].receipt = receipts'[call[c].approval],
                             ![c].source = "executed"]
    <3>1. "executed" \in Sources
      BY DEF Sources
    <3>2. CallsInv'
      BY <1>1, <2>1, <2>3, <3>1, CallHolds
    <3> QED BY <1>2, <2>1, <3>2 DEF Inv
  <2> QED BY <1>4, <2>2, <2>3
<1> QED BY <1>3, <1>4 DEF ExecuteOnce

LEMMA CompleteStep ==
  ASSUME Inv, NEW c \in Calls, Complete(c)
  PROVE  Inv' /\ [S!SNext]_(S!svars)
<1>1. PICK old : old = call[c]
  OBVIOUS
<1>2. PICK a : a = old.approval
  OBVIOUS
<1>3. /\ old \in Call /\ Knows(old) /\ old.pc = "complete"
      /\ a \in Approvals /\ old.source \in Sources \cup {None}
      /\ old.receipt \in Receipt \cup {None}
  BY <1>1, <1>2, RunningAt DEF Inv, Complete
<1>4. old.receipt # None /\ old.receipt = receipts[a]
  BY <1>2, <1>3 DEF Knows
<1>5. WorldInv'
  BY WorldStays DEF Inv, Complete, trailVars, readerVars
<1>6. CASE ~Completes(c)
  <2>1. StoreInv' /\ Grows /\ UNCHANGED <<Phases, Performs>>
    BY <1>6, Quiet DEF Inv, Complete, trailVars
  <2>2. Goes(c, "reject")
    BY <1>6 DEF Complete
  <2> QED BY <1>1, <1>3, <1>5, <2>1, <2>2, CallGoesFreely
          DEF Inv, FreePcs, S!svars, Phases, Performs
<1>7. ASSUME StoreInv', Grows, Completes(c),
             row'[a] # None, row'[a].receipt # None
      PROVE  CallsInv'
  <2>0. "look" \in Pcs
    BY DEF Pcs
  <2>1. Goes(c, "look")
    BY <1>7 DEF Complete
  <2>2. PICK r \in Call : r.pc = "look" /\ Moves(c, r)
                          /\ r.approval = call[c].approval
    BY <1>1, <1>3, <2>0, <2>1, CallGoes DEF Inv
  <2>3. CallOK(r)'
    BY <1>1, <1>2, <1>7, <2>2 DEF CallOK, Knows
  <2> QED BY <1>7, <2>2, <2>3, OneCallMoves DEF Inv
<1>8. CASE Completes(c) /\ row[a].receipt # None
  <2>1. UNCHANGED row /\ row[a] # None
    BY <1>1, <1>2, <1>8 DEF Complete, RowOf, Completes
  <2>2. StoreInv' /\ Grows /\ UNCHANGED <<Phases, Performs>>
    BY <2>1, Quiet DEF Inv, Complete, trailVars
  <2> QED BY <1>5, <1>7, <1>8, <2>1, <2>2 DEF Inv, S!svars, Phases, Performs
<1>9. CASE Completes(c) /\ row[a].receipt = None
  <2>1. PICK was : was = row[a]
    OBVIOUS
  <2>2. was # None /\ was \in Row /\ was.receipt = None
    BY <1>1, <1>2, <1>3, <1>9, <2>1 DEF Inv, StoreInv, Completes, RowOf
  <2>3. PICK new : new = [was EXCEPT !.receipt = old.receipt,
                                     !.source = old.source]
    OBVIOUS
  <2>4. /\ new \in Row /\ new.receipt = old.receipt
        /\ new.asked = was.asked /\ new.audited = was.audited
    BY <1>3, <2>2, <2>3 DEF Row
  <2>5. new # None
    BY <2>4, Nones
  <2>6. row' = [row EXCEPT ![a] = new]
    BY <1>1, <1>2, <1>9, <2>1, <2>3 DEF Complete, RowOf
  <2>7. UNCHANGED <<receipts, executions, log>>
    BY DEF Complete, executorVars, trailVars
  <2>8. \A b \in Approvals : row'[b] = IF b = a THEN new ELSE row[b]
    BY <2>6 DEF Inv, StoreInv
  <2>9. StoreInv'
    <3>1. row' \in [Approvals -> Row \cup {None}]
      BY <2>4, <2>6 DEF Inv, StoreInv
    <3>2. ASSUME NEW b \in Approvals PROVE Agrees(b)' /\ Told(b)'
      <4>1. Agrees(b) /\ Told(b)
        BY DEF Inv, StoreInv
      <4>2. CompletionEvents(b)' = CompletionEvents(b) /\ log' = log
        BY <2>7 DEF CompletionEvents
      <4>3. Agrees(b)'
        BY <1>4, <2>1, <2>2, <2>4, <2>5, <2>7, <2>8, <4>1 DEF Agrees
      <4>4. Told(b)'
        BY <2>1, <2>2, <2>4, <2>5, <2>8, <4>1, <4>2 DEF Told
      <4> QED BY <4>3, <4>4
    <3> QED BY <2>7, <3>1, <3>2 DEF Inv, StoreInv
  <2>10. Grows
    BY <2>1, <2>2, <2>4, <2>5, <2>7, <2>8 DEF Grows, CompletionEvents
  <2>11. CallsInv'
    BY <1>3, <1>4, <1>7, <1>9, <2>4, <2>5, <2>8, <2>9, <2>10
  <2>12. S!Confirm(a)
    <3>1. Phase(a) = "authorized" /\ Performs[a]
      BY <1>3, <1>4, <2>1, <2>2 DEF Phase, Performs
    <3>2. Phases' = [Phases EXCEPT ![a] = "done"]
      BY <1>3, <1>4, <2>4, <2>5, <2>8 DEF Phases, Phase
    <3>3. Performs' = Performs
      BY <2>7 DEF Performs
    <3> QED BY <1>3, <3>1, <3>2, <3>3 DEF S!Confirm, Phases, Performs
  <2> QED BY <1>3, <1>5, <2>9, <2>11, <2>12 DEF Inv, S!SNext
<1> QED BY <1>6, <1>8, <1>9

-----------------------------------------------------------------------------
(* The steps of the audit.                                                 *)

LEMMA LookStep ==
  ASSUME Inv, NEW c \in Calls, LookForEvent(c)
  PROVE  Inv' /\ UNCHANGED <<Phases, Performs>>
<1>1. /\ call[c] \in Call /\ Knows(call[c]) /\ call[c].pc = "look"
      /\ call[c].approval \in Approvals
  BY RunningAt DEF Inv, LookForEvent
<1>2. StoreInv' /\ Grows /\ UNCHANGED <<Phases, Performs>>
  BY Quiet DEF Inv, LookForEvent, server, trailVars
<1>3. WorldInv'
  BY WorldStays DEF Inv, LookForEvent, server, trailVars, readerVars
<1>4. CASE Ends(c)
  BY <1>2, <1>3, <1>4, CallEnds DEF Inv
<1>5. CASE \/ Goes(c, "add")
           \/ Goes(c, "mark") /\ CompletionEvents(call[c].approval) # {}
  <2>1. "add" \in Pcs /\ "mark" \in Pcs
    BY DEF Pcs
  <2>2. PICK r \in Call :
          /\ r.pc \in {"add", "mark"} /\ Moves(c, r)
          /\ r.approval = call[c].approval
          /\ r.pc = "mark" => CompletionEvents(call[c].approval) # {}
    <3>1. CASE Goes(c, "add")
      <4>1. PICK r \in Call : r.pc = "add" /\ Moves(c, r)
                              /\ r.approval = call[c].approval
        BY <1>1, <2>1, <3>1, CallGoes DEF Inv
      <4> QED BY <4>1
    <3>2. CASE Goes(c, "mark") /\ CompletionEvents(call[c].approval) # {}
      <4>1. PICK r \in Call : r.pc = "mark" /\ Moves(c, r)
                              /\ r.approval = call[c].approval
        BY <1>1, <2>1, <3>2, CallGoes DEF Inv
      <4> QED BY <3>2, <4>1
    <3> QED BY <1>5, <3>1, <3>2
  <2>3. CallOK(r)
    BY <1>1, <2>2 DEF CallOK, Knows
  <2>4. CallOK(r)'
    BY <1>2, <2>3, CallsPersist
  <2> QED BY <1>2, <1>3, <2>2, <2>4, OneCallMoves DEF Inv
<1> QED BY <1>4, <1>5 DEF LookForEvent

LEMMA AddStep ==
  ASSUME Inv, NEW c \in Calls, AddEvent(c)
  PROVE  Inv' /\ UNCHANGED <<Phases, Performs>>
<1>1. PICK a : a = call[c].approval
  OBVIOUS
<1>2. /\ call[c] \in Call /\ a \in Approvals
      /\ row[a] # None /\ row[a].receipt # None
  BY <1>1, RunningAt DEF Inv, AddEvent, Knows
<1>3. WorldInv'
  BY WorldStays DEF Inv, AddEvent, server, readerVars
<1>4. CASE CompletionEvents(a) # {}
  <2>1. StoreInv' /\ Grows /\ UNCHANGED <<Phases, Performs>>
    BY <1>1, <1>4, Quiet DEF Inv, AddEvent, server
  <2>2. CallsInv'
    BY <1>1, <1>4, <2>1, CallEnds DEF Inv, AddEvent
  <2> QED BY <1>3, <2>1, <2>2 DEF Inv
<1>5. CASE CompletionEvents(a) = {}
  <2>1. PICK e : e = [kind |-> Completion(row[a].source),
                      resource |-> RepositoryOf[a], subject |-> a]
    OBVIOUS
  <2>2. PICK n : n = Len(log) + 1
    OBVIOUS
  <2>3. /\ e \in Event /\ e.subject = a /\ e.kind \in Completions
        /\ e.kind = Completion(row[a].source)
    BY <1>2, <2>1, OtherKinds, Nones DEF Event
  <2>4. log \in Seq(Event) /\ log' = Append(log, e)
    BY <1>1, <1>5, <2>1 DEF Inv, StoreInv, AddEvent, Audited, RowOf, Recorded
  <2>5. UNCHANGED <<row, receipts, executions>>
    BY DEF AddEvent, server, executorVars
  <2>6. log' \in Seq(Event) /\ log'[n] = e
    BY <2>2, <2>3, <2>4, Appended
  <2>7. CompletionEvents(a)' = {n}
    BY <1>5, <2>2, <2>3, <2>4, Appended
  <2>8. ASSUME NEW b \in Approvals, b # a
        PROVE  /\ CompletionEvents(b)' = CompletionEvents(b)
               /\ \A k \in CompletionEvents(b) : log'[k] = log[k]
    <3>1. e.subject # b
      BY <2>3, <2>8
    <3>2. /\ CompletionEvents(b)' =
               CompletionEvents(b) \cup
                 {k \in {Len(log) + 1} :
                     e.subject = b /\ e.kind \in Completions}
          /\ \A k \in CompletionEvents(b) : log'[k] = log[k]
      BY <2>3, <2>4, Appended
    <3> QED BY <3>1, <3>2
  <2>9. ASSUME NEW b \in Approvals PROVE Agrees(b)' /\ Told(b)'
    <3>1. Agrees(b) /\ Told(b)
      BY DEF Inv, StoreInv
    <3>2. Agrees(b)'
      BY <2>5, <3>1 DEF Agrees
    <3>3. row'[b] = row[b]
      BY <2>5
    <3>4. CASE b = a
      <4>1. /\ CompletionEvents(b)' = {n}
            /\ log'[n].kind = Completion(row[b].source)
            /\ row[b] # None /\ row[b].receipt # None
        BY <1>2, <2>3, <2>6, <2>7, <3>4
      <4> QED BY <3>2, <3>3, <4>1 DEF Told
    <3>5. CASE b # a
      <4>1. /\ CompletionEvents(b)' = CompletionEvents(b)
            /\ \A k \in CompletionEvents(b) : log'[k] = log[k]
        BY <2>8, <3>5
      <4> QED BY <3>1, <3>2, <3>3, <4>1 DEF Told
    <3> QED BY <3>4, <3>5
  <2>10. StoreInv'
    BY <2>5, <2>6, <2>9 DEF Inv, StoreInv
  <2>11. Grows
    <3>1. ASSUME NEW b \in Approvals
          PROVE  CompletionEvents(b) \subseteq CompletionEvents(b)'
      BY <1>5, <2>8
    <3> QED BY <2>5, <3>1 DEF Grows
  <2>12. UNCHANGED <<Phases, Performs>>
    BY <2>5 DEF Phases, Performs, Phase
  <2>13. CallsInv'
    <3>0. "mark" \in Pcs
      BY DEF Pcs
    <3>1. Goes(c, "mark")
      BY <1>1, <1>5 DEF AddEvent
    <3>2. PICK r \in Call : r.pc = "mark" /\ Moves(c, r)
                            /\ r.approval = call[c].approval
      BY <1>2, <3>0, <3>1, CallGoes DEF Inv
    <3>3. CallOK(r)'
      BY <1>1, <1>2, <2>5, <2>7, <3>2 DEF CallOK, Knows
    <3> QED BY <2>11, <3>2, <3>3, OneCallMoves DEF Inv
  <2> QED BY <1>3, <2>10, <2>12, <2>13 DEF Inv
<1> QED BY <1>4, <1>5

LEMMA MarkStep ==
  ASSUME Inv, NEW c \in Calls, MarkAudited(c)
  PROVE  Inv' /\ UNCHANGED <<Phases, Performs>>
<1>1. PICK a : a = call[c].approval
  OBVIOUS
<1>2. /\ a \in Approvals /\ row[a] # None /\ CompletionEvents(a) # {}
  BY <1>1, RunningAt DEF Inv, MarkAudited, Knows
<1>3. PICK was : was = row[a]
  OBVIOUS
<1>4. PICK new : new = [was EXCEPT !.audited = TRUE]
  OBVIOUS
<1>5. was \in Row /\ was # None
  BY <1>2, <1>3 DEF Inv, StoreInv
<1>6. /\ new \in Row /\ new.asked = was.asked /\ new.receipt = was.receipt
      /\ new.source = was.source
  BY <1>4, <1>5 DEF Row
<1>7. new # None
  BY <1>6, Nones
<1>8. row' = [row EXCEPT ![a] = new]
  BY <1>1, <1>3, <1>4 DEF MarkAudited
<1>9. UNCHANGED <<receipts, executions, log>>
  BY DEF MarkAudited, executorVars, trailVars
<1>10. \A b \in Approvals : row'[b] = IF b = a THEN new ELSE row[b]
  BY <1>8 DEF Inv, StoreInv
<1>11. StoreInv'
  <2>1. row' \in [Approvals -> Row \cup {None}]
    BY <1>6, <1>8 DEF Inv, StoreInv
  <2>2. ASSUME NEW b \in Approvals PROVE Agrees(b)' /\ Told(b)'
    <3>1. Agrees(b) /\ Told(b)
      BY DEF Inv, StoreInv
    <3>2. CompletionEvents(b)' = CompletionEvents(b) /\ log' = log
      BY <1>9 DEF CompletionEvents
    <3>3. Agrees(b)'
      BY <1>3, <1>5, <1>6, <1>7, <1>9, <1>10, <3>1 DEF Agrees
    <3>4. Told(b)'
      BY <1>2, <1>3, <1>5, <1>6, <1>7, <1>10, <3>1, <3>2 DEF Told
    <3> QED BY <3>3, <3>4
  <2> QED BY <1>9, <2>1, <2>2 DEF Inv, StoreInv
<1>12. Grows
  BY <1>3, <1>6, <1>7, <1>9, <1>10 DEF Grows, CompletionEvents
<1>13. UNCHANGED <<Phases, Performs>>
  BY <1>3, <1>5, <1>6, <1>7, <1>9, <1>10 DEF Phases, Performs, Phase
<1>14. WorldInv'
  BY WorldStays DEF Inv, MarkAudited, trailVars, readerVars
<1>15. CallsInv'
  BY <1>12, CallEnds DEF Inv, MarkAudited
<1> QED BY <1>11, <1>13, <1>14, <1>15 DEF Inv

-----------------------------------------------------------------------------
(* Around the calls.                                                       *)

LEMMA BeginStep ==
  ASSUME Inv, NEW c \in Calls, NEW a \in Approvals, NEW revision \in Revisions,
         NEW fits \in BOOLEAN, Begin(c, a, revision, fits)
  PROVE  Inv' /\ UNCHANGED <<Phases, Performs>>
<1>1. StoreInv' /\ Grows /\ UNCHANGED <<Phases, Performs>>
  BY Quiet DEF Inv, Begin, server, trailVars
<1>2. WorldInv'
  BY WorldStays DEF Inv, Begin, server, trailVars, readerVars
<1>3. PICK r : r = [pc |-> "approval", approval |-> a, asked |-> revision,
                    fits |-> fits, now |-> clock, version |-> policy,
                    receipt |-> None, source |-> None]
  OBVIOUS
<1>4. r \in Call /\ r.pc = "approval"
  BY <1>3 DEF Call, Inv, WorldInv
<1>5. CallOK(r)'
  BY <1>4 DEF CallOK, Knows
<1>6. Moves(c, r)
  BY <1>3 DEF Begin, Moves
<1> QED BY <1>1, <1>2, <1>5, <1>6, OneCallMoves DEF Inv

LEMMA AroundStep ==
  ASSUME Inv, Around
  PROVE  Inv' /\ UNCHANGED <<Phases, Performs>>
<1>1. StoreInv' /\ Grows /\ UNCHANGED <<Phases, Performs>>
  <2>1. CASE UNCHANGED <<row, executorVars, log>>
    BY <2>1, Quiet DEF Inv
  <2>2. ASSUME NEW o \in Owners, NEW r \in Resources, Deny(o, r),
               UNCHANGED <<server, executorVars, call>>
        PROVE  StoreInv' /\ Grows /\ UNCHANGED <<Phases, Performs>>
    BY <2>2, Logged, OtherKinds DEF Inv, Deny, server
  <2> QED BY <2>1, <2>2
          DEF Around, Tick, SelectPolicy, Relate, Approve, ConfigureResource,
              trailVars, TrailNext, Enter, Forget, ListForOwner, server
<1>2. CallsInv'
  <2>1. UNCHANGED call
    BY DEF Around, Tick, SelectPolicy, Relate, Approve, ConfigureResource
  <2> QED BY <1>1, <2>1, NoCallMoves DEF Inv
<1>3. WorldInv'
  <2>1. CASE Tick
    BY <2>1 DEF Tick, Inv, WorldInv, trailVars, readerVars
  <2>2. ASSUME NEW v \in Versions, SelectPolicy(v) PROVE WorldInv'
    BY <2>2 DEF SelectPolicy, Inv, WorldInv, trailVars, readerVars
  <2>3. ASSUME NEW a \in Approvals, Relate(a) PROVE WorldInv'
    BY <2>3 DEF Relate, Inv, WorldInv, trailVars, readerVars
  <2>4. ASSUME NEW a \in Approvals, NEW l \in Lifetimes, Approve(a, l)
        PROVE  WorldInv'
    <3>1. [version |-> policy, expires |-> clock + l] \in Decision
      BY ConsumeAssumption DEF Decision, Inv, WorldInv
    <3> QED BY <2>4, <3>1 DEF Approve, Inv, WorldInv, trailVars, readerVars
  <2>5. ASSUME NEW r \in Repositories, NEW revision \in Revisions,
               ConfigureResource(r, revision)
        PROVE  WorldInv'
    BY <2>5 DEF ConfigureResource, Inv, WorldInv, worldVars, trailVars,
                readerVars
  <2>6. CASE TrailNext /\ UNCHANGED <<server, executorVars, call>>
    BY <2>6 DEF TrailNext, Enter, Forget, Deny, ListForOwner, server,
                worldVars, readerVars, Inv, WorldInv
  <2> QED BY <2>1, <2>2, <2>3, <2>4, <2>5, <2>6 DEF Around
<1> QED BY <1>1, <1>2, <1>3 DEF Inv

-----------------------------------------------------------------------------

LEMMA InitInv == Init => Inv
<1> SUFFICES ASSUME Init PROVE Inv
  OBVIOUS
<1>1. WorldInv
  BY DEF Init, TrailInit, WorldInv
<1>2. log = <<>> /\ \A a \in Approvals : CompletionEvents(a) = {}
  BY DEF Init, TrailInit, CompletionEvents
<1>3. ASSUME NEW a \in Approvals PROVE Agrees(a) /\ Told(a)
  BY <1>2 DEF Init, Agrees, Told
<1>4. StoreInv
  BY <1>2, <1>3 DEF Init, StoreInv
<1>5. CallsInv
  BY DEF Init, CallsInv, CallOK
<1> QED BY <1>1, <1>4, <1>5 DEF Inv

LEMMA InitOneShot == Init => S!SInit
BY DEF Init, S!SInit, Phase

LEMMA NextInv == Inv /\ [Next]_vars => Inv' /\ [S!SNext]_(S!svars)
<1> SUFFICES ASSUME Inv, [Next]_vars PROVE Inv' /\ [S!SNext]_(S!svars)
  OBVIOUS
<1>1. ASSUME UNCHANGED <<Phases, Performs>> PROVE UNCHANGED S!svars
  BY <1>1 DEF S!svars, Phases, Performs
<1>2. CASE Around
  BY <1>1, <1>2, AroundStep
<1>3. ASSUME NEW c \in Calls, CallStep(c)
      PROVE  Inv' /\ [S!SNext]_(S!svars)
  BY <1>1, <1>3, ReadingSteps, FindReceiptStep, CheckSteps, EndingSteps,
     ReserveStep, ExecuteOnceStep, CompleteStep, LookStep, AddStep, MarkStep
  DEF CallStep
<1>4. ASSUME NEW c \in Calls, NEW a \in Approvals, NEW revision \in Revisions,
             NEW fits \in BOOLEAN, Begin(c, a, revision, fits)
      PROVE  Inv' /\ [S!SNext]_(S!svars)
  BY <1>1, <1>4, BeginStep
<1>5. CASE UNCHANGED vars
  <2>1. StoreInv' /\ Grows /\ UNCHANGED <<Phases, Performs>>
    BY <1>5, Quiet DEF vars, trailVars, Inv
  <2>2. WorldInv'
    BY <1>5, WorldStays DEF vars, trailVars, readerVars, Inv
  <2> QED BY <1>1, <1>5, <2>1, <2>2, NoCallMoves DEF vars, Inv
<1> QED BY <1>2, <1>3, <1>4, <1>5 DEF Next

-----------------------------------------------------------------------------
(* The pages of the trail.                                                 *)

(* Bounded sets of sequence numbers have a least and a greatest.           *)
LEMMA LeastExists ==
  ASSUME NEW ks \in SUBSET Nat, ks # {}
  PROVE  \E k \in ks : \A j \in ks : k <= j
<1>1. \E k \in ks : \A j \in ks : <<j, k>> \notin OpToRel(<, Nat)
  BY NatLessThanWellFounded, WFMin
<1>2. PICK k \in ks : \A j \in ks : <<j, k>> \notin OpToRel(<, Nat)
  BY <1>1
<1>3. ASSUME NEW j \in ks PROVE k <= j
  <2>1. j \in Nat /\ k \in Nat /\ ~(j < k)
    BY <1>2 DEF OpToRel
  <2> QED BY <2>1
<1> QED BY <1>3

LEMMA LastExists ==
  ASSUME NEW n \in Nat, NEW ks \in SUBSET (0 .. n), ks # {}
  PROVE  LastOf(ks) \in ks /\ \A j \in ks : j <= LastOf(ks)
<1>1. PICK d \in {n - k : k \in ks} : \A e \in {n - k : k \in ks} : d <= e
  <2>1. \A k \in ks : n - k \in Nat
    OBVIOUS
  <2>2. {n - k : k \in ks} \in SUBSET Nat /\ {n - k : k \in ks} # {}
    BY <2>1
  <2> QED BY <2>2, LeastExists
<1>2. \E k \in ks : \A j \in ks : j <= k
  <2>1. PICK k \in ks : d = n - k
    OBVIOUS
  <2>2. ASSUME NEW j \in ks PROVE j <= k
    <3>1. n - k <= n - j
      BY <1>1, <2>1
    <3> QED BY <3>1
  <2> QED BY <2>2
<1> QED BY <1>2 DEF LastOf

LEMMA Below ==
  ASSUME NEW ks, IsFiniteSet(ks), NEW js \in SUBSET ks
  PROVE  /\ IsFiniteSet(js)
         /\ Cardinality(js) \in Nat
         /\ Cardinality(js) <= Cardinality(ks)
BY FS_Subset, FS_CardinalityType

(* First takes whatever comes before what it takes.                        *)
LEMMA FirstIsInitial ==
  ASSUME NEW ks \in SUBSET Nat, IsFiniteSet(ks), NEW limit \in Nat,
         NEW k \in First(ks, limit), NEW j \in ks, j <= k
  PROVE  j \in First(ks, limit)
<1>1. {i \in ks : i < j} \in SUBSET {i \in ks : i < k}
  <2>1. k \in Nat /\ j \in Nat /\ \A i \in ks : i \in Nat
    BY DEF First
  <2>2. \A i \in ks : i < j => i < k
    BY <2>1
  <2> QED BY <2>2
<1>2. IsFiniteSet({i \in ks : i < k}) /\ Cardinality({i \in ks : i < k}) \in Nat
  BY Below
<1>3. /\ Cardinality({i \in ks : i < j}) \in Nat
      /\ Cardinality({i \in ks : i < j}) <= Cardinality({i \in ks : i < k})
  BY <1>1, <1>2, Below
<1>4. Cardinality({i \in ks : i < k}) < limit
  BY DEF First
<1>5. Cardinality({i \in ks : i < j}) < limit
  BY <1>2, <1>3, <1>4
<1> QED BY <1>5 DEF First

(* The page is the same, taken of the rows or of the row more that tells   *)
(* whether there are more.                                                 *)
LEMMA FirstOfOneMore ==
  ASSUME NEW ks \in SUBSET Nat, IsFiniteSet(ks), NEW limit \in Nat
  PROVE  First(First(ks, limit + 1), limit) = First(ks, limit)
<1> DEFINE rows == First(ks, limit + 1)
<1>1. rows \subseteq ks
  BY DEF First
<1>2. ASSUME NEW k \in rows PROVE {j \in rows : j < k} = {j \in ks : j < k}
  <2>1. ASSUME NEW j \in ks, j < k PROVE j \in rows
    <3>1. j \in Nat /\ k \in Nat
      BY <1>1
    <3>2. j <= k
      BY <2>1, <3>1
    <3> QED BY <3>2, FirstIsInitial
  <2> QED BY <1>1, <2>1
<1>3. First(ks, limit) \subseteq rows
  <2>1. ASSUME NEW k \in First(ks, limit) PROVE k \in rows
    <3>1. Cardinality({j \in ks : j < k}) \in Nat
      BY Below
    <3>2. k \in ks /\ Cardinality({j \in ks : j < k}) < limit
      BY DEF First
    <3> QED BY <3>1, <3>2 DEF First
  <2> QED BY <2>1
<1>4. First(rows, limit) = {k \in rows : Cardinality({j \in ks : j < k}) < limit}
  BY <1>2 DEF First
<1>5. First(ks, limit) = {k \in ks : Cardinality({j \in ks : j < k}) < limit}
  BY DEF First
<1> DEFINE Before(k) == Cardinality({j \in ks : j < k})
<1>6. /\ First(rows, limit) = {k \in rows : Before(k) < limit}
      /\ First(ks, limit) = {k \in ks : Before(k) < limit}
  BY <1>4, <1>5
<1>7. \A k \in First(ks, limit) : k \in rows
  BY <1>3
<1> HIDE DEF rows, Before
<1>8. {k \in rows : Before(k) < limit} = {k \in ks : Before(k) < limit}
  BY <1>1, <1>6, <1>7
<1> QED BY <1>6, <1>8 DEF rows

(* No more rows than the page holds: they are all there are.               *)
LEMMA LastPageHoldsAll ==
  ASSUME NEW ks \in SUBSET Nat, IsFiniteSet(ks), NEW limit \in Nat,
         Cardinality(First(ks, limit + 1)) <= limit
  PROVE  First(ks, limit) = ks
<1> DEFINE rows == First(ks, limit + 1)
<1>1. rows \in SUBSET ks
  BY DEF First
<1>2. IsFiniteSet(rows) /\ Cardinality(rows) \in Nat /\ Cardinality(rows) <= limit
  BY <1>1, Below
<1>3. ASSUME NEW k \in rows PROVE k \in First(ks, limit)
  <2>1. ASSUME NEW j \in ks, j < k PROVE j \in rows
    <3>1. j \in Nat /\ k \in Nat
      BY <1>1
    <3>2. j <= k
      BY <2>1, <3>1
    <3> QED BY <3>2, FirstIsInitial
  <2>2. {j \in ks : j < k} \in SUBSET rows /\ k \notin {j \in ks : j < k}
    <3>1. k \in Nat
      BY <1>1
    <3>2. ~(k < k)
      BY <3>1
    <3> QED BY <2>1, <3>2
  <2>3. /\ Cardinality({j \in ks : j < k}) \in Nat
        /\ Cardinality({j \in ks : j < k}) <= Cardinality(rows)
        /\ Cardinality(rows) = Cardinality({j \in ks : j < k})
              => rows = {j \in ks : j < k}
    BY <1>2, <2>2, FS_Subset, FS_CardinalityType
  <2>4. Cardinality({j \in ks : j < k}) # Cardinality(rows)
    BY <2>2, <2>3
  <2>5. Cardinality({j \in ks : j < k}) < limit
    BY <1>2, <2>3, <2>4
  <2> QED BY <1>1, <2>5 DEF First
<1>4. First(ks, limit) = rows
  <2>1. rows \subseteq First(ks, limit)
    BY <1>3
  <2>2. First(rows, limit) \subseteq rows
    BY DEF First
  <2> QED BY <2>1, <2>2, FirstOfOneMore
<1>5. ASSUME rows # ks PROVE FALSE
  <2>1. PICK k \in ks \ rows : \A j \in ks \ rows : k <= j
    BY <1>1, <1>5, LeastExists
  <2>2. {j \in ks : j < k} \in SUBSET rows
    <3>1. k \in Nat /\ \A j \in ks : j \in Nat
      BY <2>1
    <3>2. \A j \in ks : j < k => j \in rows
      BY <2>1, <3>1
    <3> QED BY <3>2
  <2>3. /\ Cardinality({j \in ks : j < k}) \in Nat
        /\ Cardinality({j \in ks : j < k}) <= Cardinality(rows)
    BY <1>2, <2>2, Below
  <2>4. Cardinality({j \in ks : j < k}) < limit + 1
    BY <1>2, <2>3
  <2>5. k \in rows
    BY <2>1, <2>4 DEF First
  <2> QED BY <2>1, <2>5
<1> HIDE DEF rows
<1> QED BY <1>4, <1>5

(* Short of the last page, what is taken is all up to its last row.        *)
LEMMA PageHoldsAllSoFar ==
  ASSUME NEW n \in Nat, NEW ks \in SUBSET (1 .. n), NEW limit \in Nat,
         First(ks, limit) # {}
  PROVE  /\ LastOf(First(ks, limit)) \in ks
         /\ \A k \in ks : k \in First(ks, limit) <=>
                              k <= LastOf(First(ks, limit))
<1> DEFINE page == First(ks, limit)
<1>1. page \in SUBSET ks /\ page \in SUBSET (0 .. n)
  <2>1. ks \subseteq 0 .. n
    OBVIOUS
  <2> QED BY <2>1 DEF First
<1>2. PICK last : last = LastOf(page)
  OBVIOUS
<1>3. last \in page /\ \A j \in page : j <= last
  BY <1>1, <1>2, LastExists
<1>4. ks \in SUBSET Nat /\ IsFiniteSet(ks)
  <2>1. \A k \in ks : k <= n
    OBVIOUS
  <2>2. ks \in SUBSET Nat
    OBVIOUS
  <2> QED BY <2>1, <2>2, FS_BoundedSetOfNaturals
<1>5. ASSUME NEW k \in ks, k <= last PROVE k \in page
  BY <1>3, <1>4, <1>5, FirstIsInitial
<1>6. \A k \in ks : k \in page <=> k <= last
  BY <1>3, <1>5
<1> QED BY <1>1, <1>2, <1>3, <1>6

LEMMA AboutIsBounded ==
  ASSUME NEW r, NEW after \in Nat, NEW upto \in Nat
  PROVE  /\ About(r, after, upto) \in SUBSET (1 .. upto)
         /\ About(r, after, upto) \in SUBSET Nat
         /\ IsFiniteSet(About(r, after, upto))
         /\ Cardinality(About(r, after, upto)) \in Nat
<1> DEFINE ks == About(r, after, upto)
<1>1. ks \in SUBSET (1 .. upto)
  BY DEF About
<1> HIDE DEF ks
<1>2. ks \in SUBSET Nat /\ \A k \in ks : k <= upto
  BY <1>1
<1>3. IsFiniteSet(ks)
  BY <1>2, FS_BoundedSetOfNaturals
<1>4. Cardinality(ks) \in Nat
  BY <1>3, FS_CardinalityType
<1> QED BY <1>1, <1>2, <1>3, <1>4 DEF ks

(* A page holds each event of the resource from the cursor it was asked    *)
(* with up to the next cursor, or up to the end of the trail.              *)
LEMMA PageIsExact ==
  ASSUME log \in Seq(Event), NEW r, NEW after \in 0 .. Len(log),
         NEW limit \in Nat \ {0}
  PROVE  LET next == NextCursor(r, after, limit)
             covered == IF next = 0 THEN Len(log) ELSE next
         IN  /\ next \in Nat
             /\ covered \in after .. Len(log)
             /\ First(About(r, after, Len(log)), limit)
                    = About(r, after, covered)
<1> DEFINE end == Len(log)
           ks == About(r, after, end)
           rows == First(ks, limit + 1)
           page == First(ks, limit)
<1>1. end \in Nat /\ after \in Nat /\ after <= end /\ limit \in Nat /\ limit > 0
  OBVIOUS
<1>2. /\ ks \in SUBSET (1 .. end) /\ ks \in SUBSET Nat /\ IsFiniteSet(ks)
  BY <1>1, AboutIsBounded
<1>3. page = First(rows, limit)
  BY <1>1, <1>2, FirstOfOneMore
<1>4. NextCursor(r, after, limit)
        = IF Cardinality(rows) > limit THEN LastOf(page) ELSE 0
  BY <1>3 DEF NextCursor
<1>5. rows \in SUBSET ks
  BY DEF First
<1>6. IsFiniteSet(rows) /\ Cardinality(rows) \in Nat
  BY <1>2, <1>5, Below
<1>7. CASE Cardinality(rows) <= limit
  <2>1. page = ks
    BY <1>1, <1>2, <1>7, LastPageHoldsAll
  <2>2. NextCursor(r, after, limit) = 0
    <3> HIDE DEF rows, page
    <3> QED BY <1>1, <1>4, <1>6, <1>7
  <2> HIDE DEF page
  <2> QED BY <1>1, <2>1, <2>2 DEF page
<1>8. CASE Cardinality(rows) > limit
  <2>1. page # {}
    <3>1. rows # {}
      <4> HIDE DEF rows
      <4>1. ASSUME rows = {} PROVE Cardinality(rows) = 0
        BY <4>1, FS_EmptySet
      <4>2. Cardinality(rows) # 0
        BY <1>1, <1>6, <1>8
      <4> QED BY <4>1, <4>2
    <3>2. PICK k \in ks : \A j \in ks : k <= j
      BY <1>2, <1>5, <3>1, LeastExists
    <3>3. {j \in ks : j < k} = {}
      <4>1. k \in Nat /\ \A j \in ks : j \in Nat /\ k <= j
        BY <1>2, <3>2
      <4>2. \A j \in ks : ~(j < k)
        BY <4>1
      <4> QED BY <4>2
    <3>4. Cardinality({j \in ks : j < k}) < limit
      BY <1>1, <3>3, FS_EmptySet
    <3>5. k \in page
      BY <3>4 DEF First
    <3> QED BY <3>5
  <2>2. PICK last : last = LastOf(page)
    OBVIOUS
  <2>3. last \in ks /\ page = {k \in ks : k <= last}
    <3>1. limit \in Nat
      BY <1>1
    <3>2. LastOf(page) \in ks /\ \A k \in ks : k \in page <=> k <= LastOf(page)
      <4> HIDE DEF ks, end
      <4> QED BY <1>1, <1>2, <2>1, <3>1, PageHoldsAllSoFar
    <3>3. page \in SUBSET ks
      BY DEF First
    <3> HIDE DEF page, ks
    <3> QED BY <2>2, <3>2, <3>3
  <2>4. last \in (after + 1) .. end
    BY <2>3 DEF About
  <2>5. NextCursor(r, after, limit) = last /\ last # 0
    <3>1. NextCursor(r, after, limit) = last
      <4> HIDE DEF rows, page
      <4> QED BY <1>4, <1>8, <2>2
    <3> QED BY <1>1, <2>4, <3>1
  <2>6. {k \in ks : k <= last} = About(r, after, last)
    <3>1. {k \in (after + 1) .. end : k <= last} = (after + 1) .. last
      BY <1>1, <2>4
    <3> QED BY <3>1 DEF About
  <2>7. last \in Nat /\ last \in after .. end
    BY <1>1, <2>4
  <2> QED BY <2>3, <2>5, <2>6, <2>7
<1> QED BY <1>1, <1>6, <1>7, <1>8

(* What is on the pages an Owner got, and how the next page continues.     *)
PageOK(q) ==
    /\ q.seen = About(q.resource, 0, q.covered)
    /\ q.told = Cardinality(q.seen)
    /\ q.covered <= Len(log)
    /\ q.cursor \in {0, q.covered}

PagesInv ==
    /\ reading \in [Owners -> Progress]
    /\ \A o \in Owners : PageOK(reading[o])

LogGrows == log' = log \/ \E e \in Event : log' = Append(log, e)

LEMMA TrailGrows ==
  ASSUME Inv, [Next]_vars
  PROVE  LogGrows
<1>1. ASSUME NEW kind \in Kinds, NEW r \in Resources \cup {None},
             NEW s \in Subjects \cup {None}, Recorded(kind, r, s)
      PROVE  LogGrows
  BY <1>1 DEF Recorded, Event, LogGrows
<1>2. ASSUME NEW c \in Calls, NEW kind \in Kinds, Audited(c, kind),
             call[c].approval \in Approvals
      PROVE  LogGrows
  BY <1>1, <1>2, Nones DEF Audited
<1>3. CASE UNCHANGED log
  BY <1>3 DEF LogGrows
<1>4. CASE Around
  <2>1. ASSUME NEW o \in Owners, NEW r \in Resources, Deny(o, r)
        PROVE  LogGrows
    BY <1>1, <2>1, OtherKinds DEF Deny
  <2> QED BY <1>3, <1>4, <2>1
          DEF Around, Tick, SelectPolicy, Relate, Approve, ConfigureResource,
              trailVars, TrailNext, Enter, Forget, ListForOwner
<1>5. ASSUME NEW c \in Calls, CallStep(c)
      PROVE  LogGrows
  <2>1. CASE Check(c)
    <3>1. call[c].approval \in Approvals
      BY <2>1, RunningAt DEF Inv, Check
    <3> QED BY <1>2, <1>3, <2>1, <3>1, OtherKinds DEF Check
  <2>2. CASE AddEvent(c)
    <3>1. call[c].approval \in Approvals
      BY <2>2, RunningAt DEF Inv, AddEvent
    <3> QED BY <1>2, <1>3, <2>2, <3>1, OtherKinds DEF AddEvent
  <2>3. CASE Refuse(c)
    <3>1. call[c].approval \in Approvals
      BY <2>3, RunningAt DEF Inv, Refuse
    <3>2. \E r \in Resources :
            Recorded("action_grant_rejected", r, call[c].approval)
      BY <2>3, <3>1, Nones DEF Refuse, Presented
    <3> QED BY <1>1, <3>1, <3>2, OtherKinds, Nones
  <2>4. CASE RecordUnknown(c)
    <3>1. call[c].approval \in Approvals
      BY <2>4, RunningAt DEF Inv, RecordUnknown
    <3> QED BY <1>2, <2>4, <3>1, OtherKinds DEF RecordUnknown
  <2> QED BY <1>3, <1>5, <2>1, <2>2, <2>3, <2>4
          DEF CallStep, ReadApproval, ReadGrant, FindReceipt,
              CheckPreconditions, Reserve, ExecuteOnce, Complete,
              LookForEvent, MarkAudited, Stop, trailVars
<1>6. CASE UNCHANGED vars
  BY <1>3, <1>6 DEF vars, trailVars
<1>7. ASSUME NEW c \in Calls, NEW a \in Approvals, NEW revision \in Revisions,
             NEW fits \in BOOLEAN, Begin(c, a, revision, fits)
      PROVE  LogGrows
  BY <1>3, <1>7 DEF Begin, trailVars
<1> QED BY <1>4, <1>5, <1>6, <1>7 DEF Next

(* Only a page moves what an Owner has read.                               *)
LEMMA ReadersMove ==
  ASSUME [Next]_vars
  PROVE  \/ UNCHANGED reading
         \/ \E o \in Owners :
               \/ Forget(o)
               \/ \E r \in Resources, limit \in Limits :
                     ListForOwner(o, r, limit)
<1>1. CASE Around
  BY <1>1 DEF Around, Tick, SelectPolicy, Relate, Approve, ConfigureResource,
              trailVars, readerVars, TrailNext, Enter, Deny
<1>2. ASSUME NEW c \in Calls, CallStep(c)
      PROVE  UNCHANGED reading
  BY <1>2 DEF CallStep, ReadApproval, ReadGrant, FindReceipt, Check,
              CheckPreconditions, Reserve, ExecuteOnce, Complete,
              LookForEvent, AddEvent, MarkAudited, Refuse, RecordUnknown,
              Stop, trailVars, readerVars
<1>3. ASSUME NEW c \in Calls, NEW a \in Approvals, NEW revision \in Revisions,
             NEW fits \in BOOLEAN, Begin(c, a, revision, fits)
      PROVE  UNCHANGED reading
  BY <1>3 DEF Begin, trailVars, readerVars
<1>4. CASE UNCHANGED vars
  BY <1>4 DEF vars, trailVars, readerVars
<1> QED BY <1>1, <1>2, <1>3, <1>4 DEF Next

(* Appending to the trail takes nothing from pages already read.           *)
LEMMA PagesLast ==
  ASSUME log \in Seq(Event), LogGrows, NEW q \in Progress, PageOK(q)
  PROVE  PageOK(q)'
<1>1. q.covered \in Nat
  BY DEF Progress
<1>2. /\ Len(log) \in Nat /\ Len(log') \in Nat /\ Len(log) <= Len(log')
      /\ \A k \in 1 .. Len(log) : log'[k] = log[k]
  BY DEF LogGrows
<1>3. \A k \in 1 .. q.covered : log'[k] = log[k]
  <2>1. q.covered <= Len(log)
    BY DEF PageOK
  <2> QED BY <1>1, <1>2, <2>1
<1>4. About(q.resource, 0, q.covered)' = About(q.resource, 0, q.covered)
  BY <1>1, <1>3 DEF About
<1> QED BY <1>1, <1>2, <1>4 DEF PageOK

LEMMA ListKeepsPages ==
  ASSUME log \in Seq(Event), PagesInv, NEW o \in Owners,
         NEW r \in Resources, NEW limit \in Limits, ListForOwner(o, r, limit)
  PROVE  PagesInv'
<1> DEFINE now == reading[o]
           end == Len(log)
           page == First(About(r, now.cursor, end), limit)
           next == NextCursor(r, now.cursor, limit)
           covered == IF next = 0 THEN end ELSE next
           then == [resource |-> r, cursor |-> next,
                    seen |-> now.seen \cup page,
                    told |-> now.told + Cardinality(page),
                    covered |-> covered]
<1>0. PICK q : q = then
  OBVIOUS
<1>1. /\ reading' = [reading EXCEPT ![o] = q]
      /\ log' = log
      /\ now = Unread \/ (now.resource = r /\ now.cursor > 0)
  <2>1. reading' = [reading EXCEPT ![o] = then]
    BY DEF ListForOwner
  <2>2. log' = log /\ (now = Unread \/ (now.resource = r /\ now.cursor > 0))
    BY DEF ListForOwner
  <2> HIDE DEF then
  <2> QED BY <1>0, <2>1, <2>2
<1>2. now \in Progress /\ PageOK(now)
  BY DEF PagesInv
<1>3. end \in Nat /\ limit \in Nat \ {0}
  BY TrailAssumption
<1>4. now.cursor \in 0 .. end
  <2>1. now.cursor \in Nat /\ now.covered \in Nat
    BY <1>2 DEF Progress
  <2> QED BY <1>2, <1>3, <2>1 DEF PageOK
<1>5. now.seen = About(r, 0, now.cursor)
  <2>1. CASE now = Unread
    <3>1. now.seen = {} /\ now.cursor = 0
      BY <2>1 DEF Unread
    <3> QED BY <3>1 DEF About
  <2>2. CASE now.resource = r /\ now.cursor > 0
    <3>1. now.cursor = now.covered
      BY <1>2, <1>4, <2>2 DEF PageOK
    <3> QED BY <1>2, <2>2, <3>1 DEF PageOK
  <2> QED BY <1>1, <2>1, <2>2
<1>6. now.told = Cardinality(now.seen)
  BY <1>2 DEF PageOK
<1>7. /\ next \in Nat /\ covered \in now.cursor .. end
      /\ page = About(r, now.cursor, covered)
  BY <1>3, <1>4, PageIsExact
<1> HIDE DEF now, end, page, next
<1>8. covered \in Nat /\ covered <= end /\ now.cursor \in Nat
      /\ now.cursor <= covered
  BY <1>3, <1>4, <1>7
<1>9. next \in {0, covered}
  OBVIOUS
<1> HIDE DEF covered
<1>10. /\ now.seen \cup page = About(r, 0, covered)
       /\ now.seen \cap page = {}
  <2>1. /\ 1 .. covered = 1 .. now.cursor \cup (now.cursor + 1) .. covered
        /\ 1 .. now.cursor \cap (now.cursor + 1) .. covered = {}
    BY <1>8
  <2>2. /\ now.seen = {k \in 1 .. now.cursor : log[k].resource = r}
        /\ page = {k \in (now.cursor + 1) .. covered : log[k].resource = r}
        /\ About(r, 0, covered) = {k \in 1 .. covered : log[k].resource = r}
    BY <1>5, <1>7 DEF About
  <2> QED BY <2>1, <2>2
<1>11. /\ IsFiniteSet(now.seen) /\ Cardinality(now.seen) \in Nat
       /\ IsFiniteSet(page) /\ Cardinality(page) \in Nat
       /\ About(r, 0, covered) \in SUBSET Nat
  <2>0. 0 \in Nat /\ now.cursor \in Nat /\ covered \in Nat
    BY <1>8
  <2>1. /\ IsFiniteSet(About(r, 0, now.cursor))
        /\ Cardinality(About(r, 0, now.cursor)) \in Nat
    BY <2>0, AboutIsBounded
  <2>2. About(r, 0, covered) \in SUBSET Nat
    BY <2>0, AboutIsBounded
  <2>3. /\ IsFiniteSet(About(r, now.cursor, covered))
        /\ Cardinality(About(r, now.cursor, covered)) \in Nat
    BY <2>0, AboutIsBounded
  <2>4. page = About(r, now.cursor, covered)
    BY <1>7
  <2> HIDE DEF page
  <2> QED BY <1>5, <2>1, <2>2, <2>3, <2>4
<1>12. Cardinality(now.seen \cup page) = now.told + Cardinality(page)
  <2>1. Cardinality(now.seen \cup page)
          = Cardinality(now.seen) + Cardinality(page)
              - Cardinality(now.seen \cap page)
    BY <1>11, FS_Union
  <2>2. Cardinality(now.seen \cap page) = 0
    BY <1>10, FS_EmptySet
  <2> QED BY <1>6, <1>11, <2>1, <2>2
<1>13. /\ q \in Progress
       /\ q.seen = now.seen \cup page
       /\ q.told = now.told + Cardinality(page)
       /\ q.resource = r /\ q.covered = covered /\ q.cursor = next
  <2>1. now.told + Cardinality(page) \in Nat
    BY <1>6, <1>11
  <2> QED BY <1>0, <1>7, <1>8, <1>10, <1>11, <2>1 DEF Progress
<1> HIDE DEF then
<1>14. PageOK(q)
  <2>1. q.seen = About(q.resource, 0, q.covered)
    BY <1>10, <1>13
  <2>2. q.told = Cardinality(q.seen)
    BY <1>12, <1>13
  <2>3. q.covered <= Len(log) /\ q.cursor \in {0, q.covered}
    BY <1>8, <1>9, <1>13 DEF end
  <2> QED BY <2>1, <2>2, <2>3 DEF PageOK
<1>15. PageOK(q)'
  BY <1>1, <1>14 DEF PageOK, About
<1>16. ASSUME NEW p \in Owners PROVE PageOK(reading[p])'
  <2>1. PageOK(reading[p])
    BY DEF PagesInv
  <2>2. reading'[p] = IF p = o THEN q ELSE reading[p]
    BY <1>1 DEF PagesInv
  <2>3. PICK was : was = reading[p]
    OBVIOUS
  <2>4. PageOK(was)'
    BY <1>1, <2>1, <2>3 DEF PageOK, About
  <2>5. PICK new : new = reading'[p]
    OBVIOUS
  <2>6. PageOK(new)'
    BY <1>15, <2>2, <2>3, <2>4, <2>5
  <2> QED BY <2>5, <2>6 DEF PageOK, About
<1>17. reading' \in [Owners -> Progress]
  BY <1>1, <1>13 DEF PagesInv
<1> QED BY <1>16, <1>17 DEF PagesInv

LEMMA PagesStep ==
  ASSUME Inv, PagesInv, [Next]_vars
  PROVE  PagesInv'
<1>1. log \in Seq(Event) /\ LogGrows
  BY TrailGrows DEF Inv, StoreInv
<1>2. ASSUME NEW q \in Progress, PageOK(q) PROVE PageOK(q)'
  BY <1>1, <1>2, PagesLast
<1>3. CASE UNCHANGED reading
  <2>1. ASSUME NEW o \in Owners PROVE PageOK(reading[o])'
    <3>1. PICK q : q = reading[o]
      OBVIOUS
    <3>2. q \in Progress /\ PageOK(q)
      BY <3>1 DEF PagesInv
    <3>3. PageOK(q)' /\ reading'[o] = q
      BY <1>2, <1>3, <3>1, <3>2
    <3> QED BY <3>3
  <2> QED BY <1>3, <2>1 DEF PagesInv
<1>4. ASSUME NEW o \in Owners, Forget(o) PROVE PagesInv'
  <2>1. Unread \in Progress /\ PageOK(Unread)'
    <3>1. About(None, 0, 0)' = {}
      BY DEF About
    <3>2. Len(log') \in Nat
      BY <1>1 DEF LogGrows
    <3> QED BY <3>1, <3>2, FS_EmptySet DEF Unread, Progress, PageOK
  <2>2. reading' = [reading EXCEPT ![o] = Unread]
    BY <1>4 DEF Forget
  <2>3. ASSUME NEW p \in Owners PROVE PageOK(reading[p])'
    <3>1. PICK q : q = reading'[p]
      OBVIOUS
    <3>2. q = Unread \/ q = reading[p]
      BY <2>2, <3>1 DEF PagesInv
    <3>3. PageOK(q)'
      BY <1>2, <2>1, <3>2 DEF PagesInv
    <3> QED BY <3>1, <3>3
  <2> QED BY <2>1, <2>2, <2>3 DEF PagesInv
<1> QED BY <1>1, <1>3, <1>4, ReadersMove, ListKeepsPages

LEMMA InitPages == Init => PagesInv
<1> SUFFICES ASSUME Init PROVE PagesInv
  OBVIOUS
<1>1. log = <<>> /\ reading = [o \in Owners |-> Unread]
  BY DEF Init, TrailInit
<1>2. Unread \in Progress /\ PageOK(Unread)
  <2>1. About(None, 0, 0) = {}
    BY DEF About
  <2> QED BY <1>1, <2>1, FS_EmptySet DEF Unread, Progress, PageOK
<1> QED BY <1>1, <1>2 DEF PagesInv

LEMMA InvTypeOK == Inv /\ PagesInv => TypeOK
<1> SUFFICES ASSUME Inv, PagesInv PROVE TypeOK
  OBVIOUS
<1>1. \A c \in Calls : call[c] \in {None, Over} \/ call[c] \in Call
  BY DEF Inv, CallsInv, CallOK
<1> QED BY <1>1 DEF Inv, WorldInv, StoreInv, PagesInv, TypeOK

LEMMA InvAgree == Inv => LedgersAgree
<1> SUFFICES ASSUME Inv PROVE LedgersAgree
  OBVIOUS
<1>1. \A a \in Approvals : Agrees(a) /\ Told(a)
  BY DEF Inv, StoreInv
<1>2. ExecutedAsReserved
  BY <1>1 DEF ExecutedAsReserved, Agrees
<1>3. CompletionsAreAudited
  BY <1>1 DEF CompletionsAreAudited, Told
<1> QED BY <1>2, <1>3 DEF LedgersAgree

(* Rows, receipts, calls and the audit trail of the consumption of grants  *)
(* are always well typed (ConsumeApprovalGrantService).                    *)
THEOREM TypeCorrect == Spec => []TypeOK
<1>1. Spec => [](Inv /\ PagesInv)
  BY InitInv, InitPages, NextInv, PagesStep, PTL DEF Spec
<1> QED BY <1>1, InvTypeOK, PTL

(* Row, executor and trail never contradict each other, wherever the calls *)
(* of ConsumeApprovalGrantService.consume stop.                            *)
THEOREM LedgersAlwaysAgree == Spec => []LedgersAgree
<1>1. Spec => []Inv
  BY InitInv, NextInv, PTL DEF Spec
<1> QED BY <1>1, InvAgree, PTL

(* The consumption of grants implements OneShot: an approved action is     *)
(* authorized once, performed at most once and confirmed after that.       *)
THEOREM ConsumesOnce == Spec => ImplementsOneShot
<1>1. Spec => []Inv
  BY InitInv, NextInv, PTL DEF Spec
<1> QED BY <1>1, InitOneShot, NextInv, PTL
        DEF Spec, ImplementsOneShot, S!SSpec

(* Whatever is recorded and denied between them, the pages an Owner got    *)
(* hold each event of the resource exactly once                            *)
(* (SQLiteAuditQueryRepository.list_for_owner).                            *)
THEOREM PagesAlwaysExact == Spec => []PagesAreExact
<1>1. Spec => [](Inv /\ PagesInv)
  BY InitInv, InitPages, NextInv, PagesStep, PTL DEF Spec
<1>2. PagesInv => PagesAreExact
  BY DEF PagesInv, PageOK, PagesAreExact
<1> QED BY <1>1, <1>2, PTL
=============================================================================
