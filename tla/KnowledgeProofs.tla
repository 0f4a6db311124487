-------------------------- MODULE KnowledgeProofs ---------------------------
(***************************************************************************)
(* Proofs about Knowledge and MemoryApplicability, for any Evidence, any   *)
(* requests, any number of records, Memories and assessors and any history *)
(* of the branch.                                                          *)
(*                                                                         *)
(* A history says "validated" at most once, as its second event, and       *)
(* nothing after "conflicted" (OneWay): with that the event a Memory       *)
(* remembers (MemoriesRemember) is the only one that can validate it.  The *)
(* registry holds the runs a registered run repeats (RegistryIsClosed),    *)
(* without which the search of RelatedRuns would not reach every           *)
(* repetition.  Overlapping assessments are kept in order by what a call   *)
(* knows while nobody else has appended (CallsLookAhead).                  *)
(***************************************************************************)
EXTENDS MemoryApplicability, TLAPS

RegistryIsClosed == \A e \in registry : RetryIsValid(e, registry)

OneWay(h) ==
    /\ h # << >> => h[1].to \in {"claimed", "observed"}
    /\ \A i \in DOMAIN h :
           /\ i > 1 => h[i].to \in {"validated", "conflicted"}
           /\ h[i].to = "validated" => i = 2
           /\ h[i].to = "conflicted" => i = Len(h)

HistoriesAreOneWay ==
    \A r \in RecordIds : /\ records[r] = None <=> events[r] = << >>
                         /\ OneWay(events[r])

Remembers(m) ==
    LET history == events[memories[m].record]
    IN  /\ memories[m].event \in DOMAIN history
        /\ history[memories[m].event].to = "validated"
        /\ memories[m].evidence = history[memories[m].event].evidence

MemoriesRemember == \A m \in MemoryIds : memories[m] # None => Remembers(m)

KnowledgeInv ==
    /\ KnowledgeTypeOK
    /\ RegistryIsClosed
    /\ HistoriesAreOneWay
    /\ MemoriesRemember
----------------------------------------------------------------------------
USE FactsAssumption, RequestsAssumption, PriorAssumption, NoneAssumption,
    HeadAssumption

LEMMA FactsOfTests ==
    ASSUME NEW e \in Tests
    PROVE  /\ e \in Evidences
           /\ Facts[e].commit \in Nat
           /\ Facts[e].attempt \in {1, 2}
           /\ Facts[e].retryOf \in Evidences \cup {None}
BY DEF Tests

LEMMA FactsHaveCommits ==
    ASSUME NEW e \in Evidences
    PROVE  Facts[e].commit \in Nat
OBVIOUS

(* What an append does to a history. *)
LEMMA Appended ==
    ASSUME NEW h \in Seq(Event), NEW v \in Event
    PROVE  /\ Append(h, v) \in Seq(Event)
           /\ Len(Append(h, v)) = Len(h) + 1
           /\ DOMAIN Append(h, v) = 1 .. Len(h) + 1
           /\ DOMAIN h = 1 .. Len(h)
           /\ Append(h, v) # << >>
           /\ \A i \in 1 .. Len(h) : Append(h, v)[i] = h[i]
           /\ Append(h, v)[Len(h) + 1] = v
           /\ Last(Append(h, v)) = v
BY DEF Last

(* decide_epistemic_event keeps a history one-way. *)
LEMMA AllowedKeepsOneWay ==
    ASSUME NEW h \in Seq(Event), NEW v \in Event, h # << >>, OneWay(h),
           v.to \in Allowed(Last(h).to)
    PROVE  /\ OneWay(Append(h, v))
           /\ v.to \in {"validated", "conflicted"}
<1>1. /\ Len(h) \in Nat /\ Len(h) >= 1 /\ DOMAIN h = 1 .. Len(h)
      /\ Last(h) = h[Len(h)] /\ Len(h) \in DOMAIN h /\ 1 \in DOMAIN h
    BY DEF Last
<1>2. \/ Last(h).to = "observed" /\ v.to \in {"validated", "conflicted"}
      \/ Last(h).to = "validated" /\ v.to = "conflicted"
    BY DEF Allowed
<1>3. \A i \in DOMAIN h : h[i].to # "conflicted"
    BY <1>1, <1>2 DEF OneWay
<1>4. v.to = "validated" => Len(h) = 1
    BY <1>1, <1>2 DEF OneWay
<1>5. ASSUME NEW i \in DOMAIN Append(h, v)
      PROVE  /\ i > 1 => Append(h, v)[i].to \in {"validated", "conflicted"}
             /\ Append(h, v)[i].to = "validated" => i = 2
             /\ Append(h, v)[i].to = "conflicted" => i = Len(Append(h, v))
    <2>1. CASE i \in 1 .. Len(h)
        <3>1. i \in DOMAIN h /\ Append(h, v)[i] = h[i]
            BY <1>1, <2>1, Appended
        <3>. QED
            BY <3>1, <1>3 DEF OneWay
    <2>2. CASE i = Len(h) + 1
        <3>1. Append(h, v)[i] = v /\ i = Len(Append(h, v))
            BY <2>2, Appended
        <3>. QED
            BY <1>1, <1>2, <1>4, <2>2, <3>1
    <2>. QED
        BY <2>1, <2>2, <1>1, <1>5, Appended
<1>6. Append(h, v)[1].to \in {"claimed", "observed"}
    BY <1>1, Appended DEF OneWay
<1>. QED
    BY <1>2, <1>5, <1>6, Appended DEF OneWay
----------------------------------------------------------------------------
LEMMA InitKnowledgeInv == KnowledgeInit => KnowledgeInv
<1> SUFFICES ASSUME KnowledgeInit
             PROVE  KnowledgeInv
    OBVIOUS
<1>1. KnowledgeTypeOK
    BY DEF KnowledgeInit, KnowledgeTypeOK
<1>2. RegistryIsClosed
    BY DEF KnowledgeInit, RegistryIsClosed
<1>3. HistoriesAreOneWay
    BY DEF KnowledgeInit, HistoriesAreOneWay, OneWay
<1>4. MemoriesRemember
    BY DEF KnowledgeInit, MemoriesRemember
<1>. QED
    BY <1>1, <1>2, <1>3, <1>4 DEF KnowledgeInv

LEMMA RegisterKeeps ==
    ASSUME KnowledgeInv, NEW e \in Evidences, Register(e)
    PROVE  KnowledgeInv'
<1>1. registry' = registry \cup {e} /\ RetryIsValid(e, registry)
    BY DEF Register
<1>2. KnowledgeTypeOK'
    BY <1>1 DEF Register, KnowledgeInv, KnowledgeTypeOK
<1>3. RegistryIsClosed'
    BY <1>1 DEF KnowledgeInv, RegistryIsClosed, RetryIsValid
<1>4. HistoriesAreOneWay' /\ MemoriesRemember'
    BY DEF Register, KnowledgeInv, HistoriesAreOneWay, MemoriesRemember, Remembers
<1>. QED
    BY <1>2, <1>3, <1>4 DEF KnowledgeInv

LEMMA CreateKeeps ==
    ASSUME KnowledgeInv, NEW q \in Requests, NEW r \in RecordIds,
           CreateWorkRecord(q, r)
    PROVE  /\ KnowledgeInv'
           /\ Len(events'[r]) = 1
           /\ \A s \in RecordIds \ {r} : events'[s] = events[s]
<1> DEFINE v == InitialEvent(q)
<1>1. v \in Event /\ v.to \in {"claimed", "observed"}
    BY DEF InitialEvent, Event, Statuses
<1> HIDE DEF v
<1>2. /\ records[r] = None
      /\ records' = [records EXCEPT ![r] = q]
      /\ events' = [events EXCEPT ![r] = <<v>>]
      /\ UNCHANGED <<registry, memories>>
    BY DEF CreateWorkRecord, v
<1>3. KnowledgeTypeOK'
    BY <1>1, <1>2 DEF KnowledgeInv, KnowledgeTypeOK
<1>4. RegistryIsClosed'
    BY <1>2 DEF KnowledgeInv, RegistryIsClosed
<1>5. /\ events'[r] = <<v>> /\ records'[r] = q
      /\ \A s \in RecordIds \ {r} : /\ events'[s] = events[s]
                                     /\ records'[s] = records[s]
    BY <1>2 DEF KnowledgeInv, KnowledgeTypeOK
<1>6. OneWay(<<v>>)
    BY <1>1 DEF OneWay
<1>7. HistoriesAreOneWay'
    BY <1>5, <1>6 DEF KnowledgeInv, HistoriesAreOneWay
<1>8. MemoriesRemember'
    <2>1. \A m \in MemoryIds : memories[m] # None => memories[m].record \in RecordIds
        BY DEF KnowledgeInv, KnowledgeTypeOK, Memory
    <2>2. \A m \in MemoryIds : memories[m] # None => memories[m].record # r
        BY <1>2 DEF KnowledgeInv, HistoriesAreOneWay, MemoriesRemember, Remembers
    <2>. QED
        BY <1>2, <1>5, <2>1, <2>2 DEF KnowledgeInv, MemoriesRemember, Remembers
<1>. QED
    BY <1>3, <1>4, <1>5, <1>7, <1>8 DEF KnowledgeInv

(* What is common to a validation and a dispute. *)
LEMMA AppendKeeps ==
    ASSUME KnowledgeInv, NEW r \in RecordIds, records[r] # None,
           NEW to, NEW cited \in SUBSET Evidences,
           AppendEvent(r, to, cited), UNCHANGED <<registry, records, memories>>
    PROVE  /\ KnowledgeInv'
           /\ to \in {"validated", "conflicted"}
           /\ Last(events'[r]) = [to |-> to, evidence |-> cited]
           /\ \A s \in RecordIds \ {r} : events'[s] = events[s]
<1> DEFINE v == [to |-> to, evidence |-> cited]
           h == events[r]
<1>1. h \in Seq(Event) /\ h # << >> /\ OneWay(h)
    BY DEF KnowledgeInv, KnowledgeTypeOK, HistoriesAreOneWay
<1>2. to \in {"validated", "conflicted"}
    BY DEF AppendEvent, Allowed
<1>3. v \in Event /\ v.to = to
    BY <1>2 DEF Event, Statuses
<1>4. events' = [events EXCEPT ![r] = Append(h, v)] /\ v.to \in Allowed(Last(h).to)
    BY DEF AppendEvent
<1> HIDE DEF v
<1>5. /\ events'[r] = Append(h, v)
      /\ \A s \in RecordIds \ {r} : events'[s] = events[s]
      /\ events' \in [RecordIds -> Seq(Event)]
    BY <1>1, <1>3, <1>4 DEF KnowledgeInv, KnowledgeTypeOK
<1>6. KnowledgeTypeOK' /\ RegistryIsClosed'
    BY <1>5 DEF KnowledgeInv, KnowledgeTypeOK, RegistryIsClosed
<1>7. OneWay(Append(h, v)) /\ Append(h, v) # << >>
    BY <1>1, <1>3, <1>4, AllowedKeepsOneWay, Appended
<1>8. HistoriesAreOneWay'
    BY <1>5, <1>7 DEF KnowledgeInv, HistoriesAreOneWay
<1>9. MemoriesRemember'
    <2> SUFFICES ASSUME NEW m \in MemoryIds, memories[m] # None
                 PROVE  Remembers(m)'
        BY DEF MemoriesRemember
    <2>1. memories[m].record \in RecordIds /\ Remembers(m)
        BY DEF KnowledgeInv, KnowledgeTypeOK, Memory, MemoriesRemember
    <2>2. CASE memories[m].record # r
        BY <1>5, <2>1, <2>2 DEF Remembers
    <2>3. CASE memories[m].record = r
        <3>1. memories[m].event \in 1 .. Len(h)
            BY <1>1, <2>1, <2>3 DEF Remembers
        <3>2. /\ memories[m].event \in DOMAIN Append(h, v)
              /\ Append(h, v)[memories[m].event] = h[memories[m].event]
            BY <1>1, <1>3, <3>1, Appended
        <3>. QED
            BY <1>5, <2>1, <2>3, <3>2 DEF Remembers
    <2>. QED
        BY <2>2, <2>3
<1>10. Last(events'[r]) = [to |-> to, evidence |-> cited]
    BY <1>1, <1>3, <1>5, Appended DEF v
<1>. QED
    BY <1>2, <1>5, <1>6, <1>8, <1>9, <1>10 DEF KnowledgeInv
----------------------------------------------------------------------------
(* There are runs, and the last one of the series passed. *)
SeriesPassed(q, cited) ==
    /\ cited # {}
    /\ \A c \in cited :
         \/ Passed(c)
         \/ /\ q.claim = "code_adaptation"
            /\ \E e \in cited : Facts[e].retryOf = c

(* What a rule has looked at when it decides. *)
LEMMA AssessedSeries ==
    ASSUME NEW q \in Requests, NEW rule \in Rules, Assess(q, rule) # None
    PROVE  LET cited == Members(q.tests)
           IN  /\ cited \subseteq Tests
               /\ CompleteSeries(cited)
               /\ EvidenceOf(q) \in SUBSET Evidences
               /\ EvidenceOf(q) \cap Tests = cited
               /\ Assess(q, rule) = "validated" => SeriesPassed(q, cited)
<1> DEFINE cited == Members(q.tests)
<1>1. "conflicted" # "validated" /\ None # "validated"
    BY DEF Statuses
<1>2. CASE rule = "test_success"
    <2>1. /\ q.claim = "test_success" /\ cited # {}
          /\ cited \subseteq Tests /\ CompleteSeries(cited)
          /\ Assess(q, rule) = Verdict(\A e \in cited : Passed(e))
        BY <1>2 DEF Assess, AssessTestSuccess
    <2>2. EvidenceOf(q) = cited
        BY <2>1 DEF EvidenceOf
    <2>3. Assess(q, rule) = "validated" => \A e \in cited : Passed(e)
        BY <2>1, <1>1 DEF Verdict
    <2>. QED
        BY <2>1, <2>2, <2>3 DEF SeriesPassed, Tests
<1>3. CASE rule = "code_adaptation"
    <2>1. /\ q.claim = "code_adaptation"
          /\ Len(q.tests) \in {1, 2}
          /\ q.git \in Evidences \ cited
          /\ Facts[q.git].kind = "git"
          /\ cited \subseteq Tests /\ CompleteSeries(cited)
          /\ Assess(q, rule) = Verdict(/\ Facts[q.git].adapts
                                      /\ Chain(q.tests, Facts[q.git].commit)
                                      /\ PriorFailures(q.tests)
                                      /\ Passed(Last(q.tests)))
        BY <1>3 DEF Assess, AssessCodeAdaptation
    <2>2. EvidenceOf(q) = cited \cup {q.git} /\ q.git \notin Tests
        BY <2>1 DEF EvidenceOf, Tests
    <2>3. SUFFICES ASSUME Assess(q, rule) = "validated"
                   PROVE  SeriesPassed(q, cited)
        BY <2>1, <2>2 DEF Tests
    <2>4. Passed(Last(q.tests)) /\ Chain(q.tests, Facts[q.git].commit)
        BY <2>1, <2>3, <1>1 DEF Verdict
    <2>5. Last(q.tests) \in cited
        BY <2>1 DEF Last, Members
    <2>6. ASSUME NEW c \in cited, ~Passed(c)
          PROVE  \E e \in cited : Facts[e].retryOf = c
        <3>1. PICK i \in DOMAIN q.tests : c = q.tests[i]
            BY <2>6 DEF Members
        <3>2. DOMAIN q.tests = 1 .. Len(q.tests)
            BY RequestsAssumption
        <3>3. i = 1 /\ Len(q.tests) = 2
            BY <2>1, <2>4, <2>6, <3>1, <3>2 DEF Last
        <3>4. Facts[q.tests[2]].retryOf = c
            BY <2>4, <3>1, <3>2, <3>3 DEF Chain
        <3>. QED
            BY <3>2, <3>3, <3>4 DEF Members
    <2>. QED
        BY <2>1, <2>5, <2>6 DEF SeriesPassed
<1>. QED
    BY <1>2, <1>3 DEF Rules

LEMMA ValidateKeeps ==
    ASSUME KnowledgeInv, NEW r \in RecordIds, NEW rule \in Rules,
           ValidateWorkRecord(r, rule)
    PROVE  /\ KnowledgeInv'
           /\ \A s \in RecordIds \ {r} : events'[s] = events[s]
           /\ LET seen == Last(events'[r])
                  cited == seen.evidence
              IN  /\ cited \cap Tests = Members(records[r].tests)
                  /\ CompleteSeries(cited \cap Tests)
                  /\ seen.to = "validated" => SeriesPassed(records[r], cited \cap Tests)
<1> DEFINE q == records[r]
<1>1. q \in Requests
    BY DEF ValidateWorkRecord, KnowledgeInv, KnowledgeTypeOK
<1>2. /\ AppendEvent(r, Assess(q, rule), EvidenceOf(q))
      /\ records[r] # None /\ UNCHANGED <<registry, records, memories>>
    BY DEF ValidateWorkRecord
<1>3. Assess(q, rule) # None
    BY <1>2 DEF AppendEvent, Allowed, Statuses
<1>4. /\ CompleteSeries(Members(q.tests))
      /\ EvidenceOf(q) \in SUBSET Evidences
      /\ EvidenceOf(q) \cap Tests = Members(q.tests)
      /\ Assess(q, rule) = "validated" => SeriesPassed(q, Members(q.tests))
    BY <1>1, <1>3, AssessedSeries
<1> HIDE DEF q
<1>5. /\ KnowledgeInv'
      /\ Last(events'[r]) = [to |-> Assess(q, rule), evidence |-> EvidenceOf(q)]
      /\ \A s \in RecordIds \ {r} : events'[s] = events[s]
    BY <1>2, <1>4, AppendKeeps
<1>6. /\ Last(events'[r]).to = Assess(q, rule)
      /\ Last(events'[r]).evidence = EvidenceOf(q)
    BY <1>5
<1>7. /\ Last(events'[r]).evidence \cap Tests = Members(q.tests)
      /\ CompleteSeries(Last(events'[r]).evidence \cap Tests)
      /\ Last(events'[r]).to = "validated"
            => SeriesPassed(q, Last(events'[r]).evidence \cap Tests)
    <2> DEFINE cited == Last(events'[r]).evidence \cap Tests
    <2>1. cited = Members(q.tests)
        BY <1>4, <1>6
    <2> HIDE DEF cited
    <2>2. /\ CompleteSeries(cited)
          /\ Last(events'[r]).to = "validated" => SeriesPassed(q, cited)
        BY <1>4, <1>6, <2>1
    <2>. QED
        BY <2>1, <2>2 DEF cited
<1>. QED
    BY <1>5, <1>7 DEF q

LEMMA DisputeKeeps ==
    ASSUME KnowledgeInv, NEW r \in RecordIds, Dispute(r)
    PROVE  /\ KnowledgeInv'
           /\ Last(events'[r]).to = "conflicted"
           /\ \A s \in RecordIds \ {r} : events'[s] = events[s]
<1>1. /\ records[r] # None /\ UNCHANGED <<registry, records, memories>>
      /\ AppendEvent(r, "conflicted", records[r].cites)
    BY DEF Dispute
<1>2. records[r].cites \in SUBSET Evidences
    BY <1>1 DEF KnowledgeInv, KnowledgeTypeOK
<1>3. /\ KnowledgeInv'
      /\ Last(events'[r]) = [to |-> "conflicted", evidence |-> records[r].cites]
      /\ \A s \in RecordIds \ {r} : events'[s] = events[s]
    BY <1>1, <1>2, AppendKeeps
<1>. QED
    BY <1>3

LEMMA PromoteKeeps ==
    ASSUME KnowledgeInv, NEW r \in RecordIds, NEW e \in Evidences,
           NEW m \in MemoryIds, PromoteMemory(r, e, m)
    PROVE  /\ KnowledgeInv'
           /\ \A n \in MemoryIds : memories[n] # None => memories'[n] = memories[n]
<1> DEFINE h == events[r]
           new == [record |-> r, event |-> Len(h), evidence |-> Last(h).evidence,
                   commit |-> Facts[e].commit]
<1>1. /\ records[r] # None /\ memories[m] = None
      /\ Last(h).to = "validated"
      /\ memories' = [memories EXCEPT ![m] = new]
      /\ UNCHANGED <<registry, records, events>>
    BY DEF PromoteMemory, Promotable
<1>2. h \in Seq(Event) /\ h # << >>
    BY <1>1 DEF KnowledgeInv, KnowledgeTypeOK, HistoriesAreOneWay
<1>3. Len(h) \in DOMAIN h /\ Len(h) \in Nat /\ Last(h) = h[Len(h)] /\ Last(h) \in Event
    BY <1>2 DEF Last
<1>4. new \in Memory
    BY <1>3, FactsHaveCommits DEF Memory, Event
<1>5. /\ new.record = r /\ new.event = Len(h) /\ new.evidence = Last(h).evidence
    OBVIOUS
<1> HIDE DEF new
<1>6. /\ memories'[m] = new
      /\ \A n \in MemoryIds \ {m} : memories'[n] = memories[n]
      /\ memories' \in [MemoryIds -> Memory \cup {None}]
    BY <1>1, <1>4 DEF KnowledgeInv, KnowledgeTypeOK
<1>7. KnowledgeTypeOK' /\ RegistryIsClosed' /\ HistoriesAreOneWay'
    BY <1>1, <1>6 DEF KnowledgeInv, KnowledgeTypeOK, RegistryIsClosed, HistoriesAreOneWay
<1>8. MemoriesRemember'
    BY <1>1, <1>3, <1>5, <1>6 DEF KnowledgeInv, MemoriesRemember, Remembers
<1>. QED
    BY <1>1, <1>6, <1>7, <1>8 DEF KnowledgeInv

LEMMA SameKnowledge ==
    ASSUME KnowledgeInv, UNCHANGED knowledgeVars
    PROVE  KnowledgeInv'
BY DEF knowledgeVars, KnowledgeInv, KnowledgeTypeOK, RegistryIsClosed,
       HistoriesAreOneWay, MemoriesRemember, Remembers

LEMMA KnowledgeStep ==
    ASSUME KnowledgeInv, [Next]_vars
    PROVE  /\ KnowledgeInv'
           /\ \A m \in MemoryIds : memories[m] # None => memories'[m] = memories[m]
<1>1. CASE KnowledgeNext
    <2>1. ASSUME NEW e \in Evidences, Register(e)
          PROVE  KnowledgeInv' /\ UNCHANGED memories
        BY <2>1, RegisterKeeps DEF Register
    <2>2. ASSUME NEW q \in Requests, NEW r \in RecordIds, CreateWorkRecord(q, r)
          PROVE  KnowledgeInv' /\ UNCHANGED memories
        BY <2>2, CreateKeeps DEF CreateWorkRecord
    <2>3. ASSUME NEW r \in RecordIds, NEW rule \in Rules, ValidateWorkRecord(r, rule)
          PROVE  KnowledgeInv' /\ UNCHANGED memories
        BY <2>3, ValidateKeeps DEF ValidateWorkRecord
    <2>4. ASSUME NEW r \in RecordIds, Dispute(r)
          PROVE  KnowledgeInv' /\ UNCHANGED memories
        BY <2>4, DisputeKeeps DEF Dispute
    <2>. QED
        BY <1>1, <2>1, <2>2, <2>3, <2>4, PromoteKeeps DEF KnowledgeNext
<1>2. CASE UNCHANGED knowledgeVars
    BY <1>2, SameKnowledge DEF knowledgeVars
<1>. QED
    BY <1>1, <1>2
    DEF Next, vars, Edit, Commit, AssessorStep, BeginAssessment, ReadHead,
        ReadEdits, RecheckHead, RecheckEdits, CheckFails, AppendAssessment, Reads,
        AddRevision
----------------------------------------------------------------------------
(* A series that is complete holds every registered run in the scope of    *)
(* one of its runs, and every registered repetition of one.                *)
LEMMA CompleteIsClosed ==
    ASSUME NEW cited \in SUBSET Evidences, CompleteSeries(cited)
    PROVE  NothingToAdd(cited, cited)
<1> SUFFICES ASSUME NEW e \in Registered,
                    \/ \E c \in cited \cap Tests : SameScope(e, c)
                    \/ Facts[e].retryOf \in cited
             PROVE  e \in cited
    BY DEF NothingToAdd
<1>1. ASSUME NEW found \in SUBSET (cited \cup Registered),
             cited \subseteq found, NothingToAdd(found, cited)
      PROVE  e \in found
    BY <1>1 DEF NothingToAdd
<1>2. e \in RelatedRuns(cited)
    BY <1>1 DEF RelatedRuns
<1>. QED
    BY <1>2 DEF CompleteSeries

(* Along the runs that lead to a registered one all are registered, and a  *)
(* complete series that holds one of them holds the next.                  *)
LEMMA RepetitionsAreCited ==
    ASSUME RegistryIsClosed, registry \subseteq Evidences,
           NEW cited \in SUBSET Tests, NothingToAdd(cited, cited),
           NEW e \in registry \cap Tests, NEW c \in cited, c \in Repeats(e)
    PROVE  e \in cited
<1> SUFFICES ASSUME e \notin cited
             PROVE  FALSE
    OBVIOUS
<1> DEFINE runs == Registered \ cited
<1>1. e \in runs /\ runs \in SUBSET Evidences
    BY DEF Registered
<1>2. ASSUME NEW x \in runs \cap Tests, Facts[x].retryOf # None
      PROVE  Facts[x].retryOf \in runs
    <2>1. Facts[x].retryOf \in Registered
        BY <1>2 DEF RegistryIsClosed, RetryIsValid, Registered
    <2>2. Facts[x].retryOf \notin cited
        BY <1>2 DEF NothingToAdd
    <2>. QED
        BY <2>1, <2>2
<1> HIDE DEF runs
<1>3. c \in runs
    BY <1>1, <1>2 DEF Repeats
<1>. QED
    BY <1>3 DEF runs

HidesNoRun(r) ==
    Len(events'[r]) > 1 /\ events'[r] # events[r]
        /\ Last(events'[r]).to = "validated"
    => LET cited == Last(events'[r]).evidence \cap Tests
       IN  /\ \A e \in registry \cap Tests :
                (\E c \in cited :
                    Facts[e].commit = Facts[c].commit \/ c \in Repeats(e))
                => e \in cited
           /\ cited # {}
           /\ \A c \in cited :
                \/ Passed(c)
                \/ /\ records[r].claim = "code_adaptation"
                   /\ \E e \in cited : Facts[e].retryOf = c

LEMMA ValidationHidesNoRun ==
    ASSUME KnowledgeInv, NEW r \in RecordIds, NEW rule \in Rules,
           ValidateWorkRecord(r, rule)
    PROVE  HidesNoRun(r)
<1> DEFINE tests == Last(events'[r]).evidence \cap Tests
<1> SUFFICES ASSUME Last(events'[r]).to = "validated"
             PROVE  /\ \A e \in registry \cap Tests :
                         (\E c \in tests :
                            Facts[e].commit = Facts[c].commit \/ c \in Repeats(e))
                         => e \in tests
                    /\ SeriesPassed(records[r], tests)
    BY DEF HidesNoRun, SeriesPassed
<1>1. CompleteSeries(tests) /\ SeriesPassed(records[r], tests)
    BY ValidateKeeps
<1>2. tests \in SUBSET Tests /\ tests \in SUBSET Evidences
    BY DEF Tests
<1> HIDE DEF tests
<1>3. NothingToAdd(tests, tests)
    BY <1>1, <1>2, CompleteIsClosed
<1>4. ASSUME NEW e \in registry \cap Tests, NEW c \in tests,
             Facts[e].commit = Facts[c].commit
      PROVE  e \in tests
    BY <1>2, <1>3, <1>4 DEF NothingToAdd, Registered, SameScope
<1>5. ASSUME NEW e \in registry \cap Tests, NEW c \in tests, c \in Repeats(e)
      PROVE  e \in tests
    BY <1>2, <1>3, <1>5, RepetitionsAreCited DEF KnowledgeInv, KnowledgeTypeOK
<1>. QED
    BY <1>1, <1>4, <1>5

LEMMA StepHidesNoRun ==
    ASSUME KnowledgeInv, [Next]_vars
    PROVE  \A r \in RecordIds : HidesNoRun(r)
<1> SUFFICES ASSUME NEW r \in RecordIds
             PROVE  HidesNoRun(r)
    OBVIOUS
<1>1. ASSUME NEW q \in Requests, NEW s \in RecordIds, CreateWorkRecord(q, s)
      PROVE  HidesNoRun(r)
    <2>1. Len(events'[s]) = 1 /\ (s # r => events'[r] = events[r])
        BY <1>1, CreateKeeps
    <2>2. CASE s = r
        <3>1. Len(events'[r]) = 1
            BY <2>1, <2>2
        <3> DEFINE n == Len(events'[r])
        <3> HIDE DEF n
        <3>2. n = 1 => ~(n > 1)
            OBVIOUS
        <3>. QED
            BY <3>1, <3>2 DEF HidesNoRun, n
    <2>3. CASE s # r
        BY <2>1, <2>3 DEF HidesNoRun
    <2>. QED
        BY <2>2, <2>3
<1>2. ASSUME NEW s \in RecordIds, NEW rule \in Rules, ValidateWorkRecord(s, rule)
      PROVE  HidesNoRun(r)
    <2>1. CASE s = r
        BY <1>2, <2>1, ValidationHidesNoRun
    <2>2. CASE s # r
        BY <1>2, <2>2, ValidateKeeps DEF HidesNoRun
    <2>. QED
        BY <2>1, <2>2
<1>3. ASSUME NEW s \in RecordIds, Dispute(s)
      PROVE  HidesNoRun(r)
    BY <1>3, DisputeKeeps DEF HidesNoRun
<1>4. CASE UNCHANGED events
    BY <1>4 DEF HidesNoRun
<1>. QED
    BY <1>1, <1>2, <1>3, <1>4
    DEF Next, vars, knowledgeVars, KnowledgeNext, Register, PromoteMemory, Edit,
        Commit, AssessorStep, BeginAssessment, ReadHead, ReadEdits, RecheckHead,
        RecheckEdits, CheckFails, AppendAssessment, Reads, AddRevision

LEMMA RememberedIsUndisputed == KnowledgeInv => FoundIsUndisputed
<1> SUFFICES ASSUME KnowledgeInv, NEW m \in SearchMemories("validated")
             PROVE  LET history == events[memories[m].record]
                    IN  /\ memories[m].event = Len(history)
                        /\ memories[m].evidence = Last(history).evidence
                        /\ \A i \in DOMAIN history : history[i].to # "conflicted"
    BY DEF FoundIsUndisputed
<1> DEFINE history == events[memories[m].record]
<1>1. /\ m \in MemoryIds /\ memories[m] # None
      /\ Last(history).to = "validated"
    BY DEF SearchMemories, EffectiveValidation
<1>2. /\ memories[m].record \in RecordIds /\ Remembers(m)
    BY <1>1 DEF KnowledgeInv, KnowledgeTypeOK, Memory, MemoriesRemember
<1>3. history \in Seq(Event) /\ OneWay(history)
    BY <1>2 DEF KnowledgeInv, KnowledgeTypeOK, HistoriesAreOneWay
<1>4. /\ memories[m].event \in DOMAIN history
      /\ history[memories[m].event].to = "validated"
      /\ memories[m].evidence = history[memories[m].event].evidence
    BY <1>2 DEF Remembers
<1> HIDE DEF history
<1>5. /\ Len(history) \in DOMAIN history
      /\ Last(history) = history[Len(history)]
    BY <1>3, <1>4 DEF Last
<1>6. memories[m].event = 2 /\ Len(history) = 2
    BY <1>1, <1>3, <1>4, <1>5 DEF OneWay
<1>7. \A i \in DOMAIN history : history[i].to # "conflicted"
    BY <1>1, <1>3, <1>5 DEF OneWay
<1>. QED
    BY <1>4, <1>5, <1>6, <1>7 DEF history
----------------------------------------------------------------------------
LEMMA KnowledgeInvHolds == Spec => []KnowledgeInv
<1>1. Init => KnowledgeInv
    BY InitKnowledgeInv DEF Init
<1>2. KnowledgeInv /\ [Next]_vars => KnowledgeInv'
    BY KnowledgeStep
<1>. QED
    BY <1>1, <1>2, PTL DEF Spec

(* A Memory searched for as validated rests on the event and Evidence it   *)
(* was promoted from, and nothing was said against its record since.       *)
THEOREM FoundAlwaysUndisputed == Spec => []FoundIsUndisputed
<1>1. KnowledgeInv => FoundIsUndisputed
    BY RememberedIsUndisputed
<1>. QED
    BY <1>1, KnowledgeInvHolds, PTL

(* Whatever is finalized and in whatever order, no step validates a record *)
(* while the registry holds a run on the tested commit, or a repetition of *)
(* a cited run, that the record does not cite.                             *)
THEOREM NoRunEverHidden == Spec => NoRunIsHidden
<1>1. KnowledgeInv /\ [Next]_vars => \A r \in RecordIds : HidesNoRun(r)
    BY StepHidesNoRun
<1>. QED
    BY <1>1, KnowledgeInvHolds, PTL DEF Spec, NoRunIsHidden, HidesNoRun
----------------------------------------------------------------------------
(* Applicability.                                                          *)

(* The commits the Memory was compared with are not after c.               *)
Past(m, c) ==
    \A i \in DOMAIN assessments[m] :
        assessments[m][i].commit # None => assessments[m][i].commit <= c

AssessmentsArePast == \A m \in MemoryIds : Past(m, worktree.head)

(* What a call has seen of HEAD is not before anything appended, unless    *)
(* something was appended since it began.                                  *)
LooksAhead(call) ==
    /\ memories[call.memory] # None
    /\ call.sequence <= Len(assessments[call.memory]) + 1
    /\ call \in Checking /\ call.pc # "head" =>
           /\ call.seen.head \in 1 .. worktree.head
           /\ Continues(call) => Past(call.memory, call.seen.head)
    /\ call \in Answered /\ call.commit # None =>
           /\ call.commit <= worktree.head
           /\ Continues(call) => Past(call.memory, call.commit)

CallsLookAhead ==
    \A a \in Assessors : assessor[a] # Idle => LooksAhead(assessor[a])

(* Following its revisions, every Memory reaches one that stands.          *)
ReplacementsExist == \A m \in MemoryIds : \E n \in Chained(m) : ~Superseded(n)

ApplicabilityInv ==
    /\ ApplicabilityTypeOK
    /\ AssessmentsArePast
    /\ CallsLookAhead
    /\ AssessmentsInOrder
    /\ ReplacementsExist

MemoriesStay ==
    \A m \in MemoryIds : memories[m] # None => memories'[m] = memories[m]

LEMMA ChainedStarts ==
    ASSUME NEW m \in MemoryIds
    PROVE  m \in Chained(m)
BY DEF Chained

LEMMA InitApplicabilityInv == Init => ApplicabilityInv
<1> SUFFICES ASSUME Init
             PROVE  ApplicabilityInv
    OBVIOUS
<1>1. ApplicabilityTypeOK
    BY DEF Init, ApplicabilityTypeOK
<1>2. AssessmentsArePast /\ AssessmentsInOrder
    BY DEF Init, AssessmentsArePast, Past, AssessmentsInOrder
<1>3. CallsLookAhead
    BY DEF Init, CallsLookAhead
<1>4. ReplacementsExist
    BY ChainedStarts DEF Init, ReplacementsExist, Superseded
<1>. QED
    BY <1>1, <1>2, <1>3, <1>4 DEF ApplicabilityInv

LEMMA CallShapes ==
    /\ \A call \in Checking : call # Idle /\ call \notin Answered
    /\ \A call \in Answered : call # Idle /\ call \notin Checking
<1>1. /\ Idle.pc = "idle"
      /\ \A call \in Checking : call.pc \in {"head", "edits", "recheck", "reedits"}
      /\ \A call \in Answered : call.pc = "append"
    BY DEF Idle, Checking, Answered
<1>. QED
    BY <1>1

LEMMA SameRevisions ==
    ASSUME ReplacementsExist, UNCHANGED revisions
    PROVE  ReplacementsExist'
<1>1. \A m \in MemoryIds : Successor(m)' = Successor(m) /\ Superseded(m)' = Superseded(m)
    BY DEF Successor, Superseded
<1>2. \A m \in MemoryIds : Chained(m)' = Chained(m)
    BY <1>1 DEF Chained
<1>3. \A m, n \in MemoryIds : n \in Chained(m) => n \in Chained(m)'
    BY <1>2
<1>. QED
    BY <1>1, <1>2, <1>3 DEF ReplacementsExist, Chained

(* The steps of a call that append nothing. *)
LEMMA CallMoves ==
    ASSUME ApplicabilityInv, NEW a \in Assessors,
           NEW call \in {Idle} \cup Checking \cup Answered,
           call # Idle => LooksAhead(call),
           assessor' = [assessor EXCEPT ![a] = call],
           UNCHANGED <<memories, worktree, assessments, revisions>>
    PROVE  ApplicabilityInv'
<1>1. ApplicabilityTypeOK'
    BY DEF ApplicabilityInv, ApplicabilityTypeOK
<1>2. AssessmentsArePast' /\ AssessmentsInOrder'
    BY DEF ApplicabilityInv, AssessmentsArePast, Past, AssessmentsInOrder
<1>3. ReplacementsExist'
    BY SameRevisions DEF ApplicabilityInv
<1>4. /\ assessor'[a] = call
      /\ \A b \in Assessors \ {a} : assessor'[b] = assessor[b]
    BY DEF ApplicabilityInv, ApplicabilityTypeOK
<1>5. ASSUME NEW b \in Assessors, assessor'[b] # Idle
      PROVE  LooksAhead(assessor[b])'
    <2>1. LooksAhead(assessor'[b])
        BY <1>4, <1>5 DEF ApplicabilityInv, CallsLookAhead
    <2>. QED
        BY <2>1 DEF LooksAhead, Continues, Past
<1>7. CallsLookAhead'
    BY <1>5 DEF CallsLookAhead
<1>. QED
    BY <1>1, <1>2, <1>3, <1>7 DEF ApplicabilityInv

LEMMA BeginKeeps ==
    ASSUME ApplicabilityInv, NEW a \in Assessors, NEW m \in MemoryIds,
           BeginAssessment(a, m)
    PROVE  ApplicabilityInv'
<1> DEFINE call == [pc |-> "head", memory |-> m,
                    sequence |-> Len(assessments[m]) + 1,
                    seen |-> [head |-> 0, edited |-> FALSE]]
<1>1. /\ memories[m] # None
      /\ assessor' = [assessor EXCEPT ![a] = call]
      /\ UNCHANGED <<memories, worktree, assessments, revisions>>
    BY DEF BeginAssessment, knowledgeVars
<1>2. Len(assessments[m]) \in Nat
    BY DEF ApplicabilityInv, ApplicabilityTypeOK
<1>3. call \in Checking
    BY <1>2 DEF Checking
<1>4. LooksAhead(call)
    BY <1>1, <1>2, <1>3, CallShapes DEF LooksAhead
<1> HIDE DEF call
<1>. QED
    BY <1>1, <1>3, <1>4, CallMoves

(* The fields of a call that looks at the worktree, and of its answer.     *)
LEMMA CheckingFields ==
    ASSUME NEW call \in Checking
    PROVE  /\ call.memory \in MemoryIds /\ call.sequence \in Nat
           /\ call.seen \in [head: 0 .. MaxHead, edited: BOOLEAN]
           /\ call.pc \in {"head", "edits", "recheck", "reedits"}
BY DEF Checking

LEMMA AnswerIsAnswered ==
    ASSUME NEW call \in Checking, NEW status \in AllStatuses,
           NEW commit \in 1 .. MaxHead \cup {None}
    PROVE  LET answer == [Answers(call, status, commit) EXCEPT !.pc = "append"]
           IN  /\ answer \in Answered
               /\ answer.memory = call.memory /\ answer.sequence = call.sequence
               /\ answer.commit = commit
BY CheckingFields DEF Answers, Answered

(* A call that answers is ahead if the commit it answers with is.          *)
LEMMA AnswerKeeps ==
    ASSUME ApplicabilityInv, NEW a \in Assessors, NEW from,
           NEW call \in Checking, LooksAhead(call),
           NEW status \in AllStatuses, NEW commit \in 1 .. MaxHead \cup {None},
           commit # None => /\ commit <= worktree.head
                            /\ Continues(call) => Past(call.memory, commit),
           Reads(a, from, "append", Answers(call, status, commit))
    PROVE  ApplicabilityInv'
<1> DEFINE answer == [Answers(call, status, commit) EXCEPT !.pc = "append"]
<1>1. /\ answer \in Answered
      /\ answer.memory = call.memory /\ answer.sequence = call.sequence
      /\ answer.commit = commit
    BY AnswerIsAnswered
<1>2. /\ assessor' = [assessor EXCEPT ![a] = answer]
      /\ UNCHANGED <<memories, worktree, assessments, revisions>>
    BY DEF Reads, knowledgeVars
<1> HIDE DEF answer
<1>3. LooksAhead(answer)
    BY <1>1, CallShapes DEF LooksAhead, Continues
<1>. QED
    BY <1>1, <1>2, <1>3, CallMoves

(* A call that goes on looking. *)
LEMMA LookKeeps ==
    ASSUME ApplicabilityInv, NEW a \in Assessors, NEW from,
           NEW to \in {"edits", "recheck", "reedits"},
           NEW call \in Checking, Reads(a, from, to, call),
           memories[call.memory] # None,
           call.sequence <= Len(assessments[call.memory]) + 1,
           call.seen.head \in 1 .. worktree.head,
           Continues(call) => Past(call.memory, call.seen.head)
    PROVE  ApplicabilityInv'
<1> DEFINE next == [call EXCEPT !.pc = to]
<1>1. /\ next \in Checking
      /\ next.memory = call.memory /\ next.sequence = call.sequence
      /\ next.seen = call.seen
    BY DEF Checking
<1>2. /\ assessor' = [assessor EXCEPT ![a] = next]
      /\ UNCHANGED <<memories, worktree, assessments, revisions>>
    BY DEF Reads, knowledgeVars
<1> HIDE DEF next
<1>3. LooksAhead(next)
    BY <1>1, CallShapes DEF LooksAhead, Continues
<1>. QED
    BY <1>1, <1>2, <1>3, CallMoves

LEMMA CallIsChecking ==
    ASSUME ApplicabilityInv, NEW a \in Assessors,
           assessor[a].pc \in {"head", "edits", "recheck", "reedits"}
    PROVE  /\ assessor[a] \in Checking
           /\ LooksAhead(assessor[a])
<1>1. assessor[a] \in Checking
    <2>1. assessor[a] \in {Idle} \cup Checking \cup Answered
        BY DEF ApplicabilityInv, ApplicabilityTypeOK
    <2>. QED
        BY <2>1 DEF Idle, Answered
<1>. QED
    BY <1>1, CallShapes DEF ApplicabilityInv, CallsLookAhead

LEMMA HeadType ==
    ASSUME ApplicabilityInv
    PROVE  /\ worktree.head \in 1 .. MaxHead /\ worktree.edited \in BOOLEAN
           /\ \A m \in MemoryIds : Past(m, worktree.head)
BY DEF ApplicabilityInv, ApplicabilityTypeOK, AssessmentsArePast

LEMMA ReadHeadKeeps ==
    ASSUME ApplicabilityInv, NEW a \in Assessors, ReadHead(a)
    PROVE  ApplicabilityInv'
<1> DEFINE call == [assessor[a] EXCEPT !.seen.head = worktree.head]
<1>1. assessor[a] \in Checking /\ LooksAhead(assessor[a]) /\ assessor[a].pc = "head"
    BY CallIsChecking DEF ReadHead
<1>2. /\ call \in Checking /\ call.pc = "head"
      /\ call.memory = assessor[a].memory /\ call.sequence = assessor[a].sequence
      /\ call.seen.head = worktree.head
    <2> DEFINE seen == [assessor[a].seen EXCEPT !.head = worktree.head]
    <2>1. /\ seen \in [head: 0 .. MaxHead, edited: BOOLEAN]
          /\ seen.head = worktree.head
        BY <1>1, CheckingFields, HeadType
    <2>2. call = [assessor[a] EXCEPT !.seen = seen]
        BY <1>1 DEF Checking
    <2> HIDE DEF seen, call
    <2>. QED
        BY <1>1, <2>1, <2>2 DEF Checking
<1>3. \/ Reads(a, "head", "edits", call)
      \/ Reads(a, "head", "append", Answers(call, "unknown", worktree.head))
    BY DEF ReadHead
<1> HIDE DEF call
<1>4. /\ worktree.head \in 1 .. MaxHead
      /\ worktree.head \in 1 .. worktree.head
      /\ worktree.head <= worktree.head
      /\ Past(call.memory, worktree.head)
    BY <1>2, HeadType, CheckingFields
<1>5. /\ memories[call.memory] # None
      /\ call.sequence <= Len(assessments[call.memory]) + 1
      /\ LooksAhead(call)
    BY <1>1, <1>2, CallShapes DEF LooksAhead
<1>6. CASE Reads(a, "head", "edits", call)
    BY <1>2, <1>4, <1>5, <1>6, LookKeeps
<1>7. CASE Reads(a, "head", "append", Answers(call, "unknown", worktree.head))
    BY <1>2, <1>4, <1>5, <1>7, AnswerKeeps DEF AllStatuses
<1>. QED
    BY <1>3, <1>6, <1>7

LEMMA ReadEditsKeeps ==
    ASSUME ApplicabilityInv, NEW a \in Assessors, ReadEdits(a)
    PROVE  ApplicabilityInv'
<1> DEFINE call == [assessor[a] EXCEPT !.seen.edited = worktree.edited]
<1>1. assessor[a] \in Checking /\ LooksAhead(assessor[a]) /\ assessor[a].pc = "edits"
    BY CallIsChecking DEF ReadEdits, Reads
<1>2. /\ call \in Checking
      /\ call.memory = assessor[a].memory /\ call.sequence = assessor[a].sequence
      /\ call.seen.head = assessor[a].seen.head
    <2> DEFINE seen == [assessor[a].seen EXCEPT !.edited = worktree.edited]
    <2>1. /\ seen \in [head: 0 .. MaxHead, edited: BOOLEAN]
          /\ seen.head = assessor[a].seen.head
        BY <1>1, CheckingFields, HeadType
    <2>2. call = [assessor[a] EXCEPT !.seen = seen]
        BY <1>1 DEF Checking
    <2> HIDE DEF seen, call
    <2>. QED
        BY <1>1, <2>1, <2>2 DEF Checking
<1>3. Reads(a, "edits", "recheck", call)
    BY DEF ReadEdits
<1> HIDE DEF call
<1>4. /\ memories[call.memory] # None
      /\ call.sequence <= Len(assessments[call.memory]) + 1
      /\ call.seen.head \in 1 .. worktree.head
      /\ Continues(call) => Past(call.memory, call.seen.head)
    BY <1>1, <1>2 DEF LooksAhead, Continues
<1>. QED
    BY <1>2, <1>3, <1>4, LookKeeps

LEMMA RecheckHeadKeeps ==
    ASSUME ApplicabilityInv, NEW a \in Assessors, RecheckHead(a)
    PROVE  ApplicabilityInv'
<1> DEFINE call == assessor[a]
<1>1. call \in Checking /\ LooksAhead(call) /\ call.pc = "recheck"
    BY CallIsChecking DEF RecheckHead
<1>2. \/ Reads(a, "recheck", "reedits", call)
      \/ Reads(a, "recheck", "append", Answers(call, "unknown", worktree.head))
    BY DEF RecheckHead
<1> HIDE DEF call
<1>3. /\ memories[call.memory] # None
      /\ call.sequence <= Len(assessments[call.memory]) + 1
      /\ call.seen.head \in 1 .. worktree.head
      /\ Continues(call) => Past(call.memory, call.seen.head)
    BY <1>1 DEF LooksAhead
<1>4. /\ worktree.head \in 1 .. MaxHead /\ worktree.head <= worktree.head
      /\ Past(call.memory, worktree.head)
    BY <1>1, HeadType, CheckingFields
<1>5. CASE Reads(a, "recheck", "reedits", call)
    BY <1>1, <1>3, <1>5, LookKeeps
<1>6. CASE Reads(a, "recheck", "append", Answers(call, "unknown", worktree.head))
    BY <1>1, <1>4, <1>6, AnswerKeeps DEF AllStatuses
<1>. QED
    BY <1>2, <1>5, <1>6

LEMMA RecheckEditsKeeps ==
    ASSUME ApplicabilityInv, NEW a \in Assessors, RecheckEdits(a)
    PROVE  ApplicabilityInv'
<1> DEFINE call == assessor[a]
           status == IF worktree.edited = call.seen.edited THEN StatusOf(call)
                                                           ELSE "unknown"
<1>1. call \in Checking /\ LooksAhead(call) /\ call.pc = "reedits"
    BY CallIsChecking DEF RecheckEdits, Reads
<1>2. Reads(a, "reedits", "append", Answers(call, status, call.seen.head))
    BY DEF RecheckEdits
<1>3. status \in AllStatuses
    BY DEF StatusOf, AllStatuses, Determinate
<1> HIDE DEF call, status
<1>4. /\ call.seen.head \in 1 .. worktree.head
      /\ Continues(call) => Past(call.memory, call.seen.head)
    BY <1>1 DEF LooksAhead
<1>5. call.seen.head \in 1 .. MaxHead /\ call.seen.head <= worktree.head
    BY <1>4, HeadType
<1>. QED
    BY <1>1, <1>2, <1>3, <1>4, <1>5, AnswerKeeps

LEMMA CheckFailsKeeps ==
    ASSUME ApplicabilityInv, NEW a \in Assessors, CheckFails(a)
    PROVE  ApplicabilityInv'
<1>1. assessor[a] \in Checking /\ LooksAhead(assessor[a])
    BY CallIsChecking DEF CheckFails
<1>2. Reads(a, assessor[a].pc, "append", Answers(assessor[a], "unknown", None))
    BY DEF CheckFails
<1>. QED
    BY <1>1, <1>2, AnswerKeeps DEF AllStatuses

LEMMA AppendAssessmentKeeps ==
    ASSUME ApplicabilityInv, NEW a \in Assessors, AppendAssessment(a)
    PROVE  ApplicabilityInv'
<1> DEFINE call == assessor[a]
           m == call.memory
           h == assessments[m]
           v == [status |-> call.status, commit |-> call.commit]
<1>1. /\ call.pc = "append"
      /\ assessor' = [assessor EXCEPT ![a] = Idle]
      /\ UNCHANGED <<memories, worktree, revisions>>
    BY DEF AppendAssessment, knowledgeVars
<1>2. call \in Answered
    <2>1. call \in {Idle} \cup Checking \cup Answered
        BY DEF ApplicabilityInv, ApplicabilityTypeOK
    <2>. QED
        BY <1>1, <2>1 DEF Idle, Checking
<1>3. CASE ~Appendable(call)
    <2>1. UNCHANGED assessments
        BY <1>3 DEF AppendAssessment
    <2>. QED
        BY <1>1, <2>1, CallMoves
<1>4. CASE Appendable(call)
    <2>1. /\ m \in MemoryIds /\ v \in Assessment /\ v.commit = call.commit
          /\ h \in Seq(Assessment)
        BY <1>2 DEF Answered, Assessment, ApplicabilityInv, ApplicabilityTypeOK
    <2>2. /\ Continues(call) /\ LooksAhead(call)
          /\ call.sequence = Len(h) + 1
        BY <1>2, <1>4, CallShapes
        DEF Appendable, Continues, ApplicabilityInv, CallsLookAhead
    <2>3. assessments' = [assessments EXCEPT ![m] = Append(h, v)]
        BY <1>4 DEF AppendAssessment
    <2>4. v.commit # None => /\ v.commit \in Nat /\ v.commit <= worktree.head
                             /\ Past(m, v.commit)
        BY <1>2, <2>1, <2>2 DEF LooksAhead, Answered
    <2> HIDE DEF call, m, h, v
    <2>5. /\ assessments'[m] = Append(h, v)
          /\ \A n \in MemoryIds \ {m} : assessments'[n] = assessments[n]
          /\ assessments' \in [MemoryIds -> Seq(Assessment)]
        BY <2>1, <2>3 DEF ApplicabilityInv, ApplicabilityTypeOK
    <2>6. /\ Len(h) \in Nat /\ DOMAIN h = 1 .. Len(h)
          /\ DOMAIN Append(h, v) = 1 .. Len(h) + 1
          /\ Len(Append(h, v)) = Len(h) + 1
          /\ \A i \in 1 .. Len(h) : Append(h, v)[i] = h[i]
          /\ Append(h, v)[Len(h) + 1] = v
        BY <2>1
    <2>7. ApplicabilityTypeOK'
        BY <1>1, <2>5 DEF ApplicabilityInv, ApplicabilityTypeOK
    <2>8. AssessmentsArePast'
        <3>1. ASSUME NEW n \in MemoryIds, NEW i \in DOMAIN assessments'[n],
                     assessments'[n][i].commit # None
              PROVE  assessments'[n][i].commit <= worktree.head
            <4>1. CASE n # m
                BY <2>5, <3>1, <4>1, HeadType DEF Past
            <4>2. CASE n = m /\ i \in 1 .. Len(h)
                BY <2>1, <2>5, <2>6, <3>1, <4>2, HeadType DEF Past, h
            <4>3. CASE n = m /\ i = Len(h) + 1
                BY <2>4, <2>5, <2>6, <3>1, <4>3
            <4>. QED
                BY <2>5, <2>6, <3>1, <4>1, <4>2, <4>3
        <3>. QED
            BY <1>1, <3>1 DEF AssessmentsArePast, Past
    <2>9. AssessmentsInOrder'
        <3>1. ASSUME NEW n \in MemoryIds, NEW i \in DOMAIN assessments'[n],
                     NEW j \in DOMAIN assessments'[n], i < j,
                     assessments'[n][i].commit # None,
                     assessments'[n][j].commit # None
              PROVE  assessments'[n][i].commit <= assessments'[n][j].commit
            <4>1. CASE n # m
                BY <2>5, <3>1, <4>1 DEF ApplicabilityInv, AssessmentsInOrder
            <4>2. CASE n = m /\ j \in 1 .. Len(h)
                <5>1. i \in DOMAIN h /\ j \in DOMAIN h
                    BY <2>5, <2>6, <3>1, <4>2
                <5>2. h[i].commit # None /\ h[j].commit # None
                    BY <2>5, <2>6, <3>1, <4>2, <5>1
                <5>3. h[i].commit <= h[j].commit
                    BY <2>1, <3>1, <5>1, <5>2 DEF ApplicabilityInv, AssessmentsInOrder, h
                <5>. QED
                    BY <2>5, <2>6, <4>2, <5>1, <5>3
            <4>3. CASE n = m /\ j = Len(h) + 1
                <5>1. i \in DOMAIN h
                    BY <2>5, <2>6, <3>1, <4>3
                <5>2. v.commit # None /\ h[i].commit # None
                    BY <2>5, <2>6, <3>1, <4>3, <5>1
                <5>. QED
                    BY <2>4, <2>5, <2>6, <4>3, <5>1, <5>2 DEF Past, h
            <4>. QED
                BY <2>5, <2>6, <3>1, <4>1, <4>2, <4>3
        <3>. QED
            BY <3>1 DEF AssessmentsInOrder
    <2>10. CallsLookAhead'
        <3> SUFFICES ASSUME NEW b \in Assessors, assessor'[b] # Idle
                     PROVE  LooksAhead(assessor[b])'
            BY DEF CallsLookAhead
        <3>1. assessor'[b] = assessor[b] /\ LooksAhead(assessor[b])
            BY <1>1 DEF ApplicabilityInv, ApplicabilityTypeOK, CallsLookAhead
        <3>2. assessor[b].memory \in MemoryIds /\ assessor[b].sequence \in Nat
            <4>1. assessor[b] \in Checking \cup Answered
                BY <1>1, <3>1 DEF ApplicabilityInv, ApplicabilityTypeOK
            <4>. QED
                BY <4>1 DEF Checking, Answered
        <3>3. CASE assessor[b].memory # m
            BY <1>1, <2>5, <3>1, <3>2, <3>3 DEF LooksAhead, Continues, Past
        <3>4. CASE assessor[b].memory = m
            <4>1. assessor[b].sequence <= Len(h) + 1
                BY <3>1, <3>4 DEF LooksAhead, h
            <4>2. /\ assessor[b].sequence <= Len(assessments'[m]) + 1
                  /\ assessor[b].sequence # Len(assessments'[m]) + 1
                BY <2>5, <2>6, <3>2, <4>1
            <4>. QED
                BY <1>1, <3>1, <3>4, <4>2 DEF LooksAhead, Continues
        <3>. QED
            BY <3>3, <3>4
    <2>11. ReplacementsExist'
        BY <1>1, SameRevisions DEF ApplicabilityInv
    <2>. QED
        BY <2>7, <2>8, <2>9, <2>10, <2>11 DEF ApplicabilityInv
<1>. QED
    BY <1>3, <1>4

(* The worktree moves, HEAD never back; Memories are only added.           *)
LEMMA OthersMove ==
    ASSUME ApplicabilityInv, MemoriesStay,
           UNCHANGED <<assessments, revisions, assessor>>,
           worktree' \in [head: 1 .. MaxHead, edited: BOOLEAN],
           worktree.head <= worktree'.head
    PROVE  ApplicabilityInv'
<1>1. ApplicabilityTypeOK'
    BY DEF ApplicabilityInv, ApplicabilityTypeOK
<1>2. AssessmentsInOrder' /\ ReplacementsExist'
    BY SameRevisions DEF ApplicabilityInv, AssessmentsInOrder
<1>3. worktree.head \in Nat /\ worktree'.head \in Nat
    BY HeadType
<1>4. ASSUME NEW m \in MemoryIds, NEW i \in DOMAIN assessments[m],
             assessments[m][i].commit # None
      PROVE  /\ assessments[m][i].commit \in Nat
             /\ assessments[m][i].commit <= worktree.head
    <2>1. assessments[m] \in Seq(Assessment)
        BY DEF ApplicabilityInv, ApplicabilityTypeOK
    <2>2. assessments[m][i] \in Assessment
        BY <2>1
    <2>. QED
        BY <1>4, <2>2, HeadType DEF Past, Assessment
<1>5. AssessmentsArePast'
    <2>1. ASSUME NEW m \in MemoryIds, NEW i \in DOMAIN assessments[m],
                 assessments[m][i].commit # None
          PROVE  assessments[m][i].commit <= worktree'.head
        BY <1>3, <1>4, <2>1
    <2>. QED
        BY <2>1 DEF AssessmentsArePast, Past
<1>6. CallsLookAhead'
    <2> SUFFICES ASSUME NEW a \in Assessors, assessor[a] # Idle
                 PROVE  LooksAhead(assessor[a])'
        BY DEF CallsLookAhead
    <2> DEFINE call == assessor[a]
    <2>1. LooksAhead(call) /\ call \in Checking \cup Answered
        BY DEF ApplicabilityInv, ApplicabilityTypeOK, CallsLookAhead
    <2>2. call.memory \in MemoryIds
        BY <2>1 DEF Checking, Answered
    <2>3. memories'[call.memory] # None
        BY <2>1, <2>2 DEF LooksAhead, MemoriesStay
    <2>4. call \in Checking /\ call.pc # "head" => call.seen.head \in 1 .. worktree'.head
        BY <1>3, <2>1, CheckingFields DEF LooksAhead
    <2>5. call \in Answered /\ call.commit # None => call.commit <= worktree'.head
        <3>1. call \in Answered /\ call.commit # None => call.commit \in Nat
            BY DEF Answered
        <3>. QED
            BY <1>3, <2>1, <3>1 DEF LooksAhead
    <2>. QED
        BY <2>1, <2>3, <2>4, <2>5 DEF LooksAhead, Continues, Past
<1>. QED
    BY <1>1, <1>2, <1>5, <1>6 DEF ApplicabilityInv

(* A revision adds to what a Memory reaches, and the replacement stands.   *)
LEMMA ChainedGrows ==
    ASSUME revisions \subseteq revisions', NEW m \in MemoryIds
    PROVE  Chained(m) \subseteq Chained(m)'
<1>1. \A x : Successor(x) \subseteq Successor(x)'
    BY DEF Successor
<1> SUFFICES ASSUME NEW n \in Chained(m), NEW found \in SUBSET MemoryIds,
                    m \in found, \A x \in found : Successor(x)' \subseteq found
             PROVE  n \in found
    BY DEF Chained
<1>2. \A x \in found : Successor(x) \subseteq found
    BY <1>1
<1>. QED
    BY <1>2 DEF Chained

LEMMA ChainedFollows ==
    ASSUME NEW m \in MemoryIds, NEW n \in Chained(m), NEW v \in revisions,
           v.old = n, v.new \in MemoryIds
    PROVE  v.new \in Chained(m)
<1>1. v.new \in Successor(n)
    BY DEF Successor
<1>. QED
    BY <1>1 DEF Chained

LEMMA AddRevisionKeeps ==
    ASSUME ApplicabilityInv, NEW old \in MemoryIds, NEW new \in MemoryIds,
           AddRevision(old, new)
    PROVE  ApplicabilityInv'
<1> DEFINE v == [old |-> old, new |-> new]
<1>1. /\ revisions' = revisions \cup {v}
      /\ UNCHANGED <<memories, worktree, assessments, assessor>>
      /\ old # new /\ ~Superseded(new)
    BY DEF AddRevision, RevisionEndpoints, RevisionIsFree, knowledgeVars
<1>2. ApplicabilityTypeOK'
    BY <1>1 DEF ApplicabilityInv, ApplicabilityTypeOK
<1>3. AssessmentsArePast' /\ AssessmentsInOrder'
    BY <1>1 DEF ApplicabilityInv, AssessmentsArePast, AssessmentsInOrder, Past
<1>4. CallsLookAhead'
    BY <1>1 DEF ApplicabilityInv, CallsLookAhead, LooksAhead, Continues, Past
<1>5. v.old = old /\ v.new = new
    OBVIOUS
<1> HIDE DEF v
<1>7. \A n \in MemoryIds : Superseded(n)' <=> Superseded(n) \/ n = old
    BY <1>1, <1>5 DEF Superseded
<1>6. ReplacementsExist'
    <2> SUFFICES ASSUME NEW m \in MemoryIds
                 PROVE  \E n \in Chained(m)' : ~Superseded(n)'
        BY DEF ReplacementsExist
    <2>1. PICK n \in Chained(m) : ~Superseded(n)
        BY DEF ApplicabilityInv, ReplacementsExist
    <2>2. n \in Chained(m)' /\ n \in MemoryIds
        BY <1>1, ChainedGrows DEF Chained
    <2>3. CASE n # old
        BY <1>7, <2>1, <2>2, <2>3
    <2>4. CASE n = old
        <3>1. \A found \in SUBSET MemoryIds :
                  m \in found /\ (\A x \in found : Successor(x)' \subseteq found)
                      => new \in found
            <4>1. new \in Successor(old)'
                BY <1>1, <1>5 DEF Successor
            <4>. QED
                BY <2>2, <2>4, <4>1 DEF Chained
        <3>2. new \in Chained(m)'
            BY <3>1 DEF Chained
        <3>. QED
            BY <1>1, <1>7, <3>2
    <2>. QED
        BY <2>3, <2>4
<1>. QED
    BY <1>2, <1>3, <1>4, <1>6 DEF ApplicabilityInv

LEMMA ApplicabilityStep ==
    ASSUME KnowledgeInv, ApplicabilityInv, [Next]_vars
    PROVE  ApplicabilityInv'
<1>1. MemoriesStay
    BY KnowledgeStep DEF MemoriesStay
<1>2. CASE UNCHANGED applicabilityVars
    BY <1>1, <1>2, OthersMove, HeadType
    DEF applicabilityVars, ApplicabilityInv, ApplicabilityTypeOK
<1>3. CASE Edit
    <2>1. worktree \in [head: 1 .. MaxHead, edited: BOOLEAN]
        BY DEF ApplicabilityInv, ApplicabilityTypeOK
    <2>2. /\ worktree' \in [head: 1 .. MaxHead, edited: BOOLEAN]
          /\ worktree'.head = worktree.head
        BY <1>3, <2>1 DEF Edit
    <2>. QED
        BY <1>1, <1>3, <2>2, OthersMove, HeadType DEF Edit
<1>4. CASE Commit
    <2>1. worktree.head \in 1 .. MaxHead /\ worktree.edited \in BOOLEAN
        BY HeadType
    <2>2. /\ worktree' \in [head: 1 .. MaxHead, edited: BOOLEAN]
          /\ worktree'.head = worktree.head + 1
        <3> DEFINE left == worktree.edited /\ worktree.head + 1 \notin Touching
        <3>1. left \in BOOLEAN /\ worktree.head + 1 \in 1 .. MaxHead
            BY <1>4, <2>1 DEF Commit
        <3>2. worktree' = [head |-> worktree.head + 1, edited |-> left]
            BY <1>4 DEF Commit
        <3> HIDE DEF left
        <3>. QED
            BY <3>1, <3>2
    <2>3. worktree.head <= worktree'.head
        BY <2>1, <2>2
    <2>. QED
        BY <1>1, <1>4, <2>2, <2>3, OthersMove DEF Commit
<1>5. ASSUME NEW a \in Assessors, AssessorStep(a)
      PROVE  ApplicabilityInv'
    BY <1>5, BeginKeeps, ReadHeadKeeps, ReadEditsKeeps, RecheckHeadKeeps,
       RecheckEditsKeeps, CheckFailsKeeps, AppendAssessmentKeeps DEF AssessorStep
<1>. QED
    BY <1>2, <1>3, <1>4, <1>5, AddRevisionKeeps DEF Next, vars

LEMMA ApplicabilityInvHolds == Spec => []ApplicabilityInv
<1>1. Init => ApplicabilityInv
    BY InitApplicabilityInv
<1>2. KnowledgeInv /\ ApplicabilityInv /\ [Next]_vars => ApplicabilityInv'
    BY ApplicabilityStep
<1>. QED
    BY <1>1, <1>2, KnowledgeInvHolds, PTL DEF Spec

(* The variables of both modules keep their types.                         *)
THEOREM TypeCorrect == Spec => []TypeOK
<1>1. KnowledgeInv /\ ApplicabilityInv => TypeOK
    BY DEF KnowledgeInv, ApplicabilityInv, TypeOK
<1>. QED
    BY <1>1, KnowledgeInvHolds, ApplicabilityInvHolds, PTL

(* However many evaluations overlap and in whatever order they end, along  *)
(* the history of a Memory the commits it was compared with do not go back. *)
THEOREM AssessmentsStayInOrder == Spec => []AssessmentsInOrder
<1>1. ApplicabilityInv => AssessmentsInOrder
    BY DEF ApplicabilityInv
<1>. QED
    BY <1>1, ApplicabilityInvHolds, PTL

StaysSuperseded(m) ==
    Superseded(m) =>
        /\ Superseded(m)'
        /\ assessments'[m] = assessments[m]
        /\ \E n \in Chained(m)' : ~Superseded(n)'

LEMMA StepKeepsSuperseded ==
    ASSUME KnowledgeInv, ApplicabilityInv, [Next]_vars
    PROVE  \A m \in MemoryIds : StaysSuperseded(m)
<1> SUFFICES ASSUME NEW m \in MemoryIds, Superseded(m)
             PROVE  /\ Superseded(m)'
                    /\ assessments'[m] = assessments[m]
                    /\ \E n \in Chained(m)' : ~Superseded(n)'
    BY DEF StaysSuperseded
<1>1. \E n \in Chained(m)' : ~Superseded(n)'
    BY ApplicabilityStep DEF ApplicabilityInv, ReplacementsExist
<1>2. revisions \subseteq revisions'
    BY DEF Next, vars, applicabilityVars, Edit, Commit, AssessorStep,
       BeginAssessment, ReadHead, ReadEdits, RecheckHead, RecheckEdits,
       CheckFails, AppendAssessment, Reads, AddRevision
<1>3. ASSUME NEW a \in Assessors, AppendAssessment(a)
      PROVE  assessments'[m] = assessments[m]
    <2>1. CASE Appendable(assessor[a])
        <3>1. assessor[a].memory # m
            BY <2>1 DEF Appendable
        <3>. QED
            BY <1>3, <2>1, <3>1
            DEF AppendAssessment, ApplicabilityInv, ApplicabilityTypeOK
    <2>2. CASE ~Appendable(assessor[a])
        BY <1>3, <2>2 DEF AppendAssessment
    <2>. QED
        BY <2>1, <2>2
<1>4. assessments'[m] = assessments[m]
    BY <1>3 DEF Next, vars, applicabilityVars, Edit, Commit, AssessorStep,
       BeginAssessment, ReadHead, ReadEdits, RecheckHead, RecheckEdits,
       CheckFails, Reads, AddRevision
<1>. QED
    BY <1>1, <1>2, <1>4 DEF Superseded

(* A superseded Memory stays superseded, no evaluation that ends late adds *)
(* to its history, and following the revisions ends at one that stands.    *)
THEOREM SupersededForGood == Spec => SupersededIsFinal
<1>1. KnowledgeInv /\ ApplicabilityInv /\ [Next]_vars
          => \A m \in MemoryIds : StaysSuperseded(m)
    BY StepKeepsSuperseded
<1>. QED
    BY <1>1, KnowledgeInvHolds, ApplicabilityInvHolds, PTL
    DEF Spec, SupersededIsFinal, StaysSuperseded
=============================================================================
