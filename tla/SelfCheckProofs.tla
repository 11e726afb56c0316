--------------------------- MODULE SelfCheckProofs ---------------------------
(***************************************************************************)
(* Proofs about the self check, whenever it begins and however long its    *)
(* calls take: where the drill stands at each position of the script, that *)
(* each request comes in time, and what a check that passed has seen.      *)
(***************************************************************************)
EXTENDS SelfCheck, DrillWorkflowProofs

-----------------------------------------------------------------------------
(* The drill at each position of the script.                               *)

\* The finding the observation opens, in the fifth write.
TheFinding == FindingId(5, "CAPACITY_MIN", None)

Found == drill.findings[TheFinding]

StateAt(n) ==
    CASE n = 4       -> "draft"
      [] n \in 5..6  -> "baseline_frozen"
      [] n = 7       -> "in_progress"
      [] n \in 8..10 -> "remediation"
      [] n = 11      -> "pending_review"
      [] OTHER       -> "certified"

\* What no request of the script changes.
Baseline ==
    /\ DOMAIN drill = DrillFields
    /\ drill.coordinator = Coordinator
    /\ drill.start = Begun - 600 /\ drill.end = Begun + 7200
    /\ drill.checkpoints = SelfDraft.checkpoints

\* The exercise before its observation and after it.
Unobserved ==
    drill.observations = {} /\ drill.receipts = {} /\ DOMAIN drill.findings = {}

Observed(status) ==
    /\ HasLive(drill, 1) /\ IsFiniteSet(drill.receipts)
    /\ DOMAIN drill.findings = {TheFinding}
    /\ Found.severity = "critical" /\ Found.checkpoint = 1 /\ Found.status = status

Retested == \E o \in drill.observations : o.kind = "retest" /\ o.id = Found.retest

\* The drill when the request at position n is due.
Stage(n) ==
    /\ Baseline
    /\ drill.revision = (IF n = 13 THEN 9 ELSE n - 3) /\ drill.state = StateAt(n)
    /\ n >= 6 => drill.activation = SelfEvidence
    /\ n <= 7 => Unobserved
    /\ n >= 8 => Observed(CASE n = 8 -> "open" [] n = 9 -> "planned" [] OTHER -> "closed")
    /\ n >= 10 => Retested
    /\ n >= 11 => drill.snapshot.revision = 8 /\ IsFiniteSet(drill.snapshot.checklist)
    /\ n >= 12 => drill.dossier # None /\ drill.dossier.reviewer = Reviewer

\* The fields of the drill a request does not write.
Writes(written) ==
    /\ now' = now
    /\ DOMAIN drill' = DrillFields
    /\ \A x \in DrillFields \ written : drill'[x] = drill[x]
    /\ drill'.revision = drill.revision + 1

LEMMA BaselineKept ==
    ASSUME NEW written, Baseline, Writes(written),
           written \cap {"coordinator", "start", "end", "checkpoints"} = {}
    PROVE  Baseline'
  BY DEF Baseline, Writes, DrillFields

\* What a position says of the drill, the parts apart.
LEMMA StageParts ==
    ASSUME NEW n \in 4..13, Stage(n)
    PROVE  /\ Baseline /\ DOMAIN drill = DrillFields
           /\ drill.revision = (IF n = 13 THEN 9 ELSE n - 3) /\ drill.state = StateAt(n)
           /\ n >= 6 => drill.activation = SelfEvidence
           /\ n <= 7 => Unobserved
           /\ n >= 10 => Retested
           /\ n >= 11 => drill.snapshot.revision = 8 /\ IsFiniteSet(drill.snapshot.checklist)
  BY DEF Stage, Baseline

\* Create
LEMMA Created ==
    ASSUME drill' = CreatedFrom(SelfDraft)
    PROVE  Stage(4)'
<1>1. /\ DOMAIN drill' = DrillFields
      /\ drill'.coordinator = SelfDraft.coordinator
      /\ drill'.start = SelfDraft.start /\ drill'.end = SelfDraft.end
      /\ drill'.checkpoints = SelfDraft.checkpoints
  BY DEF CreatedFrom, DrillFields
<1>2. Baseline'
  <2>1. /\ SelfDraft.coordinator = Coordinator
        /\ SelfDraft.start = Begun - 600 /\ SelfDraft.end = Begun + 7200
    BY DEF SelfDraft
  <2> QED
    BY <1>1, <2>1 DEF Baseline
<1>3. /\ drill'.revision = 1 /\ drill'.state = "draft"
      /\ drill'.observations = {} /\ drill'.receipts = {} /\ drill'.findings = << >>
  BY DEF CreatedFrom
<1>4. DOMAIN << >> = {}
  OBVIOUS
<1>5. Unobserved'
  BY <1>3, <1>4 DEF Unobserved
<1> QED
  BY <1>2, <1>3, <1>5 DEF Stage, StateAt

\* Freeze
LEMMA Frozen ==
    ASSUME Stage(4), Freeze(Coordinator)
    PROVE  Stage(5)'
<1>1. Baseline /\ DOMAIN drill = DrillFields /\ drill.revision = 1 /\ Unobserved
  BY StageParts
<1>2. Writes({"state", "baselineVersion", "revision"})
  BY <1>1 DEF Freeze, Advance, Writes, DrillFields
<1>3. drill'.state = "baseline_frozen"
  BY <1>1 DEF Freeze, Advance, DrillFields
<1>4. Baseline'
  BY <1>1, <1>2, BaselineKept
<1>5. drill'.revision = 2 /\ Unobserved'
  BY <1>1, <1>2 DEF Writes, DrillFields, Unobserved
<1> QED
  BY <1>3, <1>4, <1>5 DEF Stage, StateAt

\* RegisterActivation
LEMMA Registered ==
    ASSUME Stage(5), RegisterActivation(Coordinator, SelfEvidence)
    PROVE  Stage(6)'
<1>1. /\ Baseline /\ DOMAIN drill = DrillFields /\ drill.revision = 2 /\ Unobserved
      /\ drill.state = "baseline_frozen"
  BY StageParts DEF StateAt
<1>2. Writes({"activation", "revision"})
  BY <1>1 DEF RegisterActivation, Advance, Writes, DrillFields
<1>3. drill'.activation = SelfEvidence
  BY <1>1 DEF RegisterActivation, Advance, DrillFields
<1>4. Baseline'
  BY <1>1, <1>2, BaselineKept
<1>5. drill'.revision = 3 /\ Unobserved' /\ drill'.state = "baseline_frozen"
  BY <1>1, <1>2 DEF Writes, DrillFields, Unobserved
<1> QED
  BY <1>3, <1>4, <1>5 DEF Stage, StateAt

\* Start
LEMMA Started ==
    ASSUME Stage(6), Start(Coordinator)
    PROVE  Stage(7)'
<1>1. /\ Baseline /\ DOMAIN drill = DrillFields /\ drill.revision = 3 /\ Unobserved
      /\ drill.activation = SelfEvidence
  BY StageParts
<1>2. Writes({"state", "revision"})
  BY <1>1 DEF Start, Advance, Writes, DrillFields
<1>3. drill'.state = "in_progress"
  BY <1>1 DEF Start, Advance, DrillFields
<1>4. Baseline'
  BY <1>1, <1>2, BaselineKept
<1>5. drill'.revision = 4 /\ Unobserved' /\ drill'.activation = SelfEvidence
  BY <1>1, <1>2 DEF Writes, DrillFields, Unobserved
<1> QED
  BY <1>3, <1>4, <1>5 DEF Stage, StateAt

\* What the observation of the script says of its checkpoint: too few people.
LEMMA TooFew ==
    LET cp == SelfDraft.checkpoints[1]
    IN  /\ DOMAIN SelfDraft.checkpoints = {1} /\ SelfDraft.checkpoints # << >>
        /\ Evaluate(cp, Reading(10, 90)) = {"CAPACITY_MIN"}
        /\ Evaluate(cp, Reading(25, 80)) = {}
        /\ Severity("CAPACITY_MIN") = "critical"
<1>1. /\ DOMAIN SelfDraft.checkpoints = {1} /\ SelfDraft.checkpoints # << >>
      /\ SelfDraft.checkpoints[1] = [limit |-> 120, capacity |-> 20, comm |-> TRUE, access |-> TRUE]
  BY DEF SelfDraft
<1>2. Evaluate([limit |-> 120, capacity |-> 20, comm |-> TRUE, access |-> TRUE], Reading(10, 90))
         = {"CAPACITY_MIN"}
  BY DEF Evaluate, Reading, RuleCodes
<1>3. Evaluate([limit |-> 120, capacity |-> 20, comm |-> TRUE, access |-> TRUE], Reading(25, 80)) = {}
  BY DEF Evaluate, Reading, RuleCodes
<1> QED
  BY <1>1, <1>2, <1>3 DEF Severity

\* SubmitObservation: one critical finding, and the drill is in remediation.
LEMMA ObservedOnce ==
    ASSUME Stage(7), SubmitObservation(Coordinator, 1, Begun, Reading(10, 90))
    PROVE  Stage(8)'
<1> DEFINE o == Observation("live", 1, Begun, Reading(10, 90))
           r == Receipt(1, Reading(10, 90))
           opened == OpenedByRules(1, Reading(10, 90))
           d == [drill EXCEPT !.observations = @ \cup {o}, !.receipts = @ \cup {r},
                              !.findings = WithFindings(@, opened)]
<1>1. /\ Baseline /\ DOMAIN drill = DrillFields /\ drill.revision = 4 /\ Unobserved
      /\ drill.activation = SelfEvidence /\ drill.checkpoints = SelfDraft.checkpoints
  BY StageParts DEF Baseline
<1>2. IF MustRemediate(d) THEN Advance([d EXCEPT !.state = "remediation"]) ELSE Advance(d)
  BY DEF SubmitObservation
<1>3. /\ DOMAIN opened = {TheFinding}
      /\ opened[TheFinding].severity = "critical" /\ opened[TheFinding].checkpoint = 1
      /\ opened[TheFinding].status = "open"
  <2>1. opened = [f \in {FindingId(Fresh, q, None) : q \in {"CAPACITY_MIN"}} |->
                    NewFinding(1, Severity(f.rule), Fresh, None, Blank)]
    BY <1>1, TooFew DEF OpenedByRules
  <2>2. {FindingId(Fresh, q, None) : q \in {"CAPACITY_MIN"}} = {TheFinding}
    BY <1>1 DEF TheFinding, Fresh
  <2>3. TheFinding.rule = "CAPACITY_MIN"
    BY DEF TheFinding, FindingId
  <2>4. DOMAIN opened = {TheFinding} /\ opened[TheFinding] = NewFinding(1, "critical", Fresh, None, Blank)
    <3>1. opened = [f \in {TheFinding} |-> NewFinding(1, Severity(f.rule), Fresh, None, Blank)]
      BY <2>1, <2>2
    <3> HIDE DEF opened
    <3>2. opened[TheFinding] = NewFinding(1, Severity(TheFinding.rule), Fresh, None, Blank)
      BY <3>1
    <3>3. Severity(TheFinding.rule) = "critical"
      BY <2>3, TooFew
    <3> QED
      BY <3>1, <3>2, <3>3
  <2> HIDE DEF opened
  <2> QED
    BY <2>4 DEF NewFinding
<1>4. o.kind = "live" /\ o.checkpoint = 1
  BY DEF Observation
<1> HIDE DEF o, r, opened
<1>5. /\ DOMAIN d = DrillFields
      /\ \A x \in DrillFields \ {"observations", "receipts", "findings"} : d[x] = drill[x]
      /\ d.observations = drill.observations \cup {o} /\ d.receipts = drill.receipts \cup {r}
      /\ d.findings = WithFindings(drill.findings, opened)
  BY <1>1 DEF DrillFields
<1> HIDE DEF d
<1>6. /\ d.observations = {o} /\ d.receipts = {r} /\ d.checkpoints = SelfDraft.checkpoints
      /\ DOMAIN d.findings = {TheFinding} /\ d.findings[TheFinding] = opened[TheFinding]
  <2>1. WithFindings(drill.findings, opened) = [f \in {TheFinding} |-> opened[f]]
    BY <1>1, <1>3 DEF WithFindings, Unobserved
  <2> QED
    BY <1>1, <1>5, <2>1 DEF Unobserved, DrillFields
<1>7. HasLive(d, 1)
  BY <1>4, <1>6 DEF HasLive
<1>8. MustRemediate(d)
  BY <1>3, <1>6, <1>7, TooFew DEF MustRemediate, AllLiveObservationsSubmitted, OpenFindings
<1>9. drill' = [[d EXCEPT !.state = "remediation"] EXCEPT !.revision = @ + 1] /\ now' = now
  BY <1>2, <1>8 DEF Advance
<1>10. /\ Writes({"observations", "receipts", "findings", "state", "revision"})
       /\ drill'.state = "remediation" /\ drill'.observations = d.observations
       /\ drill'.receipts = d.receipts /\ drill'.findings = d.findings
  BY <1>5, <1>9 DEF Writes, DrillFields
<1>11. Baseline'
  BY <1>1, <1>10, BaselineKept
<1>12. drill'.revision = 5 /\ drill'.activation = SelfEvidence
  BY <1>1, <1>10 DEF Writes, DrillFields
<1>13. Observed("open")'
  <2>1. HasLive(drill', 1)
    BY <1>7, <1>10 DEF HasLive
  <2>2. IsFiniteSet(drill'.receipts)
    BY <1>6, <1>10, FS_Singleton
  <2> QED
    BY <1>3, <1>6, <1>10, <2>1, <2>2 DEF Observed, Found
<1> QED
  BY <1>10, <1>11, <1>12, <1>13 DEF Stage, StateAt

\* PlanRemediation: there is one finding to plan.
LEMMA Planned ==
    ASSUME Stage(8), NEW f \in DOMAIN drill.findings,
           PlanRemediation(Coordinator, f, "cause", "action", "owner", RetestAt, Blank)
    PROVE  Stage(9)'
<1> DEFINE old  == drill.findings[f]
           plan == [cause |-> KeptCause(old, "cause"), action |-> "action", owner |-> "owner",
                    due |-> RetestAt, reason |-> Blank]
           new  == WithPlan(old, plan)
<1>1. /\ Baseline /\ DOMAIN drill = DrillFields /\ drill.revision = 5
      /\ drill.activation = SelfEvidence
  BY StageParts
<1>2. Observed("open")
  BY DEF Stage
<1>3. /\ f = TheFinding /\ HasLive(drill, 1) /\ IsFiniteSet(drill.receipts)
      /\ DOMAIN drill.findings = {TheFinding} /\ old.severity = "critical" /\ old.checkpoint = 1
  BY <1>2 DEF Observed, Found
<1>4. drill' = [[drill EXCEPT !.findings[f] = new] EXCEPT !.revision = @ + 1] /\ now' = now
  BY DEF PlanRemediation, Advance
<1>5. new.severity = old.severity /\ new.checkpoint = old.checkpoint /\ new.status = "planned"
  <2>1. old.status \in {"open"}
    BY <1>2, <1>3 DEF Observed, Found
  <2> QED
    BY <2>1 DEF WithPlan
<1> HIDE DEF new, old, plan
<1>6. /\ Writes({"findings", "revision"}) /\ drill'.state = drill.state
      /\ drill'.findings = [drill.findings EXCEPT ![f] = new]
  BY <1>1, <1>4 DEF Writes, DrillFields
<1>7. Baseline'
  BY <1>1, <1>6, BaselineKept
<1>8. /\ drill'.revision = 6 /\ drill'.activation = SelfEvidence /\ drill'.receipts = drill.receipts
      /\ drill'.observations = drill.observations /\ drill'.state = "remediation"
  BY <1>1, <1>6, StageParts DEF Writes, DrillFields, StateAt
<1>9. Observed("planned")'
  <2>1. HasLive(drill', 1)
    BY <1>3, <1>8 DEF HasLive
  <2>2. DOMAIN drill'.findings = {TheFinding} /\ drill'.findings[TheFinding] = new
    BY <1>3, <1>6
  <2> QED
    BY <1>3, <1>5, <1>8, <2>1, <2>2 DEF Observed, Found
<1> QED
  BY <1>7, <1>8, <1>9 DEF Stage, StateAt

\* SubmitRetest: the finding is closed by it.
LEMMA RetestedOnce ==
    ASSUME Stage(9), NEW f \in DOMAIN drill.findings,
           SubmitRetest(Coordinator, f, RetestAt, Reading(25, 80))
    PROVE  Stage(10)'
<1> DEFINE old == drill.findings[f]
           o   == Observation("retest", old.checkpoint, RetestAt, Reading(25, 80))
           new == Close(old)
<1>1. /\ Baseline /\ DOMAIN drill = DrillFields /\ drill.revision = 6
      /\ drill.activation = SelfEvidence /\ drill.state = "remediation"
  BY StageParts DEF StateAt
<1>2. Observed("planned")
  BY DEF Stage
<1>3. /\ f = TheFinding /\ HasLive(drill, 1) /\ IsFiniteSet(drill.receipts)
      /\ DOMAIN drill.findings = {TheFinding} /\ old.severity = "critical" /\ old.checkpoint = 1
  BY <1>2 DEF Observed, Found
<1>4. /\ drill' = [[drill EXCEPT !.observations = @ \cup {o}, !.findings[f] = new]
                     EXCEPT !.revision = @ + 1]
      /\ now' = now
  BY DEF SubmitRetest, Advance
<1>5. /\ new.severity = old.severity /\ new.checkpoint = old.checkpoint /\ new.status = "closed"
      /\ new.retest = o.id /\ o.kind = "retest"
  BY <1>2, <1>3 DEF Close, Observation, Observed, Found
<1> HIDE DEF new, old, o
<1>6. /\ Writes({"observations", "findings", "revision"}) /\ drill'.state = drill.state
      /\ drill'.observations = drill.observations \cup {o}
      /\ drill'.findings = [drill.findings EXCEPT ![f] = new]
  BY <1>1, <1>4 DEF Writes, DrillFields
<1>7. Baseline'
  BY <1>1, <1>6, BaselineKept
<1>8. /\ drill'.revision = 7 /\ drill'.activation = SelfEvidence /\ drill'.receipts = drill.receipts
      /\ drill'.state = "remediation"
  BY <1>1, <1>6 DEF Writes, DrillFields
<1>9. DOMAIN drill'.findings = {TheFinding} /\ drill'.findings[TheFinding] = new
  BY <1>3, <1>6
<1>10. Observed("closed")' /\ Retested'
  <2>1. HasLive(drill', 1)
    BY <1>3, <1>6 DEF HasLive
  <2>2. Retested'
    BY <1>5, <1>6, <1>9 DEF Retested, Found
  <2> QED
    BY <1>3, <1>5, <1>8, <1>9, <2>1, <2>2 DEF Observed, Found
<1> QED
  BY <1>7, <1>8, <1>10 DEF Stage, StateAt

\* The drill's facts stay as they are.
LEMMA FactsKept ==
    ASSUME NEW written, Writes(written), Baseline,
           written \cap {"coordinator", "start", "end", "checkpoints", "activation",
                         "observations", "receipts", "findings"} = {},
           Observed("closed"), Retested, drill.activation = SelfEvidence
    PROVE  Baseline' /\ Observed("closed")' /\ Retested' /\ drill'.activation = SelfEvidence
<1>1. Baseline'
  BY BaselineKept
<1>2. /\ drill'.activation = drill.activation /\ drill'.observations = drill.observations
      /\ drill'.receipts = drill.receipts /\ drill'.findings = drill.findings
  BY DEF Writes, DrillFields
<1>3. Observed("closed")' /\ Retested'
  BY <1>2 DEF Observed, Retested, Found, HasLive
<1> QED
  BY <1>1, <1>2, <1>3

\* SubmitReview: the snapshot is that of the eighth write.
LEMMA Submitted ==
    ASSUME Stage(10), SubmitReview(Coordinator)
    PROVE  Stage(11)'
<1>1. /\ Baseline /\ DOMAIN drill = DrillFields /\ drill.revision = 7
      /\ drill.activation = SelfEvidence /\ Retested
  BY StageParts
<1>2. Observed("closed")
  BY DEF Stage
<1>3. Writes({"state", "snapshot", "revision"})
  BY <1>1 DEF SubmitReview, Advance, Writes, DrillFields
<1>4. drill'.state = "pending_review" /\ drill'.snapshot = MakeSnapshot(drill)
  BY <1>1 DEF SubmitReview, Advance, DrillFields
<1>5. Baseline' /\ Observed("closed")' /\ Retested' /\ drill'.activation = SelfEvidence
  BY <1>1, <1>2, <1>3, FactsKept
<1>6. drill'.revision = 8
  BY <1>1, <1>3 DEF Writes
<1>7. drill'.snapshot.revision = 8 /\ drill'.snapshot.checklist = ReviewChecklist(drill)
  BY <1>1, <1>4 DEF MakeSnapshot, Fresh
<1>8. IsFiniteSet(ReviewChecklist(drill))
  <2>1. IsFiniteSet(drill.receipts) /\ DOMAIN drill.findings = {TheFinding}
    BY <1>2 DEF Observed
  <2>2. IsFiniteSet(DOMAIN drill.findings)
    BY <2>1, FS_Singleton
  <2> QED
    BY <2>1, <2>2, FiniteChecklist
<1> QED
  BY <1>4, <1>5, <1>6, <1>7, <1>8 DEF Stage, StateAt

\* ApproveReview: certified by the other person.
LEMMA Approved ==
    ASSUME Stage(11), NEW quoted, ApproveReview(Reviewer, "reason", quoted)
    PROVE  Stage(12)'
<1>1. /\ Baseline /\ DOMAIN drill = DrillFields /\ drill.revision = 8
      /\ drill.activation = SelfEvidence /\ Retested
      /\ drill.snapshot.revision = 8 /\ IsFiniteSet(drill.snapshot.checklist)
  BY StageParts
<1>2. Observed("closed")
  BY DEF Stage
<1>3. Writes({"state", "dossier", "reviews", "revision"})
  BY <1>1 DEF ApproveReview, Advance, Writes, DrillFields
<1>4. /\ drill'.state = "certified"
      /\ drill'.dossier = [snapshot |-> drill.snapshot.revision, reviewer |-> Reviewer,
                           head |-> drill.revision,
                           passed |-> Cardinality(drill.snapshot.checklist)]
  BY <1>1 DEF ApproveReview, Advance, DrillFields
<1>5. Baseline' /\ Observed("closed")' /\ Retested' /\ drill'.activation = SelfEvidence
  BY <1>1, <1>2, <1>3, FactsKept
<1>6. drill'.revision = 9 /\ drill'.snapshot = drill.snapshot
  BY <1>1, <1>3 DEF Writes, DrillFields
<1>7. drill'.dossier # None /\ drill'.dossier.reviewer = Reviewer
  <2>1. Cardinality(drill.snapshot.checklist) \in Nat
    BY <1>1, FS_CardinalityType
  <2> QED
    BY <1>1, <1>4, <2>1, ScriptAssumption DEF Reviewer
<1> QED
  BY <1>1, <1>4, <1>5, <1>6, <1>7 DEF Stage, StateAt

\* The dossier is verified: nothing changes.
LEMMA Verified ==
    ASSUME Stage(12), UNCHANGED drill
    PROVE  Stage(13)'
<1>1. drill.revision = 9 /\ drill.state = "certified"
  BY DEF Stage, StateAt
<1>2. /\ Baseline' /\ Observed("closed")' /\ Retested' /\ drill'.activation = SelfEvidence
      /\ drill'.snapshot.revision = 8 /\ IsFiniteSet(drill'.snapshot.checklist)
      /\ drill'.dossier # None /\ drill'.dossier.reviewer = Reviewer
  BY DEF Stage, Baseline, Observed, Retested, Found, HasLive
<1> QED
  BY <1>1, <1>2 DEF Stage, StateAt

-----------------------------------------------------------------------------
(* The script.                                                             *)

LEMMA Positions ==
    /\ Script[1] = "open" /\ Script[2] = "health" /\ Script[3] = "create"
    /\ Script[4] = "freeze" /\ Script[5] = "activation" /\ Script[6] = "start"
    /\ Script[7] = "observation" /\ Script[8] = "plan" /\ Script[9] = "retest"
    /\ Script[10] = "submit-review" /\ Script[11] = "approve" /\ Script[12] = "verify"
    /\ Script[13] = "shutdown"
  BY DEF Script

\* The script has taken the drill to its position, and nothing but the position
\* and the answers tell how far it is.
ScriptInv ==
    /\ step \in 1..13 /\ result \in {"running", "passed", "failed", "refused", "late"}
    /\ step <= 3 => drill = None
    /\ step >= 4 => Stage(step) /\ revision = drill.revision
    /\ result = "passed" => step = 13 /\ held = {}

\* An answered request takes the drill to the next position, and the answer is
\* the expected one.
LEMMA Answered ==
    ASSUME ScriptInv, Call
    PROVE  /\ step \in 3..12 /\ AsExpected(Op, drill')
           /\ \E n \in 4..13 : n = step + 1 /\ Stage(n)'
<1>1. /\ step \in 1..13 /\ Op \notin {"open", "health", "shutdown"} /\ Handled(Op)
      /\ step <= 3 => drill = None
      /\ step >= 4 => Stage(step)
  BY DEF ScriptInv, Call
<1>2. step \in 3..12
  BY <1>1, Positions DEF Op
<1>3. CASE step = 3
  <2>1. Op = "create" /\ drill = None
    BY <1>1, <1>3, Positions DEF Op
  <2>2. drill' = CreatedFrom(SelfDraft)
    BY <1>1, <2>1 DEF Handled
  <2>3. Stage(4)'
    BY <2>1, <2>2, Created
  <2>4. AsExpected(Op, drill')
    BY <2>1 DEF AsExpected
  <2> QED
    BY <1>3, <2>3, <2>4
<1>4. CASE step = 4
  <2>1. Op = "freeze" /\ Stage(4)
    BY <1>1, <1>4, Positions DEF Op
  <2>2. Freeze(Coordinator)
    BY <1>1, <2>1 DEF Handled
  <2>3. Stage(5)'
    BY <2>1, <2>2, Frozen
  <2>4. AsExpected(Op, drill')
    BY <2>1 DEF AsExpected
  <2> QED
    BY <1>4, <2>3, <2>4
<1>5. CASE step = 5
  <2>1. Op = "activation" /\ Stage(5)
    BY <1>1, <1>5, Positions DEF Op
  <2>2. RegisterActivation(Coordinator, SelfEvidence)
    BY <1>1, <2>1 DEF Handled
  <2>3. Stage(6)'
    BY <2>1, <2>2, Registered
  <2>4. AsExpected(Op, drill')
    BY <2>1 DEF AsExpected
  <2> QED
    BY <1>5, <2>3, <2>4
<1>6. CASE step = 6
  <2>1. Op = "start" /\ Stage(6)
    BY <1>1, <1>6, Positions DEF Op
  <2>2. Start(Coordinator)
    BY <1>1, <2>1 DEF Handled
  <2>3. Stage(7)'
    BY <2>1, <2>2, Started
  <2>4. AsExpected(Op, drill')
    BY <2>1 DEF AsExpected
  <2> QED
    BY <1>6, <2>3, <2>4
<1>7. CASE step = 7
  <2>1. Op = "observation" /\ Stage(7)
    BY <1>1, <1>7, Positions DEF Op
  <2>2. SubmitObservation(Coordinator, 1, Begun, Reading(10, 90))
    BY <1>1, <2>1 DEF Handled
  <2>3. Stage(8)'
    BY <2>1, <2>2, ObservedOnce
  <2>4. DOMAIN drill'.findings = {TheFinding} /\ drill'.state = "remediation"
    BY <2>3 DEF Stage, StateAt, Observed
  <2>5. AsExpected("observation", drill')
    BY <2>4, FS_Singleton DEF AsExpected
  <2> QED
    BY <1>7, <2>1, <2>3, <2>5
<1>8. CASE step = 8
  <2>1. Op = "plan" /\ Stage(8)
    BY <1>1, <1>8, Positions DEF Op
  <2>2. PICK f \in DOMAIN drill.findings :
           PlanRemediation(Coordinator, f, "cause", "action", "owner", RetestAt, Blank)
    BY <1>1, <2>1 DEF Handled
  <2>3. Stage(9)'
    BY <2>1, <2>2, Planned
  <2>4. AsExpected(Op, drill')
    BY <2>1 DEF AsExpected
  <2> QED
    BY <1>8, <2>3, <2>4
<1>9. CASE step = 9
  <2>1. Op = "retest" /\ Stage(9)
    BY <1>1, <1>9, Positions DEF Op
  <2>2. PICK f \in DOMAIN drill.findings :
           SubmitRetest(Coordinator, f, RetestAt, Reading(25, 80))
    BY <1>1, <2>1 DEF Handled
  <2>3. Stage(10)'
    BY <2>1, <2>2, RetestedOnce
  <2>4. AsExpected(Op, drill')
    BY <2>1 DEF AsExpected
  <2> QED
    BY <1>9, <2>3, <2>4
<1>10. CASE step = 10
  <2>1. Op = "submit-review" /\ Stage(10)
    BY <1>1, <1>10, Positions DEF Op
  <2>2. SubmitReview(Coordinator)
    BY <1>1, <2>1 DEF Handled
  <2>3. Stage(11)'
    BY <2>1, <2>2, Submitted
  <2>4. AsExpected(Op, drill')
    BY <2>1 DEF AsExpected
  <2> QED
    BY <1>10, <2>3, <2>4
<1>11. CASE step = 11
  <2>1. Op = "approve" /\ Stage(11)
    BY <1>1, <1>11, Positions DEF Op
  <2>2. ApproveReview(Reviewer, "reason", drill.snapshot.revision)
    BY <1>1, <2>1 DEF Handled
  <2>3. Stage(12)'
    BY <2>1, <2>2, Approved
  <2>4. drill'.dossier # None /\ drill'.state = "certified"
    BY <2>3 DEF Stage, StateAt
  <2>5. AsExpected("approve", drill')
    BY <2>4 DEF AsExpected
  <2> QED
    BY <1>11, <2>1, <2>3, <2>5
<1>12. CASE step = 12
  <2>1. Op = "verify" /\ Stage(12)
    BY <1>1, <1>12, Positions DEF Op
  <2>2. UNCHANGED drill
    BY <1>1, <2>1 DEF Handled
  <2>3. Stage(13)'
    BY <2>1, <2>2, Verified
  <2>4. AsExpected(Op, drill')
    BY <2>1 DEF AsExpected
  <2> QED
    BY <1>12, <2>3, <2>4
<1> QED
  BY <1>2, <1>3, <1>4, <1>5, <1>6, <1>7, <1>8, <1>9, <1>10, <1>11, <1>12

\* The drill stays where it is.
LEMMA StageKept ==
    ASSUME NEW n \in 4..13, Stage(n), UNCHANGED drill
    PROVE  Stage(n)'
  BY DEF Stage, Baseline, Unobserved, Observed, Retested, Found, HasLive

LEMMA InitScript == CheckInit => ScriptInv
  BY DEF CheckInit, ScriptInv

LEMMA NextScript == ScriptInv /\ [CheckNext]_checkVars => ScriptInv'
<1> SUFFICES ASSUME ScriptInv, [CheckNext]_checkVars PROVE ScriptInv'
  OBVIOUS
<1>1. /\ step \in 1..13 /\ result \in {"running", "passed", "failed", "refused", "late"}
      /\ step <= 3 => drill = None
      /\ step >= 4 => Stage(step) /\ revision = drill.revision
      /\ result = "passed" => step = 13 /\ held = {}
  BY DEF ScriptInv
<1>2. ASSUME UNCHANGED <<drill, step, revision>>,
             result' \in {"running", "passed", "failed", "refused", "late"},
             result' = "passed" => step = 13 /\ held' = {}
      PROVE  ScriptInv'
  <2>1. CASE step <= 3
    BY <1>1, <1>2, <2>1 DEF ScriptInv
  <2>2. CASE step >= 4
    <3>1. PICK n \in 4..13 : n = step
      BY <1>1, <2>2
    <3>2. Stage(n)'
      BY <1>1, <1>2, <2>2, <3>1, StageKept
    <3> QED
      BY <1>1, <1>2, <2>2, <3>1, <3>2 DEF ScriptInv
  <2> QED
    BY <1>1, <2>1, <2>2
<1>3. CASE OpenAll
  <2>1. UNCHANGED <<drill, revision>> /\ result = "running" /\ step = 1
    BY <1>1, <1>3, Positions DEF OpenAll, Op, Running
  <2>2. CASE Return("failed")
    BY <1>2, <2>1, <2>2 DEF Return
  <2>3. CASE step' = step + 1 /\ UNCHANGED <<waited, result>>
    BY <1>1, <2>1, <2>3 DEF ScriptInv
  <2> QED
    BY <1>3, <2>2, <2>3 DEF OpenAll
<1>4. CASE Healthy
  <2>1. /\ UNCHANGED <<drill, revision>> /\ result = "running" /\ step = 2
        /\ step' = step + 1 /\ result' = result
    BY <1>1, <1>4, Positions DEF Healthy, Op, Running, Proceed
  <2> QED
    BY <1>1, <2>1 DEF ScriptInv
<1>5. CASE Elapse
  BY <1>1, <1>2, <1>5 DEF Elapse
<1>6. CASE Call
  <2>1. step \in 3..12 /\ AsExpected(Op, drill') /\ \E n \in 4..13 : n = step + 1 /\ Stage(n)'
    BY <1>6, Answered
  <2>2. step' = step + 1 /\ result' = "running" /\ revision' = drill'.revision
    BY <1>6, <2>1 DEF Call, Proceed, Running
  <2>3. PICK n \in 4..13 : n = step + 1 /\ Stage(n)'
    BY <2>1
  <2> QED
    BY <2>1, <2>2, <2>3 DEF ScriptInv
<1>7. CASE ErrorAnswer
  <2>1. PICK r \in {"failed", "refused"} : Return(r)
    BY <1>7 DEF ErrorAnswer
  <2>2. UNCHANGED <<drill, revision>>
    BY <1>7 DEF ErrorAnswer
  <2> QED
    BY <1>2, <2>1, <2>2 DEF Return
<1>8. CASE TimeOut
  BY <1>2, <1>8 DEF TimeOut, Return
<1>9. CASE Shutdown
  <2>1. step = 13
    BY <1>1, <1>9, Positions DEF Shutdown, Op
  <2> QED
    BY <1>2, <1>9, <2>1 DEF Shutdown
<1>10. CASE UNCHANGED checkVars
  BY <1>1, <1>2, <1>10 DEF checkVars
<1> QED
  BY <1>3, <1>4, <1>5, <1>6, <1>7, <1>8, <1>9, <1>10 DEF CheckNext

LEMMA ScriptInvariant == CheckSpec => []ScriptInv
  BY InitScript, NextScript, PTL DEF CheckSpec

\* A self check that passes has taken a drill the whole way, whenever it began:
\* one critical finding of a rule, closed by a retest, an approval by somebody
\* else, and nothing is left open.
THEOREM PassedIsCertified == CheckSpec => []PassedMeansCertified
<1>1. ScriptInv => PassedMeansCertified
  <2> SUFFICES ASSUME ScriptInv, result = "passed" PROVE PassedMeansCertified
    BY DEF PassedMeansCertified
  <2>1. Stage(13) /\ held = {}
    BY DEF ScriptInv
  <2>2. drill.state = "certified" /\ drill.dossier.reviewer = Reviewer /\ drill.coordinator = Coordinator
    BY <2>1 DEF Stage, StateAt, Baseline
  <2>3. Reviewer # Coordinator
    BY DEF Reviewer, Coordinator
  <2>4. TheFinding \in DOMAIN drill.findings /\ drill.findings[TheFinding].severity = "critical"
    BY <2>1 DEF Stage, Observed, Found
  <2>5. TheFinding.rule \in RuleCodes
    BY DEF TheFinding, FindingId, RuleCodes
  <2>6. \E o \in drill.observations : o.kind = "retest" /\ o.id = drill.findings[TheFinding].retest
    BY <2>1 DEF Stage, Retested, Found
  <2> QED
    BY <2>1, <2>2, <2>3, <2>4, <2>5, <2>6 DEF PassedMeansCertified
<1> QED
  BY <1>1, ScriptInvariant, PTL

\* No answer the service gives is one the script does not expect: the
\* observation opens one finding and ends the exercise, the approval certifies.
THEOREM AnswersAreExpected == CheckSpec => [](result # "unexpected")
<1>1. ScriptInv => result # "unexpected"
  BY DEF ScriptInv
<1> QED
  BY <1>1, ScriptInvariant, PTL

-----------------------------------------------------------------------------
(* The clock.                                                              *)

\* The clock, since the script read it: each request has taken its limit at most.
ClockInv ==
    /\ step \in 1..13 /\ now \in Nat /\ waited \in 0..Limit(Op)
    /\ step <= 2 => now = Begun
    /\ step >= 3 => now <= Begun + 4 * (step - 3) + waited

LEMMA Limits ==
    /\ \A n \in 3..12 : Limit(Script[n]) = 4
    /\ Limit(Script[1]) = 0 /\ Limit(Script[2]) = 6 /\ Limit(Script[13]) = 3
<1>1. \A n \in 3..12 : n \in {3, 4, 5, 6, 7, 8, 9, 10, 11, 12}
  OBVIOUS
<1>2. \A n \in {3, 4, 5, 6, 7, 8, 9, 10, 11, 12} : Script[n] \notin {"open", "health", "shutdown"}
  BY Positions
<1> QED
  BY <1>1, <1>2, Positions DEF Limit

LEMMA NextClock == ScriptInv /\ ClockInv /\ [CheckNext]_checkVars => ClockInv'
<1> SUFFICES ASSUME ScriptInv, ClockInv, [CheckNext]_checkVars PROVE ClockInv'
  OBVIOUS
<1>1. /\ step \in 1..13 /\ now \in Nat /\ waited \in 0..Limit(Script[step])
      /\ step <= 2 => now = Begun
      /\ step >= 3 => now <= Begun + 4 * (step - 3) + waited
  BY DEF ClockInv, Op
<1>2. \A n \in 1..13 : Limit(Script[n]) \in Nat
  <2>1. \A n \in 1..13 : n \in 3..12 \/ n \in {1, 2, 13}
    OBVIOUS
  <2> QED
    BY <2>1, Limits
<1>3. ASSUME UNCHANGED <<now, step, waited>> PROVE ClockInv'
  BY <1>1, <1>3 DEF ClockInv, Op
<1>4. ASSUME step \in 1..12, UNCHANGED now, step' = step + 1, waited' = 0
      PROVE  ClockInv'
  <2>1. waited' \in 0..Limit(Script[step'])
    BY <1>2, <1>4
  <2>2. CASE step <= 2
    BY <1>1, <1>4, <2>1, <2>2, BegunAssumption DEF ClockInv, Op
  <2>3. CASE step >= 3
    <3>1. waited <= 4
      BY <1>1, <1>4, <2>3, Limits
    <3>2. now <= Begun + 4 * (step' - 3) + waited'
      BY <1>1, <1>4, <2>3, <3>1, BegunAssumption
    <3> QED
      BY <1>1, <1>4, <2>1, <2>3, <3>2 DEF ClockInv, Op
  <2> QED
    BY <1>4, <2>2, <2>3
<1>5. CASE OpenAll
  <2>1. step = 1 /\ UNCHANGED now
    BY <1>1, <1>5, Positions DEF OpenAll, Op
  <2>2. waited = 0
    BY <1>1, <2>1, Limits
  <2>3. CASE Return("failed")
    BY <1>3, <2>1, <2>3 DEF Return
  <2>4. CASE step' = step + 1 /\ UNCHANGED <<waited, result>>
    BY <1>4, <2>1, <2>2, <2>4
  <2> QED
    BY <1>5, <2>3, <2>4 DEF OpenAll
<1>6. CASE Healthy
  <2>1. step = 2
    BY <1>1, <1>6, Positions DEF Healthy, Op
  <2> QED
    BY <1>4, <1>6, <2>1 DEF Healthy, Proceed
<1>7. CASE Elapse
  <2>1. waited < Limit(Script[step]) /\ waited' = waited + 1 /\ step' = step
    BY <1>7 DEF Elapse, Op
  <2>2. step # 1
    BY <1>1, <2>1, Limits
  <2>3. waited' \in 0..Limit(Script[step'])
    BY <1>1, <1>2, <2>1
  <2>4. CASE step = 2
    BY <1>1, <1>7, <2>1, <2>3, <2>4, Positions DEF Elapse, Op, ClockInv
  <2>5. CASE step >= 3
    <3>1. Script[step] # "health"
      <4>1. \A n \in 3..13 : n \in {3, 4, 5, 6, 7, 8, 9, 10, 11, 12, 13}
        OBVIOUS
      <4>2. step \in {3, 4, 5, 6, 7, 8, 9, 10, 11, 12, 13}
        BY <1>1, <2>5, <4>1
      <4> QED
        BY <4>2, Positions
    <3>2. now' = now + 1
      BY <1>7, <3>1 DEF Elapse, Op
    <3> QED
      BY <1>1, <2>1, <2>3, <2>5, <3>2, BegunAssumption DEF ClockInv, Op
  <2> QED
    BY <1>1, <2>2, <2>4, <2>5
<1>8. CASE Call
  <2>1. step \in 3..12 /\ AsExpected(Op, drill')
    BY <1>8, Answered
  <2>2. step' = step + 1 /\ waited' = 0
    BY <1>8, <2>1 DEF Call, Proceed
  <2>3. UNCHANGED now
    BY <1>8 DEF Call, Handled, Freeze, RegisterActivation, Start, SubmitObservation, PlanRemediation,
                SubmitRetest, SubmitReview, ApproveReview, Advance
  <2> QED
    BY <1>4, <2>1, <2>2, <2>3
<1>9. CASE ErrorAnswer
  <2>1. UNCHANGED <<now, step, waited>>
    BY <1>9 DEF ErrorAnswer, Return
  <2> QED
    BY <1>3, <2>1
<1>10. CASE TimeOut
  BY <1>3, <1>10 DEF TimeOut, Return
<1>11. CASE Shutdown
  BY <1>3, <1>11 DEF Shutdown
<1>12. CASE UNCHANGED checkVars
  BY <1>3, <1>12 DEF checkVars
<1> QED
  BY <1>5, <1>6, <1>7, <1>8, <1>9, <1>10, <1>11, <1>12 DEF CheckNext

LEMMA ClockInvariant == CheckSpec => []ClockInv
<1>1. CheckInit => ClockInv
  BY BegunAssumption, Positions, Limits DEF CheckInit, ClockInv, Op
<1> QED
  BY <1>1, NextClock, ScriptInvariant, PTL DEF CheckSpec

-----------------------------------------------------------------------------
(* Every request is acceptable when it is made.                            *)

\* What the handlers ask of the request that is due, bounds of the model apart.
Acceptable ==
    /\ Op = "create" => ValidDraft(SelfDraft)
    /\ Op = "freeze" => ValidDraft(drill) /\ CanMove("baseline_frozen")
    /\ Op = "activation" =>
          drill.state = "baseline_frozen" /\ ValidActivation(SelfEvidence, drill.start)
    /\ Op = "start" =>
          /\ drill.activation # None /\ ValidActivation(drill.activation, drill.start)
          /\ NotExpired(drill.activation) /\ CanMove("in_progress")
    /\ Op = "observation" =>
          drill.state = "in_progress" /\ NextCheckpoint(drill, 1) /\ InWindow(Begun)
    /\ Op = "plan" =>
          /\ drill.state = "remediation" /\ RetestDue(RetestAt)
          /\ Blank \notin {"cause", "action", "owner"}
          /\ \E f \in DOMAIN drill.findings : Plannable(f)
    /\ Op = "retest" =>
          /\ drill.state = "remediation" /\ InWindow(RetestAt)
          /\ \E f \in DOMAIN drill.findings :
                /\ drill.findings[f].status = "planned"
                /\ drill.findings[f].checkpoint \in DOMAIN drill.checkpoints
                /\ ~FailureForRule(drill.checkpoints[drill.findings[f].checkpoint],
                                   Reading(25, 80), f.rule)
    /\ Op = "submit-review" =>
          /\ AllLiveObservationsSubmitted(drill) /\ OpenFindings(drill) = {}
          /\ CanMove("pending_review")
    /\ Op = "approve" =>
          Decidable(Reviewer, "reason", drill.snapshot.revision) /\ CanMove("certified")
    /\ Op = "verify" => drill.dossier # None

LEMMA CheckedDraft ==
    \A d : /\ d.start = Begun - 600 /\ d.end = Begun + 7200
           /\ d.checkpoints = SelfDraft.checkpoints
           => ValidDraft(d)
<1>1. /\ DOMAIN SelfDraft.checkpoints = {1} /\ SelfDraft.checkpoints # << >>
      /\ SelfDraft.checkpoints[1].limit > 0 /\ SelfDraft.checkpoints[1].capacity > 0
  BY DEF SelfDraft
<1>2. Begun + 7200 > Begun - 600
  BY BegunAssumption
<1> QED
  BY <1>1, <1>2 DEF ValidDraft

\* The four texts have four digests.
LEMMA DigestsDiffer ==
    /\ Digests \in [Categories -> 1..4]
    /\ \A b, c \in Categories : Digests[b] = Digests[c] => b = c
<1> DEFINE distinct(f) == \A b, c \in Categories : f[b] = f[c] => b = c
           f == [c \in Categories |-> CASE c = "evacuation_route"    -> 1
                                        [] c = "communication_gear"  -> 2
                                        [] c = "accessible_facility" -> 3
                                        [] OTHER                     -> 4]
<1>1. f \in [Categories -> 1..4]
  OBVIOUS
<1>2. distinct(f)
  BY DEF Categories
<1> HIDE DEF f
<1> QED
  BY <1>1, <1>2 DEF Digests

\* The evidence is there and covers the planned start.
LEMMA EvidenceCovers ==
    /\ SelfEvidence # None
    /\ ValidActivation(SelfEvidence, Begun - 600)
    /\ \A c \in Categories : SelfEvidence[c].until = Begun + 3600
<1>1. SelfEvidence \in [Categories -> EvidenceType]
  <2>1. \A c \in Categories : [collected |-> Begun - 60, until |-> Begun + 3600, digest |-> Digests[c]]
                                 \in EvidenceType
    BY DigestsDiffer, BegunAssumption DEF EvidenceType
  <2> QED
    BY <2>1 DEF SelfEvidence
<1>2. \A c \in Categories : /\ SelfEvidence[c].collected = Begun - 60
                            /\ SelfEvidence[c].until = Begun + 3600
                            /\ SelfEvidence[c].digest = Digests[c]
  BY DEF SelfEvidence
<1>3. Begun - 60 <= Begun + 3600 /\ Begun + 3600 >= Begun - 600
  BY BegunAssumption
<1>4. ValidActivation(SelfEvidence, Begun - 600)
  BY <1>2, <1>3, DigestsDiffer DEF ValidActivation
<1> QED
  BY <1>1, <1>2, <1>4, ScriptAssumption

\* However long every call of the script has taken, within its limit, the
\* service has no reason to refuse the next one: the evidence has not expired
\* at the start, the retest is still ahead when it is planned, and each state,
\* finding and snapshot is there.
THEOREM RequestsAreAcceptable == CheckSpec => []Acceptable
<1>1. ScriptInv /\ ClockInv => Acceptable
  <2> SUFFICES ASSUME ScriptInv, ClockInv PROVE Acceptable
    OBVIOUS
  <2>1. step \in 1..13 /\ \A n \in 4..13 : step = n => Stage(n)
    BY DEF ScriptInv
  <2>2. CASE step \in {1, 2, 13}
    BY <2>2, Positions DEF Acceptable, Op
  <2>3. CASE step = 3
    <3>1. Op = "create"
      BY <2>3, Positions DEF Op
    <3>2. SelfDraft.start = Begun - 600 /\ SelfDraft.end = Begun + 7200
      BY DEF SelfDraft
    <3>3. ValidDraft(SelfDraft)
      BY <3>2, CheckedDraft
    <3> QED
      BY <3>1, <3>3 DEF Acceptable
  <2>4. CASE step = 4
    <3>1. Op = "freeze" /\ Stage(4)
      BY <2>1, <2>4, Positions DEF Op
    <3>2. Baseline /\ drill.state = "draft"
      BY <3>1 DEF Stage, StateAt
    <3>3. ValidDraft(drill)
      BY <3>2, CheckedDraft DEF Baseline
    <3>4. CanMove("baseline_frozen")
      BY <3>2 DEF CanMove, Transitions
    <3> QED
      BY <3>1, <3>3, <3>4 DEF Acceptable
  <2>5. CASE step = 5
    <3>1. Op = "activation" /\ Stage(5)
      BY <2>1, <2>5, Positions DEF Op
    <3>2. drill.state = "baseline_frozen" /\ drill.start = Begun - 600
      BY <3>1 DEF Stage, StateAt, Baseline
    <3> QED
      BY <3>1, <3>2, EvidenceCovers DEF Acceptable
  <2>6. CASE step = 6
    <3>1. Op = "start" /\ Stage(6)
      BY <2>1, <2>6, Positions DEF Op
    <3>2. drill.state = "baseline_frozen" /\ drill.start = Begun - 600 /\ drill.activation = SelfEvidence
      BY <3>1 DEF Stage, StateAt, Baseline
    <3>3. now \in Nat /\ now <= Begun + 4 * 3 + 4
      <4>1. Limit(Op) = 4
        BY <2>6, Limits DEF Op
      <4> QED
        BY <2>6, <4>1, BegunAssumption DEF ClockInv
    <3>4. NotExpired(drill.activation)
      BY <3>2, <3>3, EvidenceCovers, BegunAssumption DEF NotExpired
    <3>5. CanMove("in_progress")
      BY <3>2 DEF CanMove, Transitions
    <3> QED
      BY <3>1, <3>2, <3>4, <3>5, EvidenceCovers DEF Acceptable
  <2>7. CASE step = 7
    <3>1. Op = "observation" /\ Stage(7)
      BY <2>1, <2>7, Positions DEF Op
    <3>2. /\ drill.state = "in_progress" /\ drill.observations = {}
          /\ drill.start = Begun - 600 /\ drill.end = Begun + 7200
      BY <3>1 DEF Stage, StateAt, Baseline, Unobserved
    <3>3. NextCheckpoint(drill, 1)
      BY <3>2 DEF NextCheckpoint, HasLive
    <3>4. InWindow(Begun)
      BY <3>2, BegunAssumption DEF InWindow
    <3> QED
      BY <3>1, <3>2, <3>3, <3>4 DEF Acceptable
  <2>8. CASE step = 8
    <3>1. Op = "plan" /\ Stage(8)
      BY <2>1, <2>8, Positions DEF Op
    <3>2. /\ drill.state = "remediation" /\ drill.end = Begun + 7200 /\ Observed("open")
      BY <3>1 DEF Stage, StateAt, Baseline
    <3>3. now \in Nat /\ now <= Begun + 4 * 5 + 4
      <4>1. Limit(Op) = 4
        BY <2>8, Limits DEF Op
      <4> QED
        BY <2>8, <4>1, BegunAssumption DEF ClockInv
    <3>4. RetestDue(RetestAt)
      BY <3>2, <3>3, BegunAssumption DEF RetestDue, RetestAt
    <3>5. TheFinding \in DOMAIN drill.findings /\ Plannable(TheFinding)
      BY <3>2 DEF Observed, Found, Plannable
    <3>6. Blank \notin {"cause", "action", "owner"}
      BY TextsAssumption, ScriptAssumption
    <3> QED
      BY <3>1, <3>2, <3>4, <3>5, <3>6 DEF Acceptable
  <2>9. CASE step = 9
    <3>1. Op = "retest" /\ Stage(9)
      BY <2>1, <2>9, Positions DEF Op
    <3>2. /\ drill.state = "remediation" /\ drill.start = Begun - 600 /\ drill.end = Begun + 7200
          /\ drill.checkpoints = SelfDraft.checkpoints /\ Observed("planned")
      BY <3>1 DEF Stage, StateAt, Baseline
    <3>3. InWindow(RetestAt)
      BY <3>2, BegunAssumption DEF InWindow, RetestAt
    <3>4. /\ TheFinding \in DOMAIN drill.findings /\ drill.findings[TheFinding].status = "planned"
          /\ drill.findings[TheFinding].checkpoint = 1
      BY <3>2 DEF Observed, Found
    <3>5. 1 \in DOMAIN drill.checkpoints /\ ~FailureForRule(drill.checkpoints[1], Reading(25, 80), TheFinding.rule)
      BY <3>2, TooFew DEF FailureForRule
    <3> QED
      BY <3>1, <3>2, <3>3, <3>4, <3>5 DEF Acceptable
  <2>10. CASE step = 10
    <3>1. Op = "submit-review" /\ Stage(10)
      BY <2>1, <2>10, Positions DEF Op
    <3>2. /\ drill.state = "remediation" /\ drill.checkpoints = SelfDraft.checkpoints
          /\ Observed("closed")
      BY <3>1 DEF Stage, StateAt, Baseline
    <3>3. AllLiveObservationsSubmitted(drill)
      BY <3>2, TooFew DEF AllLiveObservationsSubmitted, Observed
    <3>4. OpenFindings(drill) = {}
      BY <3>2 DEF OpenFindings, Observed, Found
    <3>5. CanMove("pending_review")
      BY <3>2 DEF CanMove, Transitions
    <3> QED
      BY <3>1, <3>3, <3>4, <3>5 DEF Acceptable
  <2>11. CASE step = 11
    <3>1. Op = "approve" /\ Stage(11)
      BY <2>1, <2>11, Positions DEF Op
    <3>2. /\ drill.state = "pending_review" /\ drill.coordinator = Coordinator
          /\ drill.snapshot.revision = 8
      BY <3>1 DEF Stage, StateAt, Baseline
    <3>3. drill.snapshot # NoSnapshot
      BY <3>2, NoneAssumption DEF NoSnapshot
    <3>4. Blank # "reason"
      BY TextsAssumption, ScriptAssumption
    <3>5. Decidable(Reviewer, "reason", drill.snapshot.revision)
      BY <3>2, <3>3, <3>4 DEF Decidable, Reviewer, Coordinator
    <3>6. CanMove("certified")
      BY <3>2 DEF CanMove, Transitions
    <3> QED
      BY <3>1, <3>5, <3>6 DEF Acceptable
  <2>12. CASE step = 12
    <3>1. Op = "verify" /\ Stage(12)
      BY <2>1, <2>12, Positions DEF Op
    <3> QED
      BY <3>1 DEF Acceptable, Stage
  <2> QED
    BY <2>1, <2>2, <2>3, <2>4, <2>5, <2>6, <2>7, <2>8, <2>9, <2>10, <2>11, <2>12
<1> QED
  BY <1>1, ScriptInvariant, ClockInvariant, PTL
=============================================================================
