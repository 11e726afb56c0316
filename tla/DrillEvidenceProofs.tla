-------------------------- MODULE DrillEvidenceProofs --------------------------
(* What a certificate rests on, for any actors, drafts, readings, times    *)
(* and bounds: the records, the receipts, the findings, their plans and    *)
(* their retests explain one another after every use case, and no use case *)
(* rewrites what is on file; the view has a todo for every drill that is   *)
(* not certified, and offers what can be accepted; the figures of a dossier*)
(* add up.                                                                 *)
EXTENDS DrillWorkflowProofs, DrillView, DossierFigures

\* What the evidence rests on: receipts are told apart by their ids, a review's
\* returned items have their findings, a finding that was planned has a complete
\* plan, and a drill leaves the exercise with every record in.
FilesOK ==
    /\ \A r \in drill.receipts : DOMAIN r.items = RuleCodes
    /\ \A r, s \in drill.receipts : r.id = s.id => r = s
    /\ drill.reviews \in Seq({drill.reviews[v] : v \in DOMAIN drill.reviews})
    /\ \A v \in DOMAIN drill.reviews :
          /\ drill.reviews[v].reviewer # drill.coordinator
          /\ \A i \in drill.reviews[v].returned : \E f \in DOMAIN drill.findings : f.item = i
    /\ \A f \in DOMAIN drill.findings :
          drill.findings[f].status # "open" =>
             Blank \notin {drill.findings[f].cause, drill.findings[f].action,
                           drill.findings[f].owner}
    /\ drill.state \in {"remediation", "pending_review", "certified"} =>
          AllLiveObservationsSubmitted(drill)
    /\ drill.snapshot # NoSnapshot => drill.snapshot.revision \in 1..drill.revision

\* The inductive invariant behind certification.
EvidenceInv ==
    /\ IInv /\ FilesOK
    /\ RecordedInOrder /\ FindingsMatchReceipts /\ PlanHistoryExplainsPlan
    /\ ClosedByEvidence /\ CertifiedOnEvidence

\* The parts of the file a certificate rests on.
Evidence ==
    /\ RecordedInOrder /\ FindingsMatchReceipts
    /\ PlanHistoryExplainsPlan /\ ClosedByEvidence

\* A new drill has nothing on file.
LEMMA InitEvidence == Init => EvidenceInv
<1> SUFFICES ASSUME Init PROVE EvidenceInv
  OBVIOUS
<1>1. PICK draft \in Drafts :
        drill = [coordinator |-> draft.coordinator, start |-> draft.start,
                 end |-> draft.end, checkpoints |-> draft.checkpoints,
                 state |-> "draft", revision |-> 1, baselineVersion |-> 0,
                 activation |-> None, observations |-> {}, receipts |-> {},
                 findings |-> << >>, snapshot |-> NoSnapshot,
                 reviews |-> << >>, dossier |-> None]
  BY DEF Init, CreatedFrom
<1>2. /\ drill.state = "draft" /\ drill.observations = {} /\ drill.receipts = {}
      /\ DOMAIN drill.findings = {} /\ drill.snapshot = NoSnapshot
      /\ drill.reviews = << >>
  BY <1>1
<1>3. FilesOK
  BY <1>2 DEF FilesOK
<1>4. RecordedInOrder
  BY <1>2 DEF RecordedInOrder
<1>5. FindingsMatchReceipts /\ PlanHistoryExplainsPlan /\ ClosedByEvidence
      /\ CertifiedOnEvidence
  BY <1>2 DEF FindingsMatchReceipts, PlanHistoryExplainsPlan, ClosedByEvidence,
              CertifiedOnEvidence
<1> QED
  BY <1>3, <1>4, <1>5, InitInv DEF EvidenceInv

-----------------------------------------------------------------------------

\* Steps that write no facts keep the evidence.
LEMMA EvidenceKept ==
    ASSUME Evidence,
           drill'.observations = drill.observations, drill'.receipts = drill.receipts,
           drill'.findings = drill.findings, drill'.checkpoints = drill.checkpoints
    PROVE  Evidence'
<1>1. RecordedInOrder'
  BY DEF Evidence, RecordedInOrder
<1>2. FindingsMatchReceipts'
  BY DEF Evidence, FindingsMatchReceipts
<1>3. PlanHistoryExplainsPlan' /\ ClosedByEvidence'
  BY DEF Evidence, PlanHistoryExplainsPlan, ClosedByEvidence
<1> QED
  BY <1>1, <1>2, <1>3 DEF Evidence

\* Steps that write neither facts nor reviews, and that do not end the exercise
\* unless every record is in, keep the files in order.
LEMMA FilesKept ==
    ASSUME FilesOK,
           drill'.receipts = drill.receipts, drill'.findings = drill.findings,
           drill'.observations = drill.observations,
           drill'.checkpoints = drill.checkpoints, drill'.reviews = drill.reviews,
           drill'.coordinator = drill.coordinator,
           drill'.state \in {"remediation", "pending_review", "certified"} =>
               AllLiveObservationsSubmitted(drill),
           drill'.snapshot # NoSnapshot =>
               drill'.snapshot.revision \in 1..drill'.revision
    PROVE  FilesOK'
<1>1. AllLiveObservationsSubmitted(drill') <=> AllLiveObservationsSubmitted(drill)
  BY DEF AllLiveObservationsSubmitted, HasLive
<1> QED
  BY <1>1 DEF FilesOK

\* Freeze, registration and Start touch no evidence.
LEMMA BeforeRecords ==
    ASSUME EvidenceInv, NEW a \in Actors,
           Freeze(a) \/ Start(a) \/ (\E e \in Submissions : RegisterActivation(a, e))
    PROVE  FilesOK' /\ Evidence' /\ CertifiedOnEvidence'
<1>1. TypeOK
  BY DEF EvidenceInv, IInv
<1>2. /\ KeepsAllBut({"state", "baselineVersion", "activation", "revision"})
      /\ drill.state \in {"draft", "baseline_frozen"}
      /\ drill'.state \in {"baseline_frozen", "in_progress"}
  <2>1. CASE Freeze(a)
    BY <1>1, <2>1, FreezeStep DEF KeepsAllBut, DrillFields
  <2>2. CASE Start(a)
    BY <1>1, <2>2, StartStep DEF KeepsAllBut, DrillFields
  <2>3. ASSUME NEW e \in Submissions, RegisterActivation(a, e)
        PROVE  /\ KeepsAllBut({"state", "baselineVersion", "activation", "revision"})
               /\ drill.state \in {"draft", "baseline_frozen"}
               /\ drill'.state \in {"baseline_frozen", "in_progress"}
    BY <1>1, <2>3, RegisterStep DEF KeepsAllBut, DrillFields
  <2> QED
    BY <2>1, <2>2, <2>3
<1>3. /\ drill'.observations = drill.observations /\ drill'.receipts = drill.receipts
      /\ drill'.findings = drill.findings /\ drill'.checkpoints = drill.checkpoints
      /\ drill'.reviews = drill.reviews /\ drill'.coordinator = drill.coordinator
      /\ drill'.snapshot = drill.snapshot
  BY <1>2 DEF KeepsAllBut, DrillFields
<1>4. drill.snapshot = NoSnapshot
  BY <1>2 DEF EvidenceInv, IInv, ReviewedFactsAreTheFacts
<1>5. FilesOK'
  BY <1>2, <1>3, <1>4, FilesKept DEF EvidenceInv
<1>6. Evidence'
  BY <1>3, EvidenceKept DEF EvidenceInv, Evidence
<1>7. CertifiedOnEvidence'
  BY <1>2 DEF CertifiedOnEvidence
<1> QED
  BY <1>5, <1>6, <1>7

\* SubmitReview is refused until every record is in.
LEMMA SubmitReviewEvidence ==
    ASSUME EvidenceInv, NEW a \in Actors, SubmitReview(a)
    PROVE  FilesOK' /\ Evidence' /\ CertifiedOnEvidence'
<1>1. /\ KeepsAllBut({"state", "snapshot", "revision"})
      /\ drill'.state = "pending_review"
      /\ AllLiveObservationsSubmitted(drill)
      /\ drill'.snapshot = MakeSnapshot(drill)
      /\ drill.revision \in Nat \ {0}
  BY SubmitReviewStep DEF EvidenceInv, IInv, TypeOK
<1>2. /\ drill'.observations = drill.observations /\ drill'.receipts = drill.receipts
      /\ drill'.findings = drill.findings /\ drill'.checkpoints = drill.checkpoints
      /\ drill'.reviews = drill.reviews /\ drill'.coordinator = drill.coordinator
      /\ drill'.revision = drill.revision + 1
  BY <1>1 DEF KeepsAllBut, DrillFields
<1>3. drill'.snapshot.revision \in 1..drill'.revision
  BY <1>1, <1>2 DEF MakeSnapshot, Fresh
<1>4. FilesOK'
  BY <1>1, <1>2, <1>3, FilesKept DEF EvidenceInv
<1>5. Evidence'
  BY <1>2, EvidenceKept DEF EvidenceInv, Evidence
<1>6. CertifiedOnEvidence'
  BY <1>1 DEF CertifiedOnEvidence
<1> QED
  BY <1>4, <1>5, <1>6

-----------------------------------------------------------------------------

\* The record of an observation is the first of its checkpoint and has one
\* receipt, whose failed items are the rules the findings are opened for.
LEMMA NewReceipt ==
    ASSUME TypeOK, NEW c \in DOMAIN drill.checkpoints, NEW m \in Readings
    PROVE  LET r == Receipt(c, m) IN
           /\ r.id = Fresh /\ r.checkpoint = c /\ r.observation = Fresh
           /\ DOMAIN r.items = RuleCodes
           /\ FailedItems(r.items) = Evaluate(drill.checkpoints[c], m)
           /\ \A rule \in RuleCodes : r.items[rule].severity = Severity(rule)
<1>1. drill.checkpoints[c] \in CheckpointType /\ m \in MetricsType
  BY ReadingsAssumption DEF TypeOK
<1>2. JudgedAlike(drill.checkpoints[c], m)
  BY <1>1, ReceiptAgreesWithEvaluation
<1>3. DOMAIN BuildJudgmentReceipt(drill.checkpoints[c], m) = RuleCodes
  BY <1>1, ReceiptItems
<1> QED
  BY <1>2, <1>3 DEF Receipt, JudgedAlike

\* The new record keeps the frozen order.
LEMMA RecordKeepsOrder ==
    ASSUME TypeOK, RecordedInOrder, NEW c \in DOMAIN drill.checkpoints, NEW at, NEW m,
           NextCheckpoint(drill, c),
           drill'.observations = drill.observations \cup {Observation("live", c, at, m)},
           drill'.receipts = drill.receipts \cup {Receipt(c, m)}
    PROVE  RecordedInOrder'
<1> DEFINE o     == Observation("live", c, at, m)
           r     == Receipt(c, m)
           live  == {x \in drill.observations : x.kind = "live"}
           live2 == {x \in drill'.observations : x.kind = "live"}
<1>1. /\ o.id = Fresh /\ o.checkpoint = c /\ o.kind = "live"
      /\ r.id = Fresh /\ r.checkpoint = c /\ r.observation = Fresh
  BY DEF Observation, Receipt
<1>2. \A x \in live : x.id < Fresh /\ x.checkpoint # c
  BY DEF TypeOK, ObservationType, Fresh, NextCheckpoint, HasLive
<1>3. \A b \in 1..(c - 1) : \E x \in live : x.checkpoint = b
  BY DEF NextCheckpoint, HasLive
<1>4. live2 = live \cup {o}
  BY <1>1
<1>5. /\ \A x \in live : \A b \in 1..(x.checkpoint - 1) :
            \E y \in live : y.checkpoint = b /\ y.id < x.id
      /\ \A x, y \in live : x.checkpoint = y.checkpoint => x = y
      /\ {<<x.id, x.checkpoint, x.observation>> : x \in drill.receipts}
           = {<<x.id, x.checkpoint, x.id>> : x \in live}
  BY DEF RecordedInOrder
<1>6. drill'.receipts = drill.receipts \cup {r}
  OBVIOUS
<1> HIDE DEF o, r, live, live2
<1>7. \A x \in live2 : \A b \in 1..(x.checkpoint - 1) :
         \E y \in live2 : y.checkpoint = b /\ y.id < x.id
  <2> SUFFICES ASSUME NEW x \in live2, NEW b \in 1..(x.checkpoint - 1)
               PROVE  \E y \in live2 : y.checkpoint = b /\ y.id < x.id
    OBVIOUS
  <2>1. CASE x \in live
    BY <1>4, <1>5, <2>1
  <2>2. CASE x = o
    <3>1. PICK y \in live : y.checkpoint = b
      BY <1>1, <1>3, <2>2
    <3> QED
      BY <1>1, <1>2, <1>4, <2>2, <3>1
  <2> QED
    BY <1>4, <2>1, <2>2
<1>8. \A x, y \in live2 : x.checkpoint = y.checkpoint => x = y
  BY <1>1, <1>2, <1>4, <1>5
<1>9. {<<x.id, x.checkpoint, x.observation>> : x \in drill'.receipts}
        = {<<x.id, x.checkpoint, x.id>> : x \in live2}
  <2>1. {<<x.id, x.checkpoint, x.observation>> : x \in drill'.receipts}
          = {<<x.id, x.checkpoint, x.observation>> : x \in drill.receipts}
              \cup {<<Fresh, c, Fresh>>}
    BY <1>1, <1>6
  <2>2. {<<x.id, x.checkpoint, x.id>> : x \in live2}
          = {<<x.id, x.checkpoint, x.id>> : x \in live} \cup {<<Fresh, c, Fresh>>}
    BY <1>1, <1>4
  <2> QED
    BY <1>5, <2>1, <2>2
<1> QED
  BY <1>7, <1>8, <1>9 DEF RecordedInOrder, live2

\* A rule of a receipt has a finding under the receipt's id, and no other.
LEMMA FindingNamed ==
    ASSUME NEW c, NEW m, NEW rule
    PROVE  /\ FindingId(Fresh, rule, None) \in DOMAIN OpenedByRules(c, m)
                <=> rule \in Evaluate(drill.checkpoints[c], m)
           /\ \A f \in DOMAIN OpenedByRules(c, m) :
                 /\ f.opened = Fresh
                 /\ f.rule \in Evaluate(drill.checkpoints[c], m)
                 /\ OpenedByRules(c, m)[f] = NewFinding(c, Severity(f.rule), Fresh, None, Blank)
<1>1. \A r : /\ FindingId(Fresh, r, None).rule = r
             /\ FindingId(Fresh, r, None).opened = Fresh
  BY DEF FindingId
<1> QED
  BY <1>1 DEF OpenedByRules

\* The findings an observation opens are those its receipt shows.
LEMMA RecordKeepsFindings ==
    ASSUME TypeOK, FindingsMatchReceipts, NEW c \in DOMAIN drill.checkpoints,
           NEW m \in Readings,
           drill'.receipts = drill.receipts \cup {Receipt(c, m)},
           DOMAIN drill'.findings = DOMAIN drill.findings \cup DOMAIN OpenedByRules(c, m),
           \A f \in DOMAIN drill.findings : drill'.findings[f] = drill.findings[f],
           \A f \in DOMAIN OpenedByRules(c, m) :
              drill'.findings[f] = OpenedByRules(c, m)[f]
    PROVE  FindingsMatchReceipts'
<1> DEFINE R      == Receipt(c, m)
           opened == OpenedByRules(c, m)
           failed == Evaluate(drill.checkpoints[c], m)
<1>1. /\ R.id = Fresh /\ R.checkpoint = c
      /\ FailedItems(R.items) = failed
      /\ \A rule \in RuleCodes : R.items[rule].severity = Severity(rule)
  BY NewReceipt
<1>2. \A r, rule : /\ FindingId(r, rule, None).opened = r
                   /\ FindingId(r, rule, None).rule = rule
  BY DEF FindingId
<1>3. /\ \A r \in drill.receipts : r.id # Fresh
      /\ \A f \in DOMAIN drill.findings : f.opened # Fresh
  BY DEF TypeOK, FindingOK, Fresh
<1>4. /\ \A f \in DOMAIN opened : f.opened = Fresh /\ f.rule \in failed
      /\ \A f \in DOMAIN opened :
            opened[f] = NewFinding(c, Severity(f.rule), Fresh, None, Blank)
      /\ \A rule : FindingId(Fresh, rule, None) \in DOMAIN opened <=> rule \in failed
  BY FindingNamed
<1>5. failed \subseteq RuleCodes
  BY DEF Evaluate
<1>6. /\ drill'.receipts = drill.receipts \cup {R}
      /\ DOMAIN drill'.findings = DOMAIN drill.findings \cup DOMAIN opened
      /\ \A f \in DOMAIN opened : drill'.findings[f] = opened[f]
  OBVIOUS
<1> HIDE DEF R, opened, failed
<1>7. ASSUME NEW r \in drill'.receipts, NEW rule \in RuleCodes
      PROVE  rule \in FailedItems(r.items)
               <=> FindingId(r.id, rule, None) \in DOMAIN drill'.findings
  <2>1. CASE r \in drill.receipts
    <3>1. rule \in FailedItems(r.items)
            <=> FindingId(r.id, rule, None) \in DOMAIN drill.findings
      BY <2>1 DEF FindingsMatchReceipts
    <3>2. FindingId(r.id, rule, None) \notin DOMAIN opened
      BY <1>2, <1>3, <1>4, <2>1
    <3> QED
      BY <1>6, <3>1, <3>2
  <2>2. CASE r = R
    <3>1. FindingId(Fresh, rule, None) \notin DOMAIN drill.findings
      BY <1>2, <1>3
    <3> QED
      BY <1>1, <1>4, <1>6, <2>2, <3>1
  <2> QED
    BY <1>6, <2>1, <2>2
<1>8. ASSUME NEW f \in DOMAIN drill'.findings, f.rule # "REVIEW_RETURN"
      PROVE  \E r \in drill'.receipts :
                /\ r.id = f.opened /\ r.id = drill'.findings[f].receipt
                /\ r.checkpoint = drill'.findings[f].checkpoint
                /\ r.items[f.rule].severity = drill'.findings[f].severity
  <2>1. CASE f \in DOMAIN drill.findings
    BY <1>6, <1>8, <2>1 DEF FindingsMatchReceipts
  <2>2. CASE f \in DOMAIN opened
    <3>1. /\ drill'.findings[f].receipt = Fresh
          /\ drill'.findings[f].checkpoint = c
          /\ drill'.findings[f].severity = Severity(f.rule)
      BY <1>4, <1>6, <2>2 DEF NewFinding
    <3>2. R.items[f.rule].severity = Severity(f.rule) /\ f.opened = Fresh
      BY <1>1, <1>4, <1>5, <2>2
    <3> QED
      BY <1>1, <1>6, <3>1, <3>2
  <2> QED
    BY <1>6, <2>1, <2>2
<1> QED
  BY <1>7, <1>8 DEF FindingsMatchReceipts

\* Findings opened by a write have no plan and no retest: the plans' histories
\* and the retests of the others stay what they were.
LEMMA OpenedKeepPlans ==
    ASSUME NEW opened, PlanHistoryExplainsPlan, ClosedByEvidence,
           DOMAIN drill'.findings = DOMAIN drill.findings \cup DOMAIN opened,
           \A f \in DOMAIN drill.findings : drill'.findings[f] = drill.findings[f],
           \A f \in DOMAIN opened : /\ drill'.findings[f].status = "open"
                                    /\ drill'.findings[f].plans = << >>,
           drill.observations \subseteq drill'.observations,
           drill'.checkpoints = drill.checkpoints
    PROVE  PlanHistoryExplainsPlan' /\ ClosedByEvidence'
<1>1. PlanHistoryExplainsPlan'
  <2> SUFFICES ASSUME NEW f \in DOMAIN drill'.findings, Len(drill'.findings[f].plans) > 0
               PROVE  /\ f \in DOMAIN drill.findings
                      /\ drill'.findings[f] = drill.findings[f]
    BY DEF PlanHistoryExplainsPlan
  <2>1. Len(<< >>) = 0
    OBVIOUS
  <2> QED
    BY <2>1
<1>2. ClosedByEvidence'
  <2> SUFFICES ASSUME NEW f \in DOMAIN drill.findings,
                      drill.findings[f].status = "closed"
               PROVE  LET g == drill.findings[f] IN
                      /\ Blank \notin {g.cause, g.action, g.owner}
                      /\ \E o \in drill'.observations :
                            /\ o.id = g.retest /\ o.id > f.opened /\ o.kind = "retest"
                            /\ o.checkpoint = g.checkpoint
                            /\ f.rule # "REVIEW_RETURN" =>
                                 f.rule \notin
                                    Evaluate(drill.checkpoints[g.checkpoint], o.metrics)
    BY DEF ClosedByEvidence
  <2> QED
    BY DEF ClosedByEvidence
<1> QED
  BY <1>1, <1>2

\* An observation, its receipt and its findings are filed together.
LEMMA ObservationEvidence ==
    ASSUME EvidenceInv, NEW a \in Actors, NEW c \in DOMAIN drill.checkpoints,
           NEW at \in ObservedTimes, NEW m \in Readings, SubmitObservation(a, c, at, m)
    PROVE  FilesOK' /\ Evidence' /\ CertifiedOnEvidence'
<1> DEFINE opened == OpenedByRules(c, m)
<1>1. TypeOK /\ drill.revision \in Nat \ {0} /\ drill.snapshot = NoSnapshot
      /\ FilesOK /\ Evidence
  <2>1. drill.state = "in_progress"
    BY DEF SubmitObservation
  <2> QED
    BY <2>1 DEF EvidenceInv, Evidence, IInv, TypeOK, ReviewedFactsAreTheFacts
<1>2. /\ KeepsAllBut({"observations", "receipts", "findings", "state", "revision"})
      /\ NextCheckpoint(drill, c)
      /\ drill'.observations = drill.observations \cup {Observation("live", c, at, m)}
      /\ drill'.receipts = drill.receipts \cup {Receipt(c, m)}
      /\ drill'.findings = WithFindings(drill.findings, opened)
      /\ drill'.state = IF MustRemediate(drill') THEN "remediation" ELSE "in_progress"
  BY <1>1, ObservationStep
<1>3. /\ drill'.revision = drill.revision + 1
      /\ drill'.coordinator = drill.coordinator /\ drill'.checkpoints = drill.checkpoints
      /\ drill'.reviews = drill.reviews /\ drill'.snapshot = drill.snapshot
  BY <1>2 DEF KeepsAllBut, DrillFields
<1>4. \A f \in DOMAIN opened :
        /\ f.opened = Fresh
        /\ opened[f] = NewFinding(c, Severity(f.rule), Fresh, None, Blank)
  BY FindingNamed
<1>5. \A f \in DOMAIN drill.findings : f.opened # Fresh
  BY <1>1 DEF TypeOK, FindingOK, Fresh
<1>6. /\ DOMAIN drill'.findings = DOMAIN drill.findings \cup DOMAIN opened
      /\ \A f \in DOMAIN drill.findings : drill'.findings[f] = drill.findings[f]
      /\ \A f \in DOMAIN opened : drill'.findings[f] = opened[f]
  BY <1>2, <1>4, <1>5 DEF WithFindings
<1>7. \A f \in DOMAIN opened : drill'.findings[f].status = "open"
                               /\ drill'.findings[f].plans = << >>
  BY <1>4, <1>6 DEF NewFinding
<1> HIDE DEF opened
<1>8. FilesOK'
  <2>1. \A r \in drill'.receipts : DOMAIN r.items = RuleCodes
    BY <1>1, <1>2, NewReceipt DEF FilesOK
  <2>2. \A r, s \in drill'.receipts : r.id = s.id => r = s
    <3>1. Receipt(c, m).id = Fresh /\ \A r \in drill.receipts : r.id # Fresh
      BY <1>1, NewReceipt DEF TypeOK, Fresh
    <3> QED
      BY <1>1, <1>2, <3>1 DEF FilesOK
  <2>3. /\ drill'.reviews \in Seq({drill'.reviews[v] : v \in DOMAIN drill'.reviews})
        /\ \A v \in DOMAIN drill'.reviews :
              /\ drill'.reviews[v].reviewer # drill'.coordinator
              /\ \A i \in drill'.reviews[v].returned :
                    \E f \in DOMAIN drill'.findings : f.item = i
    BY <1>1, <1>3, <1>6 DEF FilesOK
  <2>4. \A f \in DOMAIN drill'.findings :
           drill'.findings[f].status # "open" =>
              Blank \notin {drill'.findings[f].cause, drill'.findings[f].action,
                            drill'.findings[f].owner}
    BY <1>1, <1>6, <1>7 DEF FilesOK
  <2>5. drill'.state \in {"remediation", "pending_review", "certified"} =>
           AllLiveObservationsSubmitted(drill')
    BY <1>2 DEF MustRemediate
  <2> QED
    BY <1>1, <1>3, <2>1, <2>2, <2>3, <2>4, <2>5 DEF FilesOK
<1>9. RecordedInOrder'
  BY <1>1, <1>2, RecordKeepsOrder DEF Evidence
<1>10. FindingsMatchReceipts'
  BY <1>1, <1>2, <1>6, RecordKeepsFindings DEF Evidence, opened
<1>11. PlanHistoryExplainsPlan' /\ ClosedByEvidence'
  BY <1>1, <1>2, <1>3, <1>6, <1>7, OpenedKeepPlans DEF Evidence
<1>12. CertifiedOnEvidence'
  BY <1>2 DEF CertifiedOnEvidence
<1> QED
  BY <1>8, <1>9, <1>10, <1>11, <1>12 DEF Evidence

\* What a plan leaves of a finding, and what it writes.
LEMMA PlanWritten ==
    ASSUME NEW old \in FindingType, NEW plan
    PROVE  LET g == WithPlan(old, plan) IN
           /\ g.cause = plan.cause /\ g.action = plan.action /\ g.owner = plan.owner
           /\ g.due = plan.due /\ g.status = "planned"
           /\ g.plans = Append(old.plans, plan)
           /\ g.checkpoint = old.checkpoint /\ g.severity = old.severity
           /\ g.receipt = old.receipt
  BY DEF FindingType, WithPlan

\* What PlanHistoryExplainsPlan asks of one finding.
Explained(g) ==
    LET n == Len(g.plans) IN
    n > 0 =>
       /\ [cause |-> g.cause, action |-> g.action, owner |-> g.owner,
           due |-> g.due, reason |-> g.plans[n].reason] = g.plans[n]
       /\ \A v \in 1..n : g.plans[v].cause = g.plans[1].cause
       /\ \A v \in 2..n : g.plans[v].reason # Blank

\* The history of each finding is judged by itself.
LEMMA ExplainedOneByOne ==
    PlanHistoryExplainsPlan <=> \A f \in DOMAIN drill.findings : Explained(drill.findings[f])
  BY DEF PlanHistoryExplainsPlan, Explained

\* The last plan is the finding's, states the first one's cause, and after the
\* first says why it was made.
LEMMA PlanExtendsHistory ==
    ASSUME NEW old \in FindingType, NEW plan \in PlanType, Explained(old),
           old.plans = << >> <=> old.status = "open", old.status # "closed",
           old.status = "planned" => plan.cause = old.cause /\ plan.reason # Blank
    PROVE  Explained(WithPlan(old, plan))
<1> DEFINE g == WithPlan(old, plan)
           k == Len(old.plans)
<1>1. plan = [cause |-> plan.cause, action |-> plan.action, owner |-> plan.owner,
              due |-> plan.due, reason |-> plan.reason]
  BY DEF PlanType
<1>2. /\ g.cause = plan.cause /\ g.action = plan.action /\ g.owner = plan.owner
      /\ g.due = plan.due /\ g.plans = Append(old.plans, plan)
  BY PlanWritten
<1>3. old.plans \in Seq(PlanType) /\ k \in Nat
  BY DEF FindingType
<1>4. k > 0 => old.status = "planned"
  BY <1>3 DEF FindingType
<1>5. k > 0 => /\ old.plans[k] = [cause |-> old.cause, action |-> old.action,
                                  owner |-> old.owner, due |-> old.due,
                                  reason |-> old.plans[k].reason]
               /\ \A v \in 1..k : old.plans[v].cause = old.plans[1].cause
               /\ \A v \in 2..k : old.plans[v].reason # Blank
  BY DEF Explained
<1>6. k > 0 => old.plans[k].cause = old.cause
  BY <1>5
<1>7. k > 0 => plan.cause = old.plans[1].cause /\ plan.reason # Blank
  BY <1>3, <1>4, <1>5, <1>6
<1> HIDE DEF g
<1>8. /\ Len(g.plans) = k + 1 /\ g.plans[k + 1] = plan
      /\ \A v \in 1..k : g.plans[v] = old.plans[v]
  BY <1>2, <1>3
<1> HIDE DEF k
<1>9. [cause |-> g.cause, action |-> g.action, owner |-> g.owner, due |-> g.due,
       reason |-> g.plans[k + 1].reason] = g.plans[k + 1]
  BY <1>1, <1>2, <1>8
<1>10. \A v \in 1..(k + 1) : g.plans[v].cause = g.plans[1].cause
  <2>1. CASE k = 0
    BY <1>8, <2>1
  <2>2. CASE k > 0
    <3>1. \A v \in 1..k : g.plans[v].cause = old.plans[1].cause
      BY <1>5, <1>8, <2>2
    <3> QED
      BY <1>3, <1>7, <1>8, <2>2, <3>1
  <2> QED
    BY <1>3, <2>1, <2>2
<1>11. \A v \in 2..(k + 1) : g.plans[v].reason # Blank
  <2> SUFFICES ASSUME NEW v \in 2..(k + 1) PROVE g.plans[v].reason # Blank
    OBVIOUS
  <2>1. k > 0
    BY <1>3
  <2>2. CASE v = k + 1
    BY <1>7, <1>8, <2>1, <2>2
  <2>3. CASE v \in 2..k
    BY <1>3, <1>5, <1>8, <2>1, <2>3
  <2> QED
    BY <1>3, <2>2, <2>3
<1> QED
  BY <1>8, <1>9, <1>10, <1>11 DEF g, Explained

\* Changing one finding keeps the plan histories when it keeps its own.
LEMMA ChangedKeepsPlans ==
    ASSUME PlanHistoryExplainsPlan, NEW f \in DOMAIN drill.findings,
           DOMAIN drill'.findings = DOMAIN drill.findings,
           \A h \in DOMAIN drill.findings : h # f => drill'.findings[h] = drill.findings[h],
           Explained(drill'.findings[f])
    PROVE  PlanHistoryExplainsPlan'
<1>1. \A h \in DOMAIN drill'.findings : Explained(drill'.findings[h])
  <2> SUFFICES ASSUME NEW h \in DOMAIN drill'.findings PROVE Explained(drill'.findings[h])
    OBVIOUS
  <2>1. CASE h = f
    BY <2>1
  <2>2. CASE h # f
    <3>1. Explained(drill.findings[h])
      BY ExplainedOneByOne
    <3>2. drill'.findings[h] = drill.findings[h]
      BY <2>2
    <3> QED
      BY <3>1, <3>2
  <2> QED
    BY <2>1, <2>2
<1>2. (\A h \in DOMAIN drill'.findings : Explained(drill'.findings[h]))
        => PlanHistoryExplainsPlan'
  BY DEF PlanHistoryExplainsPlan, Explained
<1> QED
  BY <1>1, <1>2

\* Changing one finding but for its rule's part keeps it linked to its receipt.
LEMMA ChangedKeepsReceipts ==
    ASSUME FindingsMatchReceipts, NEW f \in DOMAIN drill.findings,
           drill'.receipts = drill.receipts,
           DOMAIN drill'.findings = DOMAIN drill.findings,
           \A h \in DOMAIN drill.findings : h # f => drill'.findings[h] = drill.findings[h],
           drill'.findings[f].receipt = drill.findings[f].receipt,
           drill'.findings[f].checkpoint = drill.findings[f].checkpoint,
           drill'.findings[f].severity = drill.findings[f].severity
    PROVE  FindingsMatchReceipts'
<1>1. \A h \in DOMAIN drill.findings :
        /\ drill'.findings[h].receipt = drill.findings[h].receipt
        /\ drill'.findings[h].checkpoint = drill.findings[h].checkpoint
        /\ drill'.findings[h].severity = drill.findings[h].severity
  OBVIOUS
<1>2. \A r \in drill'.receipts, rule \in RuleCodes :
         rule \in FailedItems(r.items)
           <=> FindingId(r.id, rule, None) \in DOMAIN drill'.findings
  BY DEF FindingsMatchReceipts
<1>3. \A h \in DOMAIN drill'.findings : h.rule # "REVIEW_RETURN" =>
         \E r \in drill'.receipts :
            /\ r.id = h.opened /\ r.id = drill'.findings[h].receipt
            /\ r.checkpoint = drill'.findings[h].checkpoint
            /\ r.items[h.rule].severity = drill'.findings[h].severity
  BY <1>1 DEF FindingsMatchReceipts
<1> QED
  BY <1>2, <1>3 DEF FindingsMatchReceipts

\* Nor does it disturb the rest of the files, when its plan is complete.
LEMMA ChangedKeepsFiles ==
    ASSUME FilesOK, NEW f \in DOMAIN drill.findings,
           drill.state = "remediation", drill'.state = drill.state,
           drill.observations \subseteq drill'.observations,
           drill'.checkpoints = drill.checkpoints,
           drill'.receipts = drill.receipts, drill'.reviews = drill.reviews,
           drill'.coordinator = drill.coordinator, drill'.snapshot = NoSnapshot,
           DOMAIN drill'.findings = DOMAIN drill.findings,
           \A h \in DOMAIN drill.findings : h # f => drill'.findings[h] = drill.findings[h],
           Blank \notin {drill'.findings[f].cause, drill'.findings[f].action,
                         drill'.findings[f].owner}
    PROVE  FilesOK'
<1>1. \A h \in DOMAIN drill'.findings :
        drill'.findings[h].status # "open" =>
           Blank \notin {drill'.findings[h].cause, drill'.findings[h].action,
                         drill'.findings[h].owner}
  BY DEF FilesOK
<1>2. AllLiveObservationsSubmitted(drill')
  BY DEF FilesOK, AllLiveObservationsSubmitted, HasLive
<1> QED
  BY <1>1, <1>2 DEF FilesOK

\* A plan explains itself in the history of its finding.
LEMMA PlanEvidence ==
    ASSUME EvidenceInv, NEW a \in Actors, NEW f \in DOMAIN drill.findings,
           NEW due \in 0..MaxTime, NEW cause \in Texts \cup {Blank},
           NEW action \in Texts \cup {Blank}, NEW owner \in Texts \cup {Blank},
           NEW reason \in Texts \cup {Blank},
           PlanRemediation(a, f, cause, action, owner, due, reason)
    PROVE  FilesOK' /\ Evidence' /\ CertifiedOnEvidence'
<1> DEFINE old  == drill.findings[f]
           plan == [cause |-> KeptCause(old, cause), action |-> action,
                    owner |-> owner, due |-> due, reason |-> reason]
           g    == WithPlan(old, plan)
<1>1. TypeOK /\ FindingOK(f) /\ FilesOK /\ Evidence
  BY DEF EvidenceInv, IInv, TypeOK, Evidence
<1>2. /\ KeepsAllBut({"findings", "revision"})
      /\ drill.state = "remediation" /\ old.status # "closed"
      /\ action # Blank /\ owner # Blank
      /\ old.status = "planned" => reason # Blank
      /\ old.status # "planned" => cause # Blank
      /\ drill'.findings = [drill.findings EXCEPT ![f] = g]
  BY <1>1, PlanStep
<1>3. /\ old \in FindingType /\ (old.plans = << >> <=> old.status = "open")
      /\ old.status # "open" => old.cause # Blank
  BY <1>1 DEF FindingOK, FilesOK
<1>4. /\ g.cause = KeptCause(old, cause) /\ g.action = action /\ g.owner = owner
      /\ g.status = "planned"
      /\ g.checkpoint = old.checkpoint /\ g.severity = old.severity
      /\ g.receipt = old.receipt
  BY <1>3, PlanWritten
<1>5. Blank \notin {g.cause, g.action, g.owner}
  BY <1>2, <1>3, <1>4 DEF KeptCause
<1>6. Explained(g)
  <2>1. KeptCause(old, cause) \in Texts \cup {Blank}
    BY <1>3 DEF FindingType, KeptCause
  <2>2. action \in Texts /\ owner \in Texts /\ due \in Nat
    BY <1>2, TimesAssumption
  <2>3. plan \in PlanType
    BY <2>1, <2>2 DEF PlanType
  <2>4. old.status = "planned" => plan.cause = old.cause /\ plan.reason # Blank
    BY <1>2 DEF KeptCause
  <2>5. Explained(old)
    BY <1>1, ExplainedOneByOne DEF Evidence
  <2> QED
    BY <1>2, <1>3, <2>3, <2>4, <2>5, PlanExtendsHistory
<1> HIDE DEF g, plan, old
<1>7. /\ drill'.state = drill.state /\ drill'.checkpoints = drill.checkpoints
      /\ drill'.observations = drill.observations /\ drill'.receipts = drill.receipts
      /\ drill'.reviews = drill.reviews /\ drill'.coordinator = drill.coordinator
      /\ drill'.snapshot = drill.snapshot
  BY <1>2 DEF KeepsAllBut, DrillFields
<1>8. /\ DOMAIN drill'.findings = DOMAIN drill.findings
      /\ \A h \in DOMAIN drill.findings : h # f => drill'.findings[h] = drill.findings[h]
      /\ drill'.findings[f] = g
  BY <1>2
<1>9. drill.snapshot = NoSnapshot
  BY <1>2 DEF EvidenceInv, IInv, ReviewedFactsAreTheFacts
<1>10. FilesOK'
  BY <1>1, <1>2, <1>5, <1>7, <1>8, <1>9, ChangedKeepsFiles
<1>11. RecordedInOrder'
  BY <1>1, <1>7 DEF Evidence, RecordedInOrder
<1>12. FindingsMatchReceipts'
  BY <1>1, <1>4, <1>7, <1>8, ChangedKeepsReceipts DEF Evidence, old
<1>13. PlanHistoryExplainsPlan'
  BY <1>1, <1>6, <1>8, ChangedKeepsPlans DEF Evidence
<1>14. ClosedByEvidence'
  BY <1>1, <1>4, <1>7, <1>8 DEF Evidence, ClosedByEvidence
<1>15. CertifiedOnEvidence'
  BY <1>2, <1>7 DEF CertifiedOnEvidence
<1> QED
  BY <1>10, <1>11, <1>12, <1>13, <1>14, <1>15 DEF Evidence

\* A retest closes its finding with what it shows.
LEMMA RetestEvidence ==
    ASSUME EvidenceInv, NEW a \in Actors, NEW f \in DOMAIN drill.findings,
           NEW at \in ObservedTimes, NEW m \in Readings, SubmitRetest(a, f, at, m)
    PROVE  FilesOK' /\ Evidence' /\ CertifiedOnEvidence'
<1> DEFINE old == drill.findings[f]
           c   == old.checkpoint
           o   == Observation("retest", c, at, m)
           g   == Close(old)
<1>1. TypeOK /\ FindingOK(f) /\ FilesOK /\ Evidence /\ drill.revision \in Nat
  BY DEF EvidenceInv, IInv, TypeOK, Evidence
<1>2. /\ KeepsAllBut({"observations", "findings", "revision"})
      /\ drill.state = "remediation" /\ old.status = "planned"
      /\ f.rule # "REVIEW_RETURN" => f.rule \notin Evaluate(drill.checkpoints[c], m)
      /\ drill'.observations = drill.observations \cup {o}
      /\ drill'.findings = [drill.findings EXCEPT ![f] = g]
  BY <1>1, RetestStep
<1>3. old \in FindingType /\ f.opened \in 1..drill.revision
      /\ Blank \notin {old.cause, old.action, old.owner}
  BY <1>1, <1>2 DEF FindingOK, FilesOK
<1>4. /\ g.status = "closed" /\ g.retest = Fresh /\ g.checkpoint = c
      /\ g.plans = old.plans /\ g.cause = old.cause /\ g.action = old.action
      /\ g.owner = old.owner /\ g.due = old.due /\ g.severity = old.severity
      /\ g.receipt = old.receipt
  BY <1>3 DEF Close, FindingType
<1>5. o.id = Fresh /\ o.kind = "retest" /\ o.checkpoint = c /\ o.metrics = m
  BY DEF Observation
<1>6. Fresh > f.opened
  BY <1>1, <1>3 DEF Fresh
<1> HIDE DEF o, g, c
<1>7. /\ drill'.state = drill.state /\ drill'.checkpoints = drill.checkpoints
      /\ drill'.receipts = drill.receipts
      /\ drill'.reviews = drill.reviews /\ drill'.coordinator = drill.coordinator
      /\ drill'.snapshot = drill.snapshot
  BY <1>2 DEF KeepsAllBut, DrillFields
<1>8. /\ DOMAIN drill'.findings = DOMAIN drill.findings
      /\ \A h \in DOMAIN drill.findings : h # f => drill'.findings[h] = drill.findings[h]
      /\ drill'.findings[f] = g
  BY <1>2
<1>9. drill.snapshot = NoSnapshot
  BY <1>2 DEF EvidenceInv, IInv, ReviewedFactsAreTheFacts
<1>10. FilesOK'
  BY <1>1, <1>2, <1>3, <1>4, <1>7, <1>8, <1>9, ChangedKeepsFiles
<1>11. RecordedInOrder'
  <2>1. {x \in drill'.observations : x.kind = "live"}
          = {x \in drill.observations : x.kind = "live"}
    BY <1>2, <1>5
  <2> QED
    BY <1>1, <1>7, <2>1 DEF Evidence, RecordedInOrder
<1>12. FindingsMatchReceipts'
  BY <1>1, <1>4, <1>7, <1>8, ChangedKeepsReceipts DEF Evidence, c
<1>13. PlanHistoryExplainsPlan'
  <2>1. Explained(old)
    BY <1>1, ExplainedOneByOne DEF Evidence
  <2>2. Explained(g)
    BY <1>4, <2>1 DEF Explained
  <2> QED
    BY <1>1, <1>8, <2>2, ChangedKeepsPlans DEF Evidence
<1>14. ClosedByEvidence'
  <2> SUFFICES ASSUME NEW h \in DOMAIN drill.findings, drill'.findings[h].status = "closed"
               PROVE  LET k == drill'.findings[h] IN
                      /\ Blank \notin {k.cause, k.action, k.owner}
                      /\ \E x \in drill'.observations :
                            /\ x.id = k.retest /\ x.id > h.opened /\ x.kind = "retest"
                            /\ x.checkpoint = k.checkpoint
                            /\ h.rule # "REVIEW_RETURN" =>
                                 h.rule \notin
                                    Evaluate(drill'.checkpoints[k.checkpoint], x.metrics)
    BY <1>8 DEF ClosedByEvidence
  <2>1. CASE h = f
    BY <1>2, <1>3, <1>4, <1>5, <1>6, <1>7, <1>8, <2>1
  <2>2. CASE h # f
    BY <1>1, <1>2, <1>7, <1>8, <2>2 DEF Evidence, ClosedByEvidence
  <2> QED
    BY <2>1, <2>2
<1>15. CertifiedOnEvidence'
  BY <1>2, <1>7 DEF CertifiedOnEvidence
<1> QED
  BY <1>10, <1>11, <1>12, <1>13, <1>14, <1>15 DEF Evidence

\* Appending to a sequence over its own elements.
LEMMA AppendOwn ==
    ASSUME NEW s, s \in Seq({s[v] : v \in DOMAIN s}), NEW e
    PROVE  LET t == Append(s, e) IN
           /\ t \in Seq({t[v] : v \in DOMAIN t})
           /\ \A v \in DOMAIN s : v \in DOMAIN t /\ t[v] = s[v]
           /\ \A v \in DOMAIN t : t[v] = e \/ (v \in DOMAIN s /\ t[v] = s[v])
<1> DEFINE S == {s[v] : v \in DOMAIN s}
           T == S \cup {e}
           t == Append(s, e)
<1>1. s \in Seq(T) /\ e \in T /\ Len(s) \in Nat /\ DOMAIN s = 1..Len(s)
  <2>1. /\ Len(s) \in Nat /\ DOMAIN s = 1..Len(s)
        /\ \A i \in DOMAIN s : s[i] \in T
    OBVIOUS
  <2> QED
    BY <2>1, SeqOver
<1> HIDE DEF T, S
<1>2. /\ t \in Seq(T) /\ Len(t) = Len(s) + 1 /\ DOMAIN t = 1..(Len(s) + 1)
      /\ t[Len(s) + 1] = e /\ \A v \in 1..Len(s) : t[v] = s[v]
  BY <1>1
<1> HIDE DEF t
<1>3. t \in Seq({t[v] : v \in DOMAIN t})
  <2>1. \A i \in DOMAIN t : t[i] \in {t[v] : v \in DOMAIN t}
    OBVIOUS
  <2> QED
    BY <1>2, <2>1, SeqOver
<1>4. /\ \A v \in DOMAIN s : v \in DOMAIN t /\ t[v] = s[v]
      /\ \A v \in DOMAIN t : t[v] = e \/ (v \in DOMAIN s /\ t[v] = s[v])
  BY <1>1, <1>2
<1> QED
  BY <1>3, <1>4 DEF t

\* A decision is filed after the earlier ones.
LEMMA ReviewFiled ==
    ASSUME FilesOK, NEW record, drill'.reviews = Append(drill.reviews, record)
    PROVE  /\ drill'.reviews \in Seq({drill'.reviews[v] : v \in DOMAIN drill'.reviews})
           /\ \A v \in DOMAIN drill.reviews :
                 v \in DOMAIN drill'.reviews /\ drill'.reviews[v] = drill.reviews[v]
           /\ \A v \in DOMAIN drill'.reviews :
                 \/ drill'.reviews[v] = record
                 \/ v \in DOMAIN drill.reviews /\ drill'.reviews[v] = drill.reviews[v]
<1> DEFINE s == drill.reviews
           t == drill'.reviews
<1>1. s \in Seq({s[v] : v \in DOMAIN s}) /\ t = Append(s, record)
  BY DEF FilesOK
<1> HIDE DEF s, t
<1>2. /\ t \in Seq({t[v] : v \in DOMAIN t})
      /\ \A v \in DOMAIN s : v \in DOMAIN t /\ t[v] = s[v]
      /\ \A v \in DOMAIN t : t[v] = record \/ (v \in DOMAIN s /\ t[v] = s[v])
  BY <1>1, AppendOwn
<1> QED
  BY <1>2 DEF s, t

\* A returned review opens a finding for each item it returns.
LEMMA ReturnEvidence ==
    ASSUME EvidenceInv, NEW a \in Actors, NEW reason, NEW quoted, NEW returned \in Returnable,
           NEW opinions, DOMAIN opinions = returned, ReturnReview(a, reason, quoted, opinions)
    PROVE  FilesOK' /\ Evidence' /\ CertifiedOnEvidence'
<1> DEFINE opened == OpenedByReview(opinions)
           record == ReviewRecord("returned", a, returned)
<1>1. TypeOK /\ FilesOK /\ Evidence /\ drill.revision \in Nat
  BY DEF EvidenceInv, IInv, TypeOK, Evidence
<1>2. /\ KeepsAllBut({"state", "snapshot", "findings", "reviews", "revision"})
      /\ drill.state = "pending_review" /\ drill'.state = "remediation"
      /\ a # drill.coordinator
      /\ drill'.snapshot = NoSnapshot
      /\ drill'.findings = WithFindings(drill.findings, opened)
      /\ drill'.reviews = Append(drill.reviews, record)
  BY <1>1, ReturnStep
<1>3. /\ drill'.coordinator = drill.coordinator /\ drill'.checkpoints = drill.checkpoints
      /\ drill'.observations = drill.observations /\ drill'.receipts = drill.receipts
  BY <1>2 DEF KeepsAllBut, DrillFields
<1>4. record.reviewer = a /\ record.returned = returned
  BY DEF ReviewRecord
<1>5. \A i \in returned : /\ FindingId(Fresh, "REVIEW_RETURN", i) \in DOMAIN opened
                          /\ FindingId(Fresh, "REVIEW_RETURN", i).item = i
  BY DEF OpenedByReview, FindingId
<1>6. \A f \in DOMAIN opened :
        /\ f.opened = Fresh /\ f.rule = "REVIEW_RETURN"
        /\ opened[f].status = "open" /\ opened[f].plans = << >>
  BY DEF OpenedByReview, FindingId, NewFinding
<1>7. \A f \in DOMAIN drill.findings : f.opened # Fresh
  BY <1>1 DEF TypeOK, FindingOK, Fresh
<1>8. /\ DOMAIN drill'.findings = DOMAIN drill.findings \cup DOMAIN opened
      /\ \A f \in DOMAIN drill.findings : drill'.findings[f] = drill.findings[f]
      /\ \A f \in DOMAIN opened : drill'.findings[f] = opened[f]
  BY <1>2, <1>6, <1>7 DEF WithFindings
<1>9. /\ drill'.reviews \in Seq({drill'.reviews[v] : v \in DOMAIN drill'.reviews})
      /\ \A v \in DOMAIN drill'.reviews :
            \/ drill'.reviews[v] = record
            \/ v \in DOMAIN drill.reviews /\ drill'.reviews[v] = drill.reviews[v]
  BY <1>1, <1>2, ReviewFiled
<1> HIDE DEF opened, record
<1>10. FilesOK'
  <2>1. \A v \in DOMAIN drill'.reviews :
           /\ drill'.reviews[v].reviewer # drill'.coordinator
           /\ \A i \in drill'.reviews[v].returned :
                 \E f \in DOMAIN drill'.findings : f.item = i
    <3> SUFFICES ASSUME NEW v \in DOMAIN drill'.reviews
                 PROVE  /\ drill'.reviews[v].reviewer # drill'.coordinator
                        /\ \A i \in drill'.reviews[v].returned :
                              \E f \in DOMAIN drill'.findings : f.item = i
      OBVIOUS
    <3>1. CASE drill'.reviews[v] = record
      BY <1>2, <1>3, <1>4, <1>5, <1>8, <3>1
    <3>2. CASE v \in DOMAIN drill.reviews /\ drill'.reviews[v] = drill.reviews[v]
      BY <1>1, <1>3, <1>8, <3>2 DEF FilesOK
    <3> QED
      BY <1>9, <3>1, <3>2
  <2>2. \A f \in DOMAIN drill'.findings :
           drill'.findings[f].status # "open" =>
              Blank \notin {drill'.findings[f].cause, drill'.findings[f].action,
                            drill'.findings[f].owner}
    BY <1>1, <1>6, <1>8 DEF FilesOK
  <2>3. AllLiveObservationsSubmitted(drill')
    BY <1>1, <1>2, <1>3 DEF FilesOK, AllLiveObservationsSubmitted, HasLive
  <2> QED
    BY <1>1, <1>2, <1>3, <1>9, <2>1, <2>2, <2>3 DEF FilesOK
<1>11. RecordedInOrder'
  BY <1>1, <1>3 DEF Evidence, RecordedInOrder
<1>12. FindingsMatchReceipts'
  <2>1. \A r \in drill'.receipts, rule \in RuleCodes :
           rule \in FailedItems(r.items)
             <=> FindingId(r.id, rule, None) \in DOMAIN drill'.findings
    <3>1. \A r, rule : FindingId(r, rule, None).rule = rule
      BY DEF FindingId
    <3>2. \A r, rule : rule \in RuleCodes => FindingId(r, rule, None) \notin DOMAIN opened
      BY <1>6, <3>1 DEF RuleCodes
    <3> QED
      BY <1>1, <1>3, <1>8, <3>2 DEF Evidence, FindingsMatchReceipts
  <2>2. \A f \in DOMAIN drill'.findings : f.rule # "REVIEW_RETURN" =>
           f \in DOMAIN drill.findings /\ drill'.findings[f] = drill.findings[f]
    BY <1>6, <1>8
  <2> QED
    BY <1>1, <1>3, <2>1, <2>2 DEF Evidence, FindingsMatchReceipts
<1>13. PlanHistoryExplainsPlan' /\ ClosedByEvidence'
  BY <1>1, <1>3, <1>6, <1>8, OpenedKeepPlans DEF Evidence
<1>14. CertifiedOnEvidence'
  BY <1>2 DEF CertifiedOnEvidence
<1> QED
  BY <1>10, <1>11, <1>12, <1>13, <1>14 DEF Evidence

\* With nothing open, each rule a receipt shows failed was passed later.
LEMMA FailuresWereRetested ==
    ASSUME IInv, FilesOK, Evidence, OpenFindings(drill) = {},
           NEW r \in drill.receipts, NEW rule \in FailedItems(r.items)
    PROVE  \E o \in drill.observations :
              /\ o.kind = "retest" /\ o.id > r.id /\ o.checkpoint = r.checkpoint
              /\ rule \notin Evaluate(drill.checkpoints[r.checkpoint], o.metrics)
<1> DEFINE f == FindingId(r.id, rule, None)
           g == drill.findings[f]
<1>1. rule \in RuleCodes
  BY DEF FailedItems, FilesOK
<1>2. f \in DOMAIN drill.findings
  BY <1>1 DEF Evidence, FindingsMatchReceipts
<1>3. f.opened = r.id /\ f.rule = rule /\ rule # "REVIEW_RETURN"
  BY <1>1 DEF FindingId, RuleCodes
<1>4. g.checkpoint = r.checkpoint
  <2>1. PICK s \in drill.receipts : s.id = f.opened /\ s.checkpoint = g.checkpoint
    BY <1>2, <1>3 DEF Evidence, FindingsMatchReceipts
  <2> QED
    BY <1>3, <2>1 DEF FilesOK
<1>5. g.status = "closed"
  BY <1>2 DEF OpenFindings
<1> HIDE DEF f
<1>6. PICK o \in drill.observations :
        /\ o.id > f.opened /\ o.kind = "retest" /\ o.checkpoint = g.checkpoint
        /\ f.rule # "REVIEW_RETURN" =>
             f.rule \notin Evaluate(drill.checkpoints[g.checkpoint], o.metrics)
  BY <1>2, <1>5 DEF Evidence, ClosedByEvidence
<1> QED
  BY <1>3, <1>4, <1>6

\* An approved review certifies on what the files hold.
LEMMA ApproveEvidence ==
    ASSUME EvidenceInv, NEW a \in Actors, NEW reason, NEW quoted, ApproveReview(a, reason, quoted)
    PROVE  FilesOK' /\ Evidence' /\ CertifiedOnEvidence'
<1> DEFINE record == ReviewRecord("approved", a, {})
<1>1. TypeOK /\ IInv /\ FilesOK /\ Evidence /\ drill.revision \in Nat
  BY DEF EvidenceInv, IInv, TypeOK, Evidence
<1>2. /\ KeepsAllBut({"state", "dossier", "reviews", "revision"})
      /\ drill.state = "pending_review" /\ drill.snapshot # NoSnapshot
      /\ drill'.state = "certified"
      /\ a # drill.coordinator
      /\ drill'.dossier = [snapshot |-> drill.snapshot.revision, reviewer |-> a,
                           head |-> drill.revision,
                           passed |-> Cardinality(drill.snapshot.checklist)]
      /\ drill'.reviews = Append(drill.reviews, record)
  BY <1>1, ApproveStep
<1>3. /\ drill'.coordinator = drill.coordinator /\ drill'.checkpoints = drill.checkpoints
      /\ drill'.observations = drill.observations /\ drill'.receipts = drill.receipts
      /\ drill'.findings = drill.findings /\ drill'.snapshot = drill.snapshot
      /\ drill'.revision = drill.revision + 1
  BY <1>2 DEF KeepsAllBut, DrillFields
<1>4. record.reviewer = a /\ record.returned = {}
  BY DEF ReviewRecord
<1>5. /\ drill'.reviews \in Seq({drill'.reviews[v] : v \in DOMAIN drill'.reviews})
      /\ \A v \in DOMAIN drill'.reviews :
            \/ drill'.reviews[v] = record
            \/ v \in DOMAIN drill.reviews /\ drill'.reviews[v] = drill.reviews[v]
  BY <1>1, <1>2, ReviewFiled
<1> HIDE DEF record
<1>6. AllLiveObservationsSubmitted(drill')
  BY <1>1, <1>2, <1>3 DEF FilesOK, AllLiveObservationsSubmitted, HasLive
<1>7. OpenFindings(drill) = {} /\ drill.snapshot.revision \in 1..drill.revision
  BY <1>1, <1>2 DEF IInv, ReviewedFactsAreTheFacts, FilesOK
<1>8. \A v \in DOMAIN drill'.reviews :
        /\ drill'.reviews[v].reviewer # drill'.coordinator
        /\ \A i \in drill'.reviews[v].returned : \E f \in DOMAIN drill'.findings : f.item = i
  BY <1>1, <1>2, <1>3, <1>4, <1>5 DEF FilesOK
<1>9. FilesOK'
  BY <1>1, <1>3, <1>5, <1>6, <1>7, <1>8 DEF FilesOK
<1>10. Evidence'
  BY <1>1, <1>3, EvidenceKept
<1>11. CertifiedOnEvidence'
  <2>1. \A r \in drill'.receipts : \A rule \in FailedItems(r.items) :
           \E o \in drill'.observations :
              /\ o.kind = "retest" /\ o.id > r.id /\ o.checkpoint = r.checkpoint
              /\ rule \notin Evaluate(drill'.checkpoints[r.checkpoint], o.metrics)
    BY <1>1, <1>3, <1>7, FailuresWereRetested
  <2>2. \A v \in DOMAIN drill'.reviews : \A i \in drill'.reviews[v].returned :
           \E f \in DOMAIN drill'.findings :
              f.item = i /\ drill'.findings[f].status = "closed"
    BY <1>3, <1>7, <1>8 DEF OpenFindings
  <2>3. /\ drill'.dossier.snapshot = drill'.snapshot.revision
        /\ drill'.dossier.passed = Cardinality(drill'.snapshot.checklist)
        /\ drill'.dossier.head = drill'.revision - 1
        /\ drill'.snapshot.revision <= drill'.dossier.head
    BY <1>1, <1>2, <1>3, <1>7
  <2> QED
    BY <1>6, <1>8, <2>1, <2>2, <2>3 DEF CertifiedOnEvidence
<1> QED
  BY <1>9, <1>10, <1>11

\* The clock is no part of the evidence.
LEMMA SameDrillEvidence ==
    ASSUME EvidenceInv, drill' = drill
    PROVE  FilesOK' /\ Evidence' /\ CertifiedOnEvidence'
<1>1. FilesOK'
  BY DEF EvidenceInv, FilesOK
<1>2. Evidence'
  BY EvidenceKept DEF EvidenceInv, Evidence
<1>3. CertifiedOnEvidence'
  BY DEF EvidenceInv, CertifiedOnEvidence
<1> QED
  BY <1>1, <1>2, <1>3

\* Every step keeps the evidence.
LEMMA NextEvidence == EvidenceInv /\ [Next]_vars => EvidenceInv'
<1> SUFFICES ASSUME EvidenceInv, [Next]_vars PROVE EvidenceInv'
  OBVIOUS
<1>0. FilesOK' /\ Evidence' /\ CertifiedOnEvidence' => EvidenceInv'
  BY NextInv DEF EvidenceInv, Evidence
<1>1. ASSUME NEW a \in Actors, Freeze(a) \/ Start(a) PROVE EvidenceInv'
  BY <1>0, <1>1, BeforeRecords
<1>2. ASSUME NEW a \in Actors, SubmitReview(a) PROVE EvidenceInv'
  BY <1>0, <1>2, SubmitReviewEvidence
<1>3. ASSUME NEW a \in Actors, NEW e \in Submissions, RegisterActivation(a, e) PROVE EvidenceInv'
  BY <1>0, <1>3, BeforeRecords
<1>4. ASSUME NEW a \in Actors, NEW c \in DOMAIN drill.checkpoints, NEW at \in ObservedTimes,
             NEW m \in Readings, SubmitObservation(a, c, at, m)
      PROVE  EvidenceInv'
  BY <1>0, <1>4, ObservationEvidence
<1>5. ASSUME NEW a \in Actors, NEW f \in DOMAIN drill.findings, NEW due \in 0..MaxTime,
             NEW cause \in Texts \cup {Blank}, NEW action \in Texts \cup {Blank},
             NEW owner \in Texts \cup {Blank}, NEW reason \in Texts \cup {Blank},
             PlanRemediation(a, f, cause, action, owner, due, reason)
      PROVE  EvidenceInv'
  BY <1>0, <1>5, PlanEvidence
<1>6. ASSUME NEW a \in Actors, NEW f \in DOMAIN drill.findings, NEW at \in ObservedTimes,
             NEW m \in Readings, SubmitRetest(a, f, at, m)
      PROVE  EvidenceInv'
  BY <1>0, <1>6, RetestEvidence
<1>7. ASSUME NEW a \in Actors, NEW reason \in Texts \cup {Blank},
             NEW quoted \in {None} \cup 1..MaxRevision, ApproveReview(a, reason, quoted)
      PROVE  EvidenceInv'
  BY <1>0, <1>7, ApproveEvidence
<1>8. ASSUME NEW a \in Actors, NEW reason \in Texts \cup {Blank},
             NEW quoted \in {None} \cup 1..MaxRevision, NEW returned \in Returnable,
             NEW opinions \in [returned -> Texts \cup {Blank}],
             ReturnReview(a, reason, quoted, opinions)
      PROVE  EvidenceInv'
  BY <1>0, <1>8, ReturnEvidence
<1>9. CASE Tick
  BY <1>0, <1>9, SameDrillEvidence DEF Tick
<1>10. CASE UNCHANGED vars
  <2>1. drill' = drill
    BY <1>10 DEF vars
  <2> QED
    BY <1>0, <2>1, SameDrillEvidence
<1> QED
  BY <1>1, <1>2, <1>3, <1>4, <1>5, <1>6, <1>7, <1>8, <1>9, <1>10 DEF Next

\* The evidence is in order in every reachable state.
LEMMA EvidenceInvariant == Spec => []EvidenceInv
  BY InitEvidence, NextEvidence, PTL DEF Spec

-----------------------------------------------------------------------------

\* SubmitObservation keeps the frozen order: each checkpoint is recorded once,
\* after all before it, with the one receipt of that record.
THEOREM RecordsAreInOrder == Spec => []RecordedInOrder
<1>1. EvidenceInv => RecordedInOrder
  BY DEF EvidenceInv
<1> QED
  BY <1>1, EvidenceInvariant, PTL

\* The findings Evaluate opened are the failures BuildJudgmentReceipt shows,
\* whatever is planned, retested or returned afterwards.
THEOREM FindingsAreReceipts == Spec => []FindingsMatchReceipts
<1>1. EvidenceInv => FindingsMatchReceipts
  BY DEF EvidenceInv
<1> QED
  BY <1>1, EvidenceInvariant, PTL

\* The versions PlanRemediation kept explain the plan the finding shows.
THEOREM PlansAreExplained == Spec => []PlanHistoryExplainsPlan
<1>1. EvidenceInv => PlanHistoryExplainsPlan
  BY DEF EvidenceInv
<1> QED
  BY <1>1, EvidenceInvariant, PTL

\* No finding is closed without a complete plan and a later retest of its
\* checkpoint that passes its rule.
THEOREM ClosingHasEvidence == Spec => []ClosedByEvidence
<1>1. EvidenceInv => ClosedByEvidence
  BY DEF EvidenceInv
<1> QED
  BY <1>1, EvidenceInvariant, PTL

\* A certificate has its whole chain of evidence: all records, a later passed
\* retest for each failed rule, each returned item closed, an independent
\* reviewer throughout, and the dossier of the reviewed snapshot.
THEOREM CertificateHasEvidence == Spec => []CertifiedOnEvidence
<1>1. EvidenceInv => CertifiedOnEvidence
  BY DEF EvidenceInv
<1> QED
  BY <1>1, EvidenceInvariant, PTL

-----------------------------------------------------------------------------

\* A plan appends its version to the history of a finding that is not closed.
LEMMA PlanKeepsVersions ==
    ASSUME TypeOK, NEW f \in DOMAIN drill.findings, NEW plan \in PlanType
    PROVE  LET g == WithPlan(drill.findings[f], plan) IN
           \A p \in DOMAIN drill.findings[f].plans :
              p \in DOMAIN g.plans /\ g.plans[p] = drill.findings[f].plans[p]
<1> DEFINE old == drill.findings[f]
           g   == WithPlan(old, plan)
<1>1. old \in FindingType /\ old.plans \in Seq(PlanType)
  BY DEF TypeOK, FindingOK, FindingType
<1>2. g.plans = Append(old.plans, plan)
  BY <1>1, PlanWritten
<1> HIDE DEF old, g
<1>3. \A p \in DOMAIN old.plans : p \in DOMAIN g.plans /\ g.plans[p] = old.plans[p]
  BY <1>1, <1>2
<1> QED
  BY <1>3 DEF old, g

\* Use cases that write neither facts nor reviews keep what is on file.
LEMMA UnwrittenIsKept ==
    ASSUME KeepsAllBut({"state", "baselineVersion", "activation", "snapshot", "revision"}),
           drill.state \notin {"draft", "baseline_frozen"} =>
              /\ drill'.baselineVersion = drill.baselineVersion
              /\ drill'.activation = drill.activation
    PROVE  KeepsFiled
<1>1. /\ drill'.observations = drill.observations /\ drill'.receipts = drill.receipts
      /\ drill'.findings = drill.findings /\ drill'.reviews = drill.reviews
  BY DEF KeepsAllBut, DrillFields
<1> QED
  BY <1>1 DEF KeepsFiled

\* Use cases that only add records, findings and decisions keep the earlier ones.
LEMMA AddedIsKept ==
    ASSUME drill.observations \subseteq drill'.observations,
           drill.receipts \subseteq drill'.receipts,
           \A f \in DOMAIN drill.findings :
              f \in DOMAIN drill'.findings /\ drill'.findings[f] = drill.findings[f],
           \A v \in DOMAIN drill.reviews :
              v \in DOMAIN drill'.reviews /\ drill'.reviews[v] = drill.reviews[v],
           drill'.baselineVersion = drill.baselineVersion,
           drill'.activation = drill.activation
    PROVE  KeepsFiled
  BY DEF KeepsFiled

\* Use cases that change one finding keep it when it was not closed.
LEMMA ChangedIsKept ==
    ASSUME NEW f \in DOMAIN drill.findings, NEW g, drill.findings[f].status # "closed",
           drill'.findings = [drill.findings EXCEPT ![f] = g],
           \A p \in DOMAIN drill.findings[f].plans :
              p \in DOMAIN g.plans /\ g.plans[p] = drill.findings[f].plans[p],
           drill.observations \subseteq drill'.observations,
           drill'.receipts = drill.receipts, drill'.reviews = drill.reviews,
           drill'.baselineVersion = drill.baselineVersion,
           drill'.activation = drill.activation
    PROVE  KeepsFiled
<1>1. /\ DOMAIN drill'.findings = DOMAIN drill.findings
      /\ drill'.findings[f] = g
      /\ \A h \in DOMAIN drill.findings : h # f => drill'.findings[h] = drill.findings[h]
  OBVIOUS
<1> QED
  BY <1>1 DEF KeepsFiled

\* What each use case keeps on file.
LEMMA StepKeepsFiled == EvidenceInv /\ Next => KeepsFiled \/ drill' = drill
<1> SUFFICES ASSUME EvidenceInv, Next PROVE KeepsFiled \/ drill' = drill
  OBVIOUS
<1>0. TypeOK /\ FilesOK
  BY DEF EvidenceInv, IInv
<1>1. ASSUME NEW a \in Actors, Freeze(a) PROVE KeepsFiled
  <2>1. /\ KeepsAllBut({"state", "baselineVersion", "activation", "snapshot", "revision"})
        /\ drill.state = "draft"
    BY <1>0, <1>1, FreezeStep DEF KeepsAllBut
  <2> QED
    BY <2>1, UnwrittenIsKept
<1>2. ASSUME NEW a \in Actors, Start(a) PROVE KeepsFiled
  <2>1. /\ KeepsAllBut({"state", "baselineVersion", "activation", "snapshot", "revision"})
        /\ drill.state = "baseline_frozen"
    BY <1>0, <1>2, StartStep DEF KeepsAllBut
  <2> QED
    BY <2>1, UnwrittenIsKept
<1>3. ASSUME NEW a \in Actors, NEW e \in Submissions, RegisterActivation(a, e)
      PROVE  KeepsFiled
  <2>1. /\ KeepsAllBut({"state", "baselineVersion", "activation", "snapshot", "revision"})
        /\ drill.state = "baseline_frozen"
    BY <1>0, <1>3, RegisterStep DEF KeepsAllBut
  <2> QED
    BY <2>1, UnwrittenIsKept
<1>4. ASSUME NEW a \in Actors, SubmitReview(a) PROVE KeepsFiled
  <2>1. KeepsAllBut({"state", "snapshot", "revision"})
    BY <1>0, <1>4, SubmitReviewStep
  <2>2. /\ KeepsAllBut({"state", "baselineVersion", "activation", "snapshot", "revision"})
        /\ drill'.baselineVersion = drill.baselineVersion
        /\ drill'.activation = drill.activation
    BY <2>1 DEF KeepsAllBut, DrillFields
  <2> QED
    BY <2>2, UnwrittenIsKept
<1>5. ASSUME NEW a \in Actors, NEW c \in DOMAIN drill.checkpoints, NEW at \in ObservedTimes,
             NEW m \in Readings, SubmitObservation(a, c, at, m)
      PROVE  KeepsFiled
  <2>1. /\ KeepsAllBut({"observations", "receipts", "findings", "state", "revision"})
        /\ drill.observations \subseteq drill'.observations
        /\ drill.receipts \subseteq drill'.receipts
        /\ drill'.findings = WithFindings(drill.findings, OpenedByRules(c, m))
    BY <1>0, <1>5, ObservationStep
  <2>2. /\ drill'.reviews = drill.reviews /\ drill'.activation = drill.activation
        /\ drill'.baselineVersion = drill.baselineVersion
    BY <2>1 DEF KeepsAllBut, DrillFields
  <2>3. \A f \in DOMAIN drill.findings :
           f \in DOMAIN drill'.findings /\ drill'.findings[f] = drill.findings[f]
    BY <2>1 DEF WithFindings
  <2> QED
    BY <2>1, <2>2, <2>3, AddedIsKept
<1>6. ASSUME NEW a \in Actors, NEW f \in DOMAIN drill.findings, NEW due \in 0..MaxTime,
             NEW cause \in Texts \cup {Blank}, NEW action \in Texts \cup {Blank},
             NEW owner \in Texts \cup {Blank}, NEW reason \in Texts \cup {Blank},
             PlanRemediation(a, f, cause, action, owner, due, reason)
      PROVE  KeepsFiled
  <2> DEFINE old  == drill.findings[f]
             plan == [cause |-> KeptCause(old, cause), action |-> action,
                      owner |-> owner, due |-> due, reason |-> reason]
             g    == WithPlan(old, plan)
  <2>1. /\ KeepsAllBut({"findings", "revision"})
        /\ old.status # "closed" /\ action # Blank /\ owner # Blank
        /\ drill'.findings = [drill.findings EXCEPT ![f] = g]
    BY <1>0, <1>6, PlanStep
  <2>2. plan \in PlanType
    <3>1. KeptCause(old, cause) \in Texts \cup {Blank}
      BY <1>0 DEF TypeOK, FindingOK, FindingType, KeptCause
    <3>2. action \in Texts /\ owner \in Texts /\ due \in Nat
      BY <2>1, TimesAssumption
    <3> QED
      BY <3>1, <3>2 DEF PlanType
  <2> HIDE DEF plan
  <2>3. \A p \in DOMAIN old.plans : p \in DOMAIN g.plans /\ g.plans[p] = old.plans[p]
    BY <1>0, <2>2, PlanKeepsVersions
  <2> HIDE DEF g
  <2>4. /\ drill'.reviews = drill.reviews /\ drill'.activation = drill.activation
        /\ drill'.baselineVersion = drill.baselineVersion
        /\ drill'.observations = drill.observations /\ drill'.receipts = drill.receipts
    BY <2>1 DEF KeepsAllBut, DrillFields
  <2> QED
    BY <2>1, <2>3, <2>4, ChangedIsKept
<1>7. ASSUME NEW a \in Actors, NEW f \in DOMAIN drill.findings, NEW at \in ObservedTimes,
             NEW m \in Readings, SubmitRetest(a, f, at, m)
      PROVE  KeepsFiled
  <2> DEFINE g == Close(drill.findings[f])
  <2>1. /\ KeepsAllBut({"observations", "findings", "revision"})
        /\ drill.findings[f].status = "planned"
        /\ drill.observations \subseteq drill'.observations
        /\ drill'.findings = [drill.findings EXCEPT ![f] = g]
    BY <1>0, <1>7, RetestStep
  <2>2. g.plans = drill.findings[f].plans
    BY <1>0, ClosedFinding DEF TypeOK, FindingOK
  <2> HIDE DEF g
  <2>3. /\ drill'.reviews = drill.reviews /\ drill'.activation = drill.activation
        /\ drill'.baselineVersion = drill.baselineVersion
        /\ drill'.receipts = drill.receipts
    BY <2>1 DEF KeepsAllBut, DrillFields
  <2> QED
    BY <2>1, <2>2, <2>3, ChangedIsKept
<1>8. ASSUME NEW a \in Actors, NEW reason, NEW quoted, ApproveReview(a, reason, quoted)
      PROVE  KeepsFiled
  <2>1. /\ KeepsAllBut({"state", "dossier", "reviews", "revision"})
        /\ drill'.reviews = Append(drill.reviews, ReviewRecord("approved", a, {}))
    BY <1>0, <1>8, ApproveStep
  <2>2. /\ drill'.findings = drill.findings /\ drill'.activation = drill.activation
        /\ drill'.baselineVersion = drill.baselineVersion
        /\ drill'.observations = drill.observations /\ drill'.receipts = drill.receipts
    BY <2>1 DEF KeepsAllBut, DrillFields
  <2>3. \A v \in DOMAIN drill.reviews :
           v \in DOMAIN drill'.reviews /\ drill'.reviews[v] = drill.reviews[v]
    BY <1>0, <2>1, ReviewFiled
  <2> QED
    BY <2>2, <2>3, AddedIsKept
<1>9. ASSUME NEW a \in Actors, NEW reason, NEW quoted, NEW returned \in Returnable,
             NEW opinions \in [returned -> Texts \cup {Blank}],
             ReturnReview(a, reason, quoted, opinions)
      PROVE  KeepsFiled
  <2>1. /\ KeepsAllBut({"state", "snapshot", "findings", "reviews", "revision"})
        /\ drill'.findings = WithFindings(drill.findings, OpenedByReview(opinions))
        /\ drill'.reviews = Append(drill.reviews, ReviewRecord("returned", a, returned))
    BY <1>0, <1>9, ReturnStep
  <2>2. /\ drill'.activation = drill.activation
        /\ drill'.baselineVersion = drill.baselineVersion
        /\ drill'.observations = drill.observations /\ drill'.receipts = drill.receipts
    BY <2>1 DEF KeepsAllBut, DrillFields
  <2>3. \A v \in DOMAIN drill.reviews :
           v \in DOMAIN drill'.reviews /\ drill'.reviews[v] = drill.reviews[v]
    BY <1>0, <2>1, ReviewFiled
  <2>4. \A f \in DOMAIN drill.findings :
           f \in DOMAIN drill'.findings /\ drill'.findings[f] = drill.findings[f]
    BY <2>1 DEF WithFindings
  <2> QED
    BY <2>2, <2>3, <2>4, AddedIsKept
<1>10. Tick => drill' = drill
  BY DEF Tick
<1> QED
  BY <1>1, <1>2, <1>3, <1>4, <1>5, <1>6, <1>7, <1>8, <1>9, <1>10 DEF Next

\* No use case rewrites records, receipts, plan versions, closed findings or
\* decisions, nor the baseline and evidence of a drill that has started.
THEOREM HistoryIsKept == Spec => NothingIsRewritten
<1>1. EvidenceInv /\ [Next]_vars => [KeepsFiled]_drill
  BY StepKeepsFiled DEF vars
<1> QED
  BY <1>1, EvidenceInvariant, PTL DEF Spec, NothingIsRewritten

-----------------------------------------------------------------------------

\* A finding without a plan at the planned end keeps that state: no plan is
\* accepted any more, and a retest closes only a planned finding.
LEMMA UnplannedForGood == IInv /\ PastPlanning /\ [Next]_vars => PastPlanning'
<1> SUFFICES ASSUME IInv, PastPlanning, [Next]_vars PROVE PastPlanning'
  OBVIOUS
<1>0. TypeOK /\ drill.end \in Nat /\ now \in Nat
  BY TimesAssumption DEF IInv, TypeOK
<1>1. PICK f \in DOMAIN drill.findings : drill.findings[f].status = "open"
  BY DEF PastPlanning
<1>2. now >= drill.end
  BY DEF PastPlanning
<1> DEFINE Stays == /\ now' >= now /\ drill'.end = drill.end
                    /\ f \in DOMAIN drill'.findings
                    /\ drill'.findings[f].status = "open"
<1>3. ASSUME NEW a \in Actors,
             Freeze(a) \/ Start(a) \/ (\E e \in Submissions : RegisterActivation(a, e))
      PROVE  Stays
  <2>1. KeepsAllBut({"state", "baselineVersion", "activation", "revision"})
    BY <1>0, <1>3, FreezeStep, StartStep, RegisterStep DEF KeepsAllBut
  <2> QED
    BY <1>0, <1>1, <2>1 DEF KeepsAllBut, DrillFields
<1>4. ASSUME NEW a \in Actors, SubmitReview(a) PROVE Stays
  BY <1>0, <1>1, <1>4, SubmitReviewStep DEF KeepsAllBut, DrillFields
<1>5. ASSUME NEW a \in Actors, NEW c \in DOMAIN drill.checkpoints, NEW at \in ObservedTimes,
             NEW m \in Readings, SubmitObservation(a, c, at, m)
      PROVE  Stays
  <2>1. /\ KeepsAllBut({"observations", "receipts", "findings", "state", "revision"})
        /\ drill'.findings = WithFindings(drill.findings, OpenedByRules(c, m))
    BY <1>0, <1>5, ObservationStep
  <2> QED
    BY <1>0, <1>1, <2>1 DEF KeepsAllBut, DrillFields, WithFindings
<1>6. ASSUME NEW a \in Actors, NEW h \in DOMAIN drill.findings, NEW due \in 0..MaxTime,
             NEW cause, NEW action, NEW owner, NEW reason,
             PlanRemediation(a, h, cause, action, owner, due, reason)
      PROVE  Stays
  <2>1. now < due /\ due <= drill.end
    BY <1>0, <1>6, PlanStep
  <2> QED
    BY <1>0, <1>2, <2>1, TimesAssumption
<1>7. ASSUME NEW a \in Actors, NEW h \in DOMAIN drill.findings, NEW at \in ObservedTimes,
             NEW m \in Readings, SubmitRetest(a, h, at, m)
      PROVE  Stays
  <2> DEFINE g == Close(drill.findings[h])
  <2>1. /\ KeepsAllBut({"observations", "findings", "revision"})
        /\ drill.findings[h].status = "planned"
        /\ drill'.findings = [drill.findings EXCEPT ![h] = g]
    BY <1>0, <1>7, RetestStep
  <2> HIDE DEF g
  <2>2. f # h
    BY <1>1, <2>1
  <2> QED
    BY <1>0, <1>1, <2>1, <2>2 DEF KeepsAllBut, DrillFields
<1>8. ASSUME NEW a \in Actors, NEW reason, NEW quoted, ApproveReview(a, reason, quoted)
      PROVE  Stays
  <2>1. KeepsAllBut({"state", "dossier", "reviews", "revision"})
    BY <1>0, <1>8, ApproveStep
  <2> QED
    BY <1>0, <1>1, <2>1 DEF KeepsAllBut, DrillFields
<1>9. ASSUME NEW a \in Actors, NEW reason, NEW quoted, NEW returned \in Returnable,
             NEW opinions \in [returned -> Texts \cup {Blank}],
             ReturnReview(a, reason, quoted, opinions)
      PROVE  Stays
  <2>1. /\ KeepsAllBut({"state", "snapshot", "findings", "reviews", "revision"})
        /\ drill'.findings = WithFindings(drill.findings, OpenedByReview(opinions))
    BY <1>0, <1>9, ReturnStep
  <2> QED
    BY <1>0, <1>1, <2>1 DEF KeepsAllBut, DrillFields, WithFindings
<1>10. Tick => Stays
  BY <1>0, <1>1 DEF Tick
<1>11. UNCHANGED vars => Stays
  BY <1>0, <1>1 DEF vars
<1>12. now' \in Nat
  BY NextInv, TimesAssumption DEF IInv, TypeOK
<1>13. Stays => PastPlanning'
  BY <1>0, <1>2, <1>12 DEF PastPlanning
<1> HIDE DEF Stays
<1> QED
  BY <1>3, <1>4, <1>5, <1>6, <1>7, <1>8, <1>9, <1>10, <1>11, <1>13 DEF Next

\* A drill with a finding unplanned at the planned end is never reviewed or
\* certified again.
THEOREM LateFindingIsFinal == Spec => PastPlanningIsForGood
<1>1. IInv /\ PastPlanning => drill.state \notin {"pending_review", "certified"}
  BY DEF IInv, ReviewedFactsAreTheFacts, PastPlanning, OpenFindings
<1> QED
  BY <1>1, Invariant, UnplannedForGood, PTL DEF Spec, PastPlanningIsForGood

-----------------------------------------------------------------------------
(* The list of todos.                                                      *)

\* Create sets the coordinator, the window and the checkpoints for good.
LEMMA DraftStays ==
    TypeOK /\ [Next]_vars =>
       /\ drill'.checkpoints = drill.checkpoints
       /\ drill'.start = drill.start /\ drill'.end = drill.end
<1> SUFFICES ASSUME TypeOK, [Next]_vars
             PROVE  /\ drill'.checkpoints = drill.checkpoints
                    /\ drill'.start = drill.start /\ drill'.end = drill.end
  OBVIOUS
<1> DEFINE written == {"state", "baselineVersion", "activation", "observations", "receipts",
                       "findings", "snapshot", "reviews", "dossier", "revision"}
           same == /\ drill'.checkpoints = drill.checkpoints
                   /\ drill'.start = drill.start /\ drill'.end = drill.end
<1>1. KeepsAllBut(written) => same
  BY DEF KeepsAllBut, DrillFields
<1>2. ASSUME NEW a \in Actors,
             \/ Freeze(a) \/ Start(a) \/ SubmitReview(a)
             \/ \E e \in Submissions : RegisterActivation(a, e)
      PROVE  KeepsAllBut(written)
  BY <1>2, FreezeStep, StartStep, SubmitReviewStep, RegisterStep DEF KeepsAllBut
<1>3. ASSUME NEW a \in Actors, NEW c \in DOMAIN drill.checkpoints, NEW at \in ObservedTimes,
             NEW m \in Readings, SubmitObservation(a, c, at, m)
      PROVE  KeepsAllBut(written)
  BY <1>3, ObservationStep DEF KeepsAllBut
<1>4. ASSUME NEW a \in Actors, NEW f \in DOMAIN drill.findings, NEW due, NEW cause,
             NEW action, NEW owner, NEW reason,
             PlanRemediation(a, f, cause, action, owner, due, reason)
      PROVE  KeepsAllBut(written)
  BY <1>4, PlanStep DEF KeepsAllBut
<1>5. ASSUME NEW a \in Actors, NEW f \in DOMAIN drill.findings, NEW at \in ObservedTimes,
             NEW m \in Readings, SubmitRetest(a, f, at, m)
      PROVE  KeepsAllBut(written)
  BY <1>5, RetestStep DEF KeepsAllBut
<1>6. ASSUME NEW a \in Actors, NEW reason, NEW quoted, ApproveReview(a, reason, quoted)
      PROVE  KeepsAllBut(written)
  BY <1>6, ApproveStep DEF KeepsAllBut
<1>7. ASSUME NEW a \in Actors, NEW reason, NEW quoted, NEW returned \in Returnable,
             NEW opinions \in [returned -> Texts \cup {Blank}],
             ReturnReview(a, reason, quoted, opinions)
      PROVE  KeepsAllBut(written)
  BY <1>7, ReturnStep DEF KeepsAllBut
<1>8. Tick \/ UNCHANGED vars => same
  BY DEF Tick, vars
<1> HIDE DEF written, same
<1>9. same
  BY <1>1, <1>2, <1>3, <1>4, <1>5, <1>6, <1>7, <1>8 DEF Next
<1> QED
  BY <1>9 DEF same

\* A draft has checkpoints.
HasCheckpoints == drill.checkpoints # << >>

LEMMA CheckpointsInvariant == Spec => []HasCheckpoints
<1>1. Init => HasCheckpoints
  BY DEF Init, CreatedFrom, ValidDraft, HasCheckpoints
<1>2. IInv /\ HasCheckpoints /\ [Next]_vars => HasCheckpoints'
  BY DraftStays DEF IInv, HasCheckpoints
<1> QED
  BY <1>1, <1>2, Invariant, PTL DEF Spec

\* While a record is missing, one of a checkpoint is the next.
LEMMA SomeCheckpointIsNext ==
    ASSUME TypeOK, HasCheckpoints, ~AllLiveObservationsSubmitted(drill)
    PROVE  \E c \in DOMAIN drill.checkpoints : NextCheckpoint(drill, c)
<1> DEFINE missing == {c \in DOMAIN drill.checkpoints : ~HasLive(drill, c)}
           R == OpToRel(<, Nat)
<1>1. missing \subseteq Nat /\ missing # {}
  BY DEF TypeOK, HasCheckpoints, AllLiveObservationsSubmitted
<1>2. IsWellFoundedOn(R, Nat)
  BY NatLessThanWellFounded
<1>3. \A b, c \in Nat : b < c => <<b, c>> \in R
  BY DEF OpToRel
<1> HIDE DEF R
<1>4. PICK c \in missing : \A b \in missing : <<b, c>> \notin R
  BY <1>1, <1>2, WFMin
<1>5. \A b \in 1..(c - 1) : HasLive(drill, b)
  <2> SUFFICES ASSUME NEW b \in 1..(c - 1) PROVE HasLive(drill, b)
    OBVIOUS
  <2>1. c \in Nat /\ b \in Nat /\ b < c /\ b \in DOMAIN drill.checkpoints
    BY <1>1, <1>4 DEF TypeOK
  <2>2. b \notin missing
    BY <1>3, <1>4, <2>1
  <2> QED
    BY <2>1, <2>2
<1> QED
  BY <1>4, <1>5 DEF NextCheckpoint

\* Which todos there are in each state.
LEMMA TodosOfState ==
    /\ Offers("freeze") <=> drill.state = "draft"
    /\ Offers("activation") <=> drill.state = "baseline_frozen" /\ ~AllActivationValid
    /\ Offers("start") <=> drill.state = "baseline_frozen" /\ AllActivationValid
    /\ Offers("submit_review") <=> ReadyForReview
    /\ Offers("review") <=> drill.state = "pending_review"
    /\ Offers("observation") <=> /\ drill.state = "in_progress"
                                 /\ \E c \in DOMAIN drill.checkpoints : NextCheckpoint(drill, c)
    /\ Offers("remediation") <=> \E f \in DOMAIN drill.findings : drill.findings[f].status = "open"
    /\ Offers("retest") <=> \E f \in DOMAIN drill.findings : drill.findings[f].status = "planned"
    /\ \A t \in Todos : Offers(t.kind) /\
          t.kind \in {"freeze", "activation", "start", "submit_review", "review",
                      "observation", "remediation", "retest"}
    /\ \A k \in {"freeze", "activation", "start", "submit_review"} :
          Offers(k) <=> Todo(k, None) \in Todos
<1> DEFINE Kind(k) ==
             \/ k = "freeze" /\ drill.state = "draft"
             \/ k = "activation" /\ drill.state = "baseline_frozen" /\ ~AllActivationValid
             \/ k = "start" /\ drill.state = "baseline_frozen" /\ AllActivationValid
             \/ k = "submit_review" /\ ReadyForReview
             \/ k = "review" /\ drill.state = "pending_review"
           simple == {k \in {"freeze", "activation", "start", "submit_review", "review"} : Kind(k)}
           next == {c \in DOMAIN drill.checkpoints :
                       drill.state = "in_progress" /\ NextCheckpoint(drill, c)}
           open == {f \in DOMAIN drill.findings : drill.findings[f].status = "open"}
           planned == {f \in DOMAIN drill.findings : drill.findings[f].status = "planned"}
<1>1. Todos = {Todo(kind, None) : kind \in simple} \cup {Todo("observation", c) : c \in next}
              \cup {Todo("remediation", f) : f \in open} \cup {Todo("retest", f) : f \in planned}
  BY DEF Todos
<1>2. \A k, r : Todo(k, r).kind = k /\ Todo(k, r).resource = r
  BY DEF Todo
<1>3. \A t \in Todos : \/ \E k \in simple : t = Todo(k, None)
                       \/ \E c \in next : t = Todo("observation", c)
                       \/ \E f \in open : t = Todo("remediation", f)
                       \/ \E f \in planned : t = Todo("retest", f)
  BY <1>1
<1>4. /\ \A k \in simple : Todo(k, None) \in Todos
      /\ \A c \in next : Todo("observation", c) \in Todos
      /\ \A f \in open : Todo("remediation", f) \in Todos
      /\ \A f \in planned : Todo("retest", f) \in Todos
  BY <1>1
<1>5. simple \subseteq {"freeze", "activation", "start", "submit_review", "review"}
  OBVIOUS
<1> HIDE DEF simple, next, open, planned
<1>6. \A k \in {"freeze", "activation", "start", "submit_review", "review"} :
         /\ Offers(k) <=> k \in simple
         /\ Offers(k) <=> Todo(k, None) \in Todos
  BY <1>2, <1>3, <1>4, <1>5 DEF Offers
<1>7. /\ Offers("observation") <=> next # {}
      /\ Offers("remediation") <=> open # {}
      /\ Offers("retest") <=> planned # {}
  BY <1>2, <1>3, <1>4, <1>5 DEF Offers
<1>8. \A t \in Todos : t.kind \in {"freeze", "activation", "start", "submit_review", "review",
                                   "observation", "remediation", "retest"}
  BY <1>2, <1>3, <1>5
<1>9. \A k \in {"freeze", "activation", "start", "submit_review", "review"} :
         k \in simple <=> Kind(k)
  BY DEF simple
<1>10. /\ next # {} <=> /\ drill.state = "in_progress"
                        /\ \E c \in DOMAIN drill.checkpoints : NextCheckpoint(drill, c)
       /\ open # {} <=> \E f \in DOMAIN drill.findings : drill.findings[f].status = "open"
       /\ planned # {} <=> \E f \in DOMAIN drill.findings : drill.findings[f].status = "planned"
  BY DEF next, open, planned
<1>11. \A t \in Todos : Offers(t.kind)
  BY DEF Offers
<1> QED
  BY <1>6, <1>7, <1>8, <1>9, <1>10, <1>11

\* Nobody opens a drill that is not certified without finding a todo, and the
\* button of the workbench names one of them.
THEOREM SomethingToDo == Spec => []NeverWithoutTodo
<1>1. EvidenceInv /\ HasCheckpoints => NeverWithoutTodo
  <2> SUFFICES ASSUME EvidenceInv, HasCheckpoints PROVE NeverWithoutTodo
    OBVIOUS
  <2>1. TypeOK /\ FilesOK /\ ActiveCanGoOn /\ ReviewedFactsAreTheFacts
    BY DEF EvidenceInv, IInv
  <2>2. drill.state \in {"draft", "baseline_frozen", "in_progress", "remediation",
                         "pending_review", "certified"}
    BY <2>1 DEF TypeOK, States, Transitions
  <2>3. \A f \in DOMAIN drill.findings : drill.findings[f].status \in {"open", "planned", "closed"}
    BY <2>1 DEF TypeOK, FindingOK, FindingType
  <2>4. drill.state # "certified" => Todos # {}
    <3>1. CASE drill.state = "in_progress"
      <4>1. CASE AllLiveObservationsSubmitted(drill)
        BY <2>1, <3>1, <4>1, TodosOfState DEF ActiveCanGoOn, ReadyForReview, Offers
      <4>2. CASE ~AllLiveObservationsSubmitted(drill)
        BY <2>1, <3>1, <4>2, SomeCheckpointIsNext, TodosOfState DEF Offers
      <4> QED
        BY <4>1, <4>2
    <3>2. CASE drill.state = "remediation"
      <4>1. AllLiveObservationsSubmitted(drill)
        BY <2>1, <3>2 DEF FilesOK
      <4> QED
        BY <2>3, <3>2, <4>1, TodosOfState DEF ReadyForReview, OpenFindings, Offers
    <3> QED
      BY <2>2, <3>1, <3>2, TodosOfState DEF Offers
  <2>5. drill.state = "certified" => Todos = {}
    <3> SUFFICES ASSUME drill.state = "certified", NEW t \in Todos PROVE FALSE
      OBVIOUS
    <3>1. \A f \in DOMAIN drill.findings : drill.findings[f].status = "closed"
      BY <2>1 DEF ReviewedFactsAreTheFacts, OpenFindings
    <3> QED
      BY <3>1, TodosOfState DEF ReadyForReview
  <2>6. AllActivationValid <=> \A c \in Categories : ActivationStatuses[c] = "valid"
    BY DEF AllActivationValid
  <2>7. /\ drill.state = "draft" => PrimaryAction = "freeze"
        /\ drill.state = "baseline_frozen" /\ ~AllActivationValid => PrimaryAction = "activation"
        /\ drill.state = "baseline_frozen" /\ AllActivationValid => PrimaryAction = "start"
        /\ drill.state \in {"in_progress", "remediation"} /\ Offers("submit_review")
              => PrimaryAction = "submit_review"
        /\ drill.state \in {"in_progress", "remediation"} /\ ~Offers("submit_review")
              => PrimaryAction = None
        /\ drill.state \in {"pending_review", "certified"} => PrimaryAction = None
    BY <2>6 DEF PrimaryAction
  <2>8. PrimaryAction # None => Todo(PrimaryAction, None) \in Todos
    BY <2>2, <2>7, TodosOfState
  <2>9. PrimaryAction = None =>
           ~\E k \in {"freeze", "activation", "start", "submit_review"} : Offers(k)
    BY <2>2, <2>7, TodosOfState, ButtonsAssumption DEF ReadyForReview
  <2> QED
    BY <2>4, <2>5, <2>8, <2>9 DEF NeverWithoutTodo
<1> QED
  BY <1>1, EvidenceInvariant, CheckpointsInvariant, PTL

-----------------------------------------------------------------------------
(* What is offered and what is accepted.                                   *)

\* What the workflow asks of the drill and of the clock, apart from what comes
\* with the request: the actor, a time in the window, a reading, texts.
Possible(kind, resource) ==
    \/ kind = "freeze" /\ ValidDraft(drill) /\ CanMove("baseline_frozen")
    \/ /\ kind = "start" /\ drill.activation # None
       /\ ValidActivation(drill.activation, drill.start) /\ NotExpired(drill.activation)
       /\ CanMove("in_progress")
    \/ /\ kind = "submit_review" /\ drill.state \in {"in_progress", "remediation"}
       /\ AllLiveObservationsSubmitted(drill) /\ ~HasOpenCriticalFinding(drill)
       /\ OpenFindings(drill) = {} /\ CanMove("pending_review")
    \/ kind = "review" /\ drill.state = "pending_review" /\ drill.snapshot # NoSnapshot
    \/ kind = "observation" /\ drill.state = "in_progress" /\ NextCheckpoint(drill, resource)
    \/ /\ kind = "retest" /\ drill.state = "remediation"
       /\ drill.findings[resource].status = "planned"
       /\ resource.rule # "REVIEW_RETURN" =>
             drill.findings[resource].checkpoint \in DOMAIN drill.checkpoints

\* The list of todos is the work there is.
OfferedIffPossible == \A t \in Kinds : t \in Todos <=> Possible(t.kind, t.resource)

\* A registered set of evidence satisfies ValidActivation, a drill satisfies
\* ValidateDraft, and plans are written after the exercise.
GuardsHeld ==
    /\ ValidDraft(drill)
    /\ drill.activation # None => ValidActivation(drill.activation, drill.start)
    /\ drill.state \in {"draft", "baseline_frozen", "in_progress"} =>
          \A f \in DOMAIN drill.findings : drill.findings[f].status = "open"

\* ValidateDraft reads what stays.
LEMMA DraftStaysValid ==
    ASSUME ValidDraft(drill), drill'.checkpoints = drill.checkpoints,
           drill'.start = drill.start, drill'.end = drill.end
    PROVE  ValidDraft(drill')
  BY DEF ValidDraft

\* Evidence changes by registration, findings are planned in remediation.
LEMMA NextGuards == IInv /\ GuardsHeld /\ [Next]_vars => GuardsHeld'
<1> SUFFICES ASSUME IInv, GuardsHeld, [Next]_vars PROVE GuardsHeld'
  OBVIOUS
<1> DEFINE Planless(d) == \A f \in DOMAIN d.findings : d.findings[f].status = "open"
           Early(d) == d.state \in {"draft", "baseline_frozen", "in_progress"}
           goal == /\ drill'.activation = drill.activation \/ ValidActivation(drill'.activation, drill.start)
                   /\ Early(drill') => Planless(drill')
<1>0. TypeOK /\ (Early(drill) => Planless(drill))
  BY DEF IInv, GuardsHeld
<1>1. /\ drill'.start = drill.start /\ ValidDraft(drill')
  BY <1>0, DraftStays, DraftStaysValid DEF GuardsHeld
<1>2. goal => GuardsHeld'
  BY <1>1 DEF GuardsHeld
<1>3. ASSUME NEW a \in Actors, Freeze(a) \/ Start(a) PROVE goal
  <2>1. /\ KeepsAllBut({"state", "baselineVersion", "revision"})
        /\ Early(drill)
    BY <1>0, <1>3, FreezeStep, StartStep DEF KeepsAllBut
  <2>2. drill'.activation = drill.activation /\ drill'.findings = drill.findings
    BY <2>1 DEF KeepsAllBut, DrillFields
  <2> QED
    BY <1>0, <2>1, <2>2
<1>4. ASSUME NEW a \in Actors, NEW e \in Submissions, RegisterActivation(a, e) PROVE goal
  <2>1. /\ KeepsAllBut({"activation", "revision"}) /\ drill.state = "baseline_frozen"
        /\ drill'.activation = e /\ ValidActivation(e, drill.start)
    BY <1>0, <1>4, RegisterStep DEF RegisterActivation
  <2>2. drill'.findings = drill.findings
    BY <2>1 DEF KeepsAllBut, DrillFields
  <2> QED
    BY <1>0, <2>1, <2>2
<1>5. ASSUME NEW a \in Actors, NEW c \in DOMAIN drill.checkpoints, NEW at \in ObservedTimes,
             NEW m \in Readings, SubmitObservation(a, c, at, m)
      PROVE  goal
  <2> DEFINE opened == OpenedByRules(c, m)
  <2>1. /\ KeepsAllBut({"observations", "receipts", "findings", "state", "revision"})
        /\ drill.state = "in_progress"
        /\ drill'.findings = WithFindings(drill.findings, opened)
    BY <1>0, <1>5, ObservationStep
  <2>2. drill'.activation = drill.activation
    BY <2>1 DEF KeepsAllBut, DrillFields
  <2>3. \A f \in DOMAIN opened : opened[f].status = "open"
    BY DEF OpenedByRules, NewFinding
  <2> HIDE DEF opened
  <2>4. Planless(drill')
    BY <1>0, <2>1, <2>3 DEF WithFindings
  <2> QED
    BY <2>2, <2>4
<1>6. ASSUME NEW a \in Actors, NEW f \in DOMAIN drill.findings, NEW due, NEW cause,
             NEW action, NEW owner, NEW reason,
             PlanRemediation(a, f, cause, action, owner, due, reason)
      PROVE  goal
  <2>1. KeepsAllBut({"findings", "revision"}) /\ drill.state = "remediation"
    BY <1>0, <1>6, PlanStep
  <2>2. drill'.activation = drill.activation /\ drill'.state = "remediation"
    BY <2>1 DEF KeepsAllBut, DrillFields
  <2> QED
    BY <2>2
<1>7. ASSUME NEW a \in Actors, NEW f \in DOMAIN drill.findings, NEW at \in ObservedTimes,
             NEW m \in Readings, SubmitRetest(a, f, at, m)
      PROVE  goal
  <2>1. KeepsAllBut({"observations", "findings", "revision"}) /\ drill.state = "remediation"
    BY <1>0, <1>7, RetestStep
  <2>2. drill'.activation = drill.activation /\ drill'.state = "remediation"
    BY <2>1 DEF KeepsAllBut, DrillFields
  <2> QED
    BY <2>2
<1>8. ASSUME NEW a \in Actors,
             \/ SubmitReview(a)
             \/ \E reason, quoted : ApproveReview(a, reason, quoted)
      PROVE  goal
  <2>1. /\ KeepsAllBut({"state", "snapshot", "dossier", "reviews", "revision"})
        /\ drill'.state \in {"pending_review", "certified"}
    BY <1>0, <1>8, SubmitReviewStep, ApproveStep DEF KeepsAllBut
  <2>2. drill'.activation = drill.activation
    BY <2>1 DEF KeepsAllBut, DrillFields
  <2> QED
    BY <2>1, <2>2
<1>9. ASSUME NEW a \in Actors, NEW reason, NEW quoted, NEW returned \in Returnable,
             NEW opinions \in [returned -> Texts \cup {Blank}],
             ReturnReview(a, reason, quoted, opinions)
      PROVE  goal
  <2>1. /\ KeepsAllBut({"state", "snapshot", "findings", "reviews", "revision"})
        /\ drill'.state = "remediation"
    BY <1>0, <1>9, ReturnStep
  <2>2. drill'.activation = drill.activation
    BY <2>1 DEF KeepsAllBut, DrillFields
  <2> QED
    BY <2>1, <2>2
<1>10. Tick \/ UNCHANGED vars => goal
  <2>1. Tick \/ UNCHANGED vars => drill' = drill
    BY DEF Tick, vars
  <2> QED
    BY <1>0, <2>1
<1> HIDE DEF goal
<1> QED
  BY <1>2, <1>3, <1>4, <1>5, <1>6, <1>7, <1>8, <1>9, <1>10 DEF Next

\* The guards hold in every reachable state.
LEMMA GuardsInvariant == Spec => []GuardsHeld
<1>1. Init => GuardsHeld
  <2> SUFFICES ASSUME Init PROVE GuardsHeld
    OBVIOUS
  <2>1. PICK draft \in Drafts : ValidDraft(draft) /\ drill = CreatedFrom(draft)
    BY DEF Init
  <2>2. /\ drill.checkpoints = draft.checkpoints /\ drill.start = draft.start
        /\ drill.end = draft.end /\ drill.activation = None /\ DOMAIN drill.findings = {}
    BY <2>1 DEF CreatedFrom
  <2>3. ValidDraft(drill)
    BY <2>1, <2>2 DEF ValidDraft
  <2> QED
    BY <2>2, <2>3 DEF GuardsHeld
<1> QED
  BY <1>1, NextGuards, Invariant, PTL DEF Spec

\* Which todos are on the list.
LEMMA TodoListed ==
    /\ Todo("freeze", None) \in Todos <=> drill.state = "draft"
    /\ Todo("start", None) \in Todos <=> drill.state = "baseline_frozen" /\ AllActivationValid
    /\ Todo("submit_review", None) \in Todos <=> ReadyForReview
    /\ Todo("review", None) \in Todos <=> drill.state = "pending_review"
    /\ \A c \in DOMAIN drill.checkpoints :
          Todo("observation", c) \in Todos
             <=> drill.state = "in_progress" /\ NextCheckpoint(drill, c)
    /\ \A f \in DOMAIN drill.findings :
          Todo("retest", f) \in Todos <=> drill.findings[f].status = "planned"
<1> DEFINE next == {c \in DOMAIN drill.checkpoints :
                       drill.state = "in_progress" /\ NextCheckpoint(drill, c)}
           open == {f \in DOMAIN drill.findings : drill.findings[f].status = "open"}
           planned == {f \in DOMAIN drill.findings : drill.findings[f].status = "planned"}
           simple == {k \in {"freeze", "activation", "start", "submit_review", "review"} :
                        \/ k = "freeze" /\ drill.state = "draft"
                        \/ k = "activation" /\ drill.state = "baseline_frozen" /\ ~AllActivationValid
                        \/ k = "start" /\ drill.state = "baseline_frozen" /\ AllActivationValid
                        \/ k = "submit_review" /\ ReadyForReview
                        \/ k = "review" /\ drill.state = "pending_review"}
<1>1. Todos = {Todo(kind, None) : kind \in simple} \cup {Todo("observation", c) : c \in next}
              \cup {Todo("remediation", f) : f \in open} \cup {Todo("retest", f) : f \in planned}
  BY DEF Todos
<1>2. \A k, r : Todo(k, r).kind = k /\ Todo(k, r).resource = r
  BY DEF Todo
<1>3. /\ "freeze" \in simple <=> drill.state = "draft"
      /\ "start" \in simple <=> drill.state = "baseline_frozen" /\ AllActivationValid
      /\ "submit_review" \in simple <=> ReadyForReview
      /\ "review" \in simple <=> drill.state = "pending_review"
  OBVIOUS
<1>4. "observation" \notin simple /\ "retest" \notin simple
  OBVIOUS
<1> HIDE DEF simple, next, open, planned
<1>5. \A k, r : k \notin {"observation", "remediation", "retest"} =>
         (Todo(k, r) \in Todos <=> k \in simple /\ r = None)
  <2> SUFFICES ASSUME NEW k, NEW r, k \notin {"observation", "remediation", "retest"}
               PROVE  Todo(k, r) \in Todos <=> k \in simple /\ r = None
    OBVIOUS
  <2>1. ASSUME Todo(k, r) \in Todos PROVE k \in simple /\ r = None
    BY <1>1, <1>2, <2>1
  <2>2. ASSUME k \in simple, r = None PROVE Todo(k, r) \in Todos
    BY <1>1, <2>2
  <2> QED
    BY <2>1, <2>2
<1>6. \A c : Todo("observation", c) \in Todos <=> c \in next
  <2> SUFFICES ASSUME NEW c PROVE Todo("observation", c) \in Todos <=> c \in next
    OBVIOUS
  <2>1. ASSUME Todo("observation", c) \in Todos PROVE c \in next
    BY <1>1, <1>2, <1>4, <2>1
  <2>2. ASSUME c \in next PROVE Todo("observation", c) \in Todos
    BY <1>1, <2>2
  <2> QED
    BY <2>1, <2>2
<1>7. \A f : Todo("retest", f) \in Todos <=> f \in planned
  <2> SUFFICES ASSUME NEW f PROVE Todo("retest", f) \in Todos <=> f \in planned
    OBVIOUS
  <2>1. ASSUME Todo("retest", f) \in Todos PROVE f \in planned
    BY <1>1, <1>2, <1>4, <2>1
  <2>2. ASSUME f \in planned PROVE Todo("retest", f) \in Todos
    BY <1>1, <2>2
  <2> QED
    BY <2>1, <2>2
<1>8. \A c \in DOMAIN drill.checkpoints :
         c \in next <=> drill.state = "in_progress" /\ NextCheckpoint(drill, c)
  BY DEF next
<1>9. \A f \in DOMAIN drill.findings : f \in planned <=> drill.findings[f].status = "planned"
  BY DEF planned
<1>10. \A k \in {"freeze", "start", "submit_review", "review"} :
          Todo(k, None) \in Todos <=> k \in simple
  BY <1>5
<1> QED
  BY <1>3, <1>6, <1>7, <1>8, <1>9, <1>10

\* The statuses shown, which know nothing of digests, are all valid exactly when
\* start accepts the evidence.
LEMMA StatusesShown ==
    ASSUME TypeOK, GuardsHeld
    PROVE  AllActivationValid <=> /\ drill.activation # None
                                  /\ ValidActivation(drill.activation, drill.start)
                                  /\ NotExpired(drill.activation)
<1> DEFINE e == drill.activation
<1>1. Categories # {} /\ \A c \in Categories : ActivationStatuses[c] =
                            IF e = None THEN "missing" ELSE EvidenceReason(e[c])
  BY DEF ActivationStatuses, Categories
<1>2. e = None => ~AllActivationValid
  BY <1>1 DEF AllActivationValid
<1>3. ASSUME e # None
      PROVE  AllActivationValid <=> ValidActivation(e, drill.start) /\ NotExpired(e)
  <2>1. /\ e \in [Categories -> EvidenceType] /\ drill.start \in Nat /\ now \in Nat
        /\ ValidActivation(e, drill.start)
    BY <1>3, SubmissionsAssumption, TimesAssumption DEF TypeOK, Optional, GuardsHeld
  <2>2. \A c \in Categories : /\ e[c].collected \in Nat /\ e[c].until \in Nat
                              /\ e[c].collected <= e[c].until /\ e[c].until >= drill.start
    BY <2>1 DEF EvidenceType, ValidActivation
  <2>3. \A c \in Categories : EvidenceReason(e[c]) = "valid" <=> now <= e[c].until
    BY <2>1, <2>2 DEF EvidenceReason
  <2> QED
    BY <1>1, <1>3, <2>1, <2>3 DEF AllActivationValid, NotExpired
<1> QED
  BY <1>2, <1>3

\* The todos are what the workflow asks of the drill, and nothing more: what
\* is offered is not refused for the state of the drill or the time, and what
\* is not offered would be.
THEOREM WorkIsOffered == Spec => []OfferedIffPossible
<1>1. EvidenceInv /\ GuardsHeld => OfferedIffPossible
  <2> SUFFICES ASSUME EvidenceInv, GuardsHeld PROVE OfferedIffPossible
    OBVIOUS
  <2>1. TypeOK /\ ReviewedFactsAreTheFacts /\ ActiveCanGoOn
    BY DEF EvidenceInv, IInv
  <2>2. drill.state \in {"draft", "baseline_frozen", "in_progress", "remediation",
                         "pending_review", "certified"}
    BY <2>1 DEF TypeOK, States, Transitions
  <2>3. \A n : CanMove(n) <=> n \in Transitions[drill.state]
    BY DEF CanMove
  <2>4. /\ drill.state = "draft" <=> CanMove("baseline_frozen")
        /\ drill.state = "baseline_frozen" <=> CanMove("in_progress")
        /\ drill.state \in {"in_progress", "remediation"} => CanMove("pending_review")
    BY <2>2, <2>3 DEF Transitions
  <2>5. Todo("freeze", None) \in Todos <=> Possible("freeze", None)
    BY <2>4, TodoListed DEF GuardsHeld, Possible
  <2>6. Todo("start", None) \in Todos <=> Possible("start", None)
    BY <2>1, <2>4, TodoListed, StatusesShown DEF Possible
  <2>7. Todo("submit_review", None) \in Todos <=> Possible("submit_review", None)
    BY <2>4, TodoListed DEF ReadyForReview, HasOpenCriticalFinding, Possible
  <2>8. Todo("review", None) \in Todos <=> Possible("review", None)
    BY <2>1, TodoListed DEF ReviewedFactsAreTheFacts, Possible
  <2>9. ASSUME NEW c \in DOMAIN drill.checkpoints
        PROVE  Todo("observation", c) \in Todos <=> Possible("observation", c)
    BY TodoListed DEF Possible
  <2>10. ASSUME NEW f \in DOMAIN drill.findings
         PROVE  Todo("retest", f) \in Todos <=> Possible("retest", f)
    <3>1. Possible("retest", f) => drill.findings[f].status = "planned"
      BY DEF Possible
    <3>2. ASSUME drill.findings[f].status = "planned" PROVE Possible("retest", f)
      <4>1. drill.state = "remediation"
        <5>1. drill.state \notin {"draft", "baseline_frozen", "in_progress"}
          BY <3>2 DEF GuardsHeld
        <5>2. drill.state \notin {"pending_review", "certified"}
          BY <2>1, <3>2 DEF ReviewedFactsAreTheFacts, OpenFindings
        <5> QED
          BY <2>2, <5>1, <5>2
      <4>2. f.rule # "REVIEW_RETURN" => drill.findings[f].checkpoint \in DOMAIN drill.checkpoints
        <5>1. f.rule # "REVIEW_RETURN" =>
                 \E r \in drill.receipts : r.checkpoint = drill.findings[f].checkpoint
          BY DEF EvidenceInv, FindingsMatchReceipts
        <5> QED
          BY <2>1, <5>1 DEF TypeOK
      <4> QED
        BY <3>2, <4>1, <4>2 DEF Possible
    <3> QED
      BY <3>1, <3>2, TodoListed
  <2>11. ASSUME NEW t \in Kinds PROVE t \in Todos <=> Possible(t.kind, t.resource)
    <3>1. \A k, r : Todo(k, r).kind = k /\ Todo(k, r).resource = r
      BY DEF Todo
    <3>2. \/ \E k \in {"freeze", "start", "submit_review", "review"} : t = Todo(k, None)
          \/ \E c \in DOMAIN drill.checkpoints : t = Todo("observation", c)
          \/ \E f \in DOMAIN drill.findings : t = Todo("retest", f)
      BY DEF Kinds
    <3> QED
      BY <2>5, <2>6, <2>7, <2>8, <2>9, <2>10, <3>1, <3>2
  <2> QED
    BY <2>11 DEF OfferedIffPossible
<1> QED
  BY <1>1, EvidenceInvariant, GuardsInvariant, PTL

\* What a write does was on the list when it was accepted.
TakenFromTheList ==
    /\ \A a \in Actors :
          /\ Freeze(a) => Todo("freeze", None) \in Todos
          /\ Start(a) => Todo("start", None) \in Todos
          /\ SubmitReview(a) => Todo("submit_review", None) \in Todos
          /\ \A reason, quoted, opinions :
                ApproveReview(a, reason, quoted) \/ ReturnReview(a, reason, quoted, opinions)
                   => Todo("review", None) \in Todos
    /\ \A a \in Actors, c \in DOMAIN drill.checkpoints : \A at, m :
          SubmitObservation(a, c, at, m) => Todo("observation", c) \in Todos
    /\ \A a \in Actors, f \in DOMAIN drill.findings : \A at, m :
          SubmitRetest(a, f, at, m) => Todo("retest", f) \in Todos

\* No use case accepts a write that the list of todos did not offer, plans and
\* registrations apart: those can be repeated, see PlanIsOfferedInTime.
THEOREM OnlyOfferedWork == Spec => [][TakenFromTheList]_vars
<1>1. TypeOK /\ GuardsHeld /\ OfferedIffPossible => TakenFromTheList
  <2> SUFFICES ASSUME TypeOK, GuardsHeld, OfferedIffPossible PROVE TakenFromTheList
    OBVIOUS
  <2>1. \A k, r : Todo(k, r) \in Kinds => (Todo(k, r) \in Todos <=> Possible(k, r))
    <3>1. \A k, r : Todo(k, r).kind = k /\ Todo(k, r).resource = r
      BY DEF Todo
    <3> QED
      BY <3>1 DEF OfferedIffPossible
  <2>2. /\ \A k \in {"freeze", "start", "submit_review", "review"} : Todo(k, None) \in Kinds
        /\ \A c \in DOMAIN drill.checkpoints : Todo("observation", c) \in Kinds
        /\ \A f \in DOMAIN drill.findings : Todo("retest", f) \in Kinds
    BY DEF Kinds
  <2>3. ASSUME NEW a \in Actors
        PROVE  /\ Freeze(a) => Possible("freeze", None)
               /\ Start(a) => Possible("start", None)
               /\ SubmitReview(a) => Possible("submit_review", None)
               /\ \A reason, quoted, opinions :
                     ApproveReview(a, reason, quoted) \/ ReturnReview(a, reason, quoted, opinions)
                        => Possible("review", None)
    BY DEF Freeze, Start, SubmitReview, ApproveReview, ReturnReview, Decidable, Possible
  <2>4. ASSUME NEW a \in Actors, NEW c \in DOMAIN drill.checkpoints, NEW at, NEW m,
               SubmitObservation(a, c, at, m)
        PROVE  Possible("observation", c)
    BY <2>4 DEF SubmitObservation, Possible
  <2>5. ASSUME NEW a \in Actors, NEW f \in DOMAIN drill.findings, NEW at, NEW m,
               SubmitRetest(a, f, at, m)
        PROVE  Possible("retest", f)
    BY <2>5 DEF SubmitRetest, Possible
  <2> QED
    BY <2>1, <2>2, <2>3, <2>4, <2>5 DEF TakenFromTheList
<1>2. IInv => TypeOK
  BY DEF IInv
<1> QED
  BY <1>1, <1>2, Invariant, GuardsInvariant, WorkIsOffered, PTL

-----------------------------------------------------------------------------
(* The figures of the dossier.                                             *)

\* Each retest closed one finding.
RetestsClose ==
    /\ \A o \in drill.observations : o.kind = "retest" =>
          \E f \in DOMAIN drill.findings : drill.findings[f].retest = o.id
    /\ \A f, g \in DOMAIN drill.findings :
          drill.findings[f].retest # None /\ drill.findings[f].retest = drill.findings[g].retest
             => f = g

\* A receipt is the judgment of the one record of its checkpoint.
ReceiptsJudge ==
    \A r \in drill.receipts : \E o \in drill.observations :
       /\ o.kind = "live" /\ o.checkpoint = r.checkpoint
       /\ r.items = BuildJudgmentReceipt(drill.checkpoints[r.checkpoint], o.metrics)

FiniteFiles ==
    /\ IsFiniteSet(drill.observations) /\ IsFiniteSet(drill.receipts)
    /\ IsFiniteSet(DOMAIN drill.findings)

\* What the figures count: finitely many records with ids of their own, the
\* retests one for each closed finding.
CountedOK ==
    /\ FiniteFiles /\ RetestsClose /\ ReceiptsJudge
    /\ \A o, p \in drill.observations : o.id = p.id => o = p

\* Steps that write no facts leave the counts.
LEMMA CountedKept ==
    ASSUME CountedOK,
           drill'.observations = drill.observations, drill'.receipts = drill.receipts,
           drill'.findings = drill.findings, drill'.checkpoints = drill.checkpoints
    PROVE  CountedOK'
<1>1. FiniteFiles'
  BY DEF CountedOK, FiniteFiles
<1>2. RetestsClose' /\ ReceiptsJudge'
  BY DEF CountedOK, RetestsClose, ReceiptsJudge
<1> QED
  BY <1>1, <1>2 DEF CountedOK

\* The rules are four.
LEMMA FiniteRules == IsFiniteSet(RuleCodes)
<1>1. RuleCodes = (({"CAPACITY_MIN"} \cup {"TIME_LIMIT"}) \cup {"COMMUNICATION"}) \cup {"ACCESSIBILITY"}
  BY DEF RuleCodes
<1>2. /\ \A x : IsFiniteSet({x})
      /\ \A S, x : IsFiniteSet(S) => IsFiniteSet(S \cup {x})
  BY FS_Singleton, FS_AddElement
<1> QED
  BY <1>1, <1>2

\* An observation opens finitely many findings.
LEMMA FinitelyOpened ==
    ASSUME NEW c, NEW m
    PROVE  IsFiniteSet(DOMAIN OpenedByRules(c, m))
<1> DEFINE failed == Evaluate(drill.checkpoints[c], m)
           name == [r \in failed |-> FindingId(Fresh, r, None)]
<1>1. IsFiniteSet(failed)
  <2>1. failed \in SUBSET RuleCodes
    BY DEF Evaluate
  <2> QED
    BY <2>1, FiniteRules, FS_Subset
<1>2. DOMAIN OpenedByRules(c, m) = {name[r] : r \in failed}
  BY DEF OpenedByRules
<1>3. DOMAIN name = failed /\ name = [r \in failed |-> name[r]]
  OBVIOUS
<1> HIDE DEF name, failed
<1> QED
  BY <1>1, <1>2, <1>3, FiniteImage

\* The new record has a fresh id, its receipt and new findings without retest.
LEMMA ObservationCounted ==
    ASSUME EvidenceInv, CountedOK, NEW a \in Actors, NEW c \in DOMAIN drill.checkpoints,
           NEW at \in ObservedTimes, NEW m \in Readings, SubmitObservation(a, c, at, m)
    PROVE  CountedOK'
<1> DEFINE opened == OpenedByRules(c, m)
           o == Observation("live", c, at, m)
           r == Receipt(c, m)
<1>1. TypeOK /\ drill.revision \in Nat
  BY DEF EvidenceInv, IInv, TypeOK
<1>2. /\ KeepsAllBut({"observations", "receipts", "findings", "state", "revision"})
      /\ drill'.observations = drill.observations \cup {o}
      /\ drill'.receipts = drill.receipts \cup {r}
      /\ drill'.findings = WithFindings(drill.findings, opened)
  BY <1>1, ObservationStep
<1>3. drill'.checkpoints = drill.checkpoints
  BY <1>2 DEF KeepsAllBut, DrillFields
<1>4. /\ o.id = Fresh /\ o.kind = "live" /\ o.checkpoint = c /\ o.metrics = m
      /\ r.checkpoint = c /\ r.items = BuildJudgmentReceipt(drill.checkpoints[c], m)
  BY DEF Observation, Receipt
<1>5. \A f \in DOMAIN opened : f.opened = Fresh /\ opened[f].retest = None
  BY FindingNamed DEF NewFinding
<1>6. /\ \A f \in DOMAIN drill.findings : f.opened # Fresh
      /\ \A p \in drill.observations : p.id # Fresh
  BY <1>1 DEF TypeOK, FindingOK, Fresh, ObservationType
<1>7. /\ DOMAIN drill'.findings = DOMAIN drill.findings \cup DOMAIN opened
      /\ \A f \in DOMAIN drill.findings : drill'.findings[f] = drill.findings[f]
      /\ \A f \in DOMAIN opened : drill'.findings[f] = opened[f]
  BY <1>2, <1>5, <1>6 DEF WithFindings
<1>8. IsFiniteSet(DOMAIN opened)
  BY FinitelyOpened
<1> HIDE DEF o, r, opened
<1>9. FiniteFiles'
  <2>1. /\ IsFiniteSet(drill.observations \cup {o})
        /\ IsFiniteSet(drill.receipts \cup {r})
    BY FS_AddElement DEF CountedOK, FiniteFiles
  <2>2. \A S, T : IsFiniteSet(S) /\ IsFiniteSet(T) => IsFiniteSet(S \cup T)
    BY FS_Union
  <2>3. IsFiniteSet(drill'.observations) /\ IsFiniteSet(drill'.receipts)
    BY <1>2, <2>1
  <2>4. IsFiniteSet(DOMAIN drill'.findings)
    BY <1>7, <1>8, <2>2 DEF CountedOK, FiniteFiles
  <2> QED
    BY <2>3, <2>4 DEF FiniteFiles
<1>10. RetestsClose'
  BY <1>2, <1>4, <1>5, <1>7 DEF CountedOK, RetestsClose
<1>11. ReceiptsJudge'
  BY <1>2, <1>3, <1>4 DEF CountedOK, ReceiptsJudge
<1>12. \A p, q \in drill'.observations : p.id = q.id => p = q
  BY <1>2, <1>4, <1>6 DEF CountedOK
<1> QED
  BY <1>9, <1>10, <1>11, <1>12 DEF CountedOK

\* The new record has a fresh id, and closes a finding that had none.
LEMMA RetestCounted ==
    ASSUME EvidenceInv, CountedOK, NEW a \in Actors, NEW f \in DOMAIN drill.findings,
           NEW at \in ObservedTimes, NEW m \in Readings, SubmitRetest(a, f, at, m)
    PROVE  CountedOK'
<1> DEFINE old == drill.findings[f]
           c == old.checkpoint
           o == Observation("retest", c, at, m)
           g == Close(old)
<1>1. TypeOK /\ FindingOK(f) /\ drill.revision \in Nat
  BY DEF EvidenceInv, IInv, TypeOK
<1>2. /\ KeepsAllBut({"observations", "findings", "revision"})
      /\ old.status = "planned"
      /\ drill'.observations = drill.observations \cup {o}
      /\ drill'.findings = [drill.findings EXCEPT ![f] = g]
  BY <1>1, RetestStep
<1>3. drill'.checkpoints = drill.checkpoints /\ drill'.receipts = drill.receipts
  BY <1>2 DEF KeepsAllBut, DrillFields
<1>4. o.id = Fresh /\ o.kind = "retest" /\ g.retest = Fresh /\ old.retest = None
  BY <1>1, <1>2 DEF Observation, Close, FindingOK, FindingType
<1>5. Fresh # None /\ \A p \in drill.observations : p.id # Fresh
  BY <1>1, NoneAssumption DEF TypeOK, Fresh, ObservationType
<1>6. \A h \in DOMAIN drill.findings : drill.findings[h].retest # Fresh
  <2> SUFFICES ASSUME NEW h \in DOMAIN drill.findings, drill.findings[h].retest = Fresh PROVE FALSE
    OBVIOUS
  <2>1. drill.findings[h].status = "closed"
    BY <1>1, <1>5 DEF TypeOK, FindingOK
  <2>2. PICK p \in drill.observations : p.id = drill.findings[h].retest
    BY <2>1 DEF EvidenceInv, ClosedByEvidence
  <2> QED
    BY <1>5, <2>2
<1>7. /\ DOMAIN drill'.findings = DOMAIN drill.findings
      /\ \A h \in DOMAIN drill.findings : h # f => drill'.findings[h] = drill.findings[h]
      /\ drill'.findings[f] = g
  BY <1>2
<1> HIDE DEF o, g, old, c
<1>8. FiniteFiles'
  <2>1. IsFiniteSet(drill.observations \cup {o})
    BY FS_AddElement DEF CountedOK, FiniteFiles
  <2> QED
    BY <1>2, <1>3, <1>7, <2>1 DEF CountedOK, FiniteFiles
<1>9. RetestsClose'
  <2>1. \A p \in drill'.observations : p.kind = "retest" =>
           \E h \in DOMAIN drill'.findings : drill'.findings[h].retest = p.id
    <3> SUFFICES ASSUME NEW p \in drill'.observations, p.kind = "retest"
                 PROVE  \E h \in DOMAIN drill'.findings : drill'.findings[h].retest = p.id
      OBVIOUS
    <3>1. CASE p = o
      BY <1>4, <1>7, <3>1
    <3>2. CASE p \in drill.observations
      <4>1. PICK h \in DOMAIN drill.findings : drill.findings[h].retest = p.id
        BY <3>2 DEF CountedOK, RetestsClose
      <4>2. h # f
        <5>1. p.id \in Nat
          BY <1>1, <3>2 DEF TypeOK, ObservationType
        <5> QED
          BY <1>4, <4>1, <5>1, NoneAssumption DEF old
      <4> QED
        BY <1>7, <4>1, <4>2
    <3> QED
      BY <1>2, <3>1, <3>2
  <2>2. \A h, k \in DOMAIN drill'.findings :
          drill'.findings[h].retest # None /\ drill'.findings[h].retest = drill'.findings[k].retest
             => h = k
    BY <1>4, <1>6, <1>7 DEF CountedOK, RetestsClose
  <2> QED
    BY <2>1, <2>2 DEF RetestsClose
<1>10. ReceiptsJudge'
  BY <1>2, <1>3 DEF CountedOK, ReceiptsJudge
<1>11. \A p, q \in drill'.observations : p.id = q.id => p = q
  BY <1>2, <1>4, <1>5 DEF CountedOK
<1> QED
  BY <1>8, <1>9, <1>10, <1>11 DEF CountedOK

\* A plan leaves the retest of its finding.
LEMMA PlanCounted ==
    ASSUME EvidenceInv, CountedOK, NEW a \in Actors, NEW f \in DOMAIN drill.findings,
           NEW due, NEW cause, NEW action, NEW owner, NEW reason,
           PlanRemediation(a, f, cause, action, owner, due, reason)
    PROVE  CountedOK'
<1> DEFINE old == drill.findings[f]
           plan == [cause |-> KeptCause(old, cause), action |-> action,
                    owner |-> owner, due |-> due, reason |-> reason]
           g == WithPlan(old, plan)
<1>1. TypeOK /\ FindingOK(f)
  BY DEF EvidenceInv, IInv, TypeOK
<1>2. /\ KeepsAllBut({"findings", "revision"})
      /\ drill'.findings = [drill.findings EXCEPT ![f] = g]
  BY <1>1, PlanStep
<1>3. /\ drill'.checkpoints = drill.checkpoints /\ drill'.receipts = drill.receipts
      /\ drill'.observations = drill.observations
  BY <1>2 DEF KeepsAllBut, DrillFields
<1>4. g.retest = old.retest
  BY <1>1 DEF WithPlan, FindingOK, FindingType
<1>5. /\ DOMAIN drill'.findings = DOMAIN drill.findings
      /\ \A h \in DOMAIN drill.findings : drill'.findings[h].retest = drill.findings[h].retest
  BY <1>2, <1>4
<1>6. FiniteFiles'
  BY <1>3, <1>5 DEF CountedOK, FiniteFiles
<1>7. RetestsClose'
  BY <1>3, <1>5 DEF CountedOK, RetestsClose
<1>8. ReceiptsJudge'
  BY <1>3 DEF CountedOK, ReceiptsJudge
<1> QED
  BY <1>3, <1>6, <1>7, <1>8 DEF CountedOK

\* A returned review opens finitely many findings, without a retest.
LEMMA ReturnCounted ==
    ASSUME EvidenceInv, CountedOK, NEW a \in Actors, NEW reason, NEW quoted,
           NEW returned \in Returnable, NEW opinions, DOMAIN opinions = returned,
           ReturnReview(a, reason, quoted, opinions)
    PROVE  CountedOK'
<1> DEFINE opened == OpenedByReview(opinions)
           name == [i \in returned |-> FindingId(Fresh, "REVIEW_RETURN", i)]
<1>1. TypeOK /\ drill.revision \in Nat
  BY DEF EvidenceInv, IInv, TypeOK
<1>2. /\ KeepsAllBut({"state", "snapshot", "findings", "reviews", "revision"})
      /\ drill.snapshot # NoSnapshot /\ returned \subseteq drill.snapshot.checklist
      /\ drill'.findings = WithFindings(drill.findings, opened)
  BY <1>1, ReturnStep
<1>3. /\ drill'.checkpoints = drill.checkpoints /\ drill'.receipts = drill.receipts
      /\ drill'.observations = drill.observations
  BY <1>2 DEF KeepsAllBut, DrillFields
<1>4. IsFiniteSet(DOMAIN opened)
  <2>1. IsFiniteSet(returned)
    <3>1. drill.snapshot.checklist = ReviewChecklist(drill)
      BY <1>2 DEF EvidenceInv, IInv, ReviewedFactsAreTheFacts
    <3>2. IsFiniteSet(ReviewChecklist(drill))
      BY FiniteChecklist DEF CountedOK, FiniteFiles
    <3> QED
      BY <1>2, <3>1, <3>2, FS_Subset
  <2>2. DOMAIN opened = {name[i] : i \in returned}
    BY DEF OpenedByReview
  <2>3. DOMAIN name = returned /\ name = [i \in returned |-> name[i]]
    OBVIOUS
  <2> HIDE DEF name, opened
  <2> QED
    BY <2>1, <2>2, <2>3, FiniteImage
<1>5. \A f \in DOMAIN opened : f.opened = Fresh /\ opened[f].retest = None
  BY DEF OpenedByReview, FindingId, NewFinding
<1>6. \A f \in DOMAIN drill.findings : f.opened # Fresh
  BY <1>1 DEF TypeOK, FindingOK, Fresh
<1>7. /\ DOMAIN drill'.findings = DOMAIN drill.findings \cup DOMAIN opened
      /\ \A f \in DOMAIN drill.findings : drill'.findings[f] = drill.findings[f]
      /\ \A f \in DOMAIN opened : drill'.findings[f] = opened[f]
  BY <1>2, <1>5, <1>6 DEF WithFindings
<1> HIDE DEF opened
<1>8. FiniteFiles'
  <2>1. \A S, T : IsFiniteSet(S) /\ IsFiniteSet(T) => IsFiniteSet(S \cup T)
    BY FS_Union
  <2> QED
    BY <1>3, <1>4, <1>7, <2>1 DEF CountedOK, FiniteFiles
<1>9. RetestsClose'
  BY <1>3, <1>5, <1>7 DEF CountedOK, RetestsClose
<1>10. ReceiptsJudge'
  BY <1>3 DEF CountedOK, ReceiptsJudge
<1> QED
  BY <1>3, <1>8, <1>9, <1>10 DEF CountedOK

\* Every step keeps the counts.
LEMMA NextCounted == EvidenceInv /\ CountedOK /\ [Next]_vars => CountedOK'
<1> SUFFICES ASSUME EvidenceInv, CountedOK, [Next]_vars PROVE CountedOK'
  OBVIOUS
<1> DEFINE written == {"state", "baselineVersion", "activation", "snapshot", "reviews",
                       "dossier", "revision"}
<1>0. TypeOK
  BY DEF EvidenceInv, IInv
<1>1. KeepsAllBut(written) => CountedOK'
  <2>1. KeepsAllBut(written) =>
           /\ drill'.observations = drill.observations /\ drill'.receipts = drill.receipts
           /\ drill'.findings = drill.findings /\ drill'.checkpoints = drill.checkpoints
    BY DEF KeepsAllBut, DrillFields
  <2> QED
    BY <2>1, CountedKept
<1>2. ASSUME NEW a \in Actors,
             \/ Freeze(a) \/ Start(a) \/ SubmitReview(a)
             \/ \E e \in Submissions : RegisterActivation(a, e)
      PROVE  KeepsAllBut(written)
  BY <1>0, <1>2, FreezeStep, StartStep, SubmitReviewStep, RegisterStep DEF KeepsAllBut
<1>3. ASSUME NEW a \in Actors, NEW reason, NEW quoted, ApproveReview(a, reason, quoted)
      PROVE  KeepsAllBut(written)
  BY <1>0, <1>3, ApproveStep DEF KeepsAllBut
<1>4. ASSUME NEW a \in Actors, NEW c \in DOMAIN drill.checkpoints, NEW at \in ObservedTimes,
             NEW m \in Readings, SubmitObservation(a, c, at, m)
      PROVE  CountedOK'
  BY <1>4, ObservationCounted
<1>5. ASSUME NEW a \in Actors, NEW f \in DOMAIN drill.findings, NEW due, NEW cause,
             NEW action, NEW owner, NEW reason,
             PlanRemediation(a, f, cause, action, owner, due, reason)
      PROVE  CountedOK'
  BY <1>5, PlanCounted
<1>6. ASSUME NEW a \in Actors, NEW f \in DOMAIN drill.findings, NEW at \in ObservedTimes,
             NEW m \in Readings, SubmitRetest(a, f, at, m)
      PROVE  CountedOK'
  BY <1>6, RetestCounted
<1>7. ASSUME NEW a \in Actors, NEW reason, NEW quoted, NEW returned \in Returnable,
             NEW opinions \in [returned -> Texts \cup {Blank}],
             ReturnReview(a, reason, quoted, opinions)
      PROVE  CountedOK'
  BY <1>7, ReturnCounted
<1>8. Tick \/ UNCHANGED vars => CountedOK'
  <2>1. Tick \/ UNCHANGED vars => drill' = drill
    BY DEF Tick, vars
  <2> QED
    BY <2>1, CountedKept
<1> HIDE DEF written
<1> QED
  BY <1>1, <1>2, <1>3, <1>4, <1>5, <1>6, <1>7, <1>8 DEF Next

\* The counts hold in every reachable state.
LEMMA CountedInvariant == Spec => []CountedOK
<1>1. Init => CountedOK
  <2> SUFFICES ASSUME Init PROVE CountedOK
    OBVIOUS
  <2>1. drill.observations = {} /\ drill.receipts = {} /\ DOMAIN drill.findings = {}
    BY DEF Init, CreatedFrom
  <2> QED
    BY <2>1, FS_EmptySet DEF CountedOK, FiniteFiles, RetestsClose, ReceiptsJudge
<1> QED
  BY <1>1, NextCounted, EvidenceInvariant, PTL DEF Spec

\* An int holds what is not larger than its largest value.
LEMMA NothingWraps ==
    ASSUME NEW n \in Nat, n <= MaxInt
    PROVE  Wrapped(n) = n
<1>1. MaxInt \in Nat
  BY MaxIntAssumption
<1> DEFINE a == n + MaxInt + 1
           b == 2 * (MaxInt + 1)
<1>2. a \in Nat /\ b \in Nat /\ 0 < b /\ a < b
  BY <1>1
<1>3. \A i \in Nat, j \in Nat : i < j => i % j = i
  OBVIOUS
<1>4. a % b = a
  <2> HIDE DEF a, b
  <2> QED
    BY <1>2, <1>3
<1>5. Wrapped(n) = (a % b) - (MaxInt + 1)
  BY DEF Wrapped
<1> QED
  BY <1>1, <1>4, <1>5

Live(d) == {o \in d.observations : o.kind = "live"}

Retests(d) == {o \in d.observations : o.kind = "retest"}

\* The records correspond to the checkpoints once all are in.
LEMMA RecordsByCheckpoint ==
    ASSUME EvidenceInv, AllLiveObservationsSubmitted(drill)
    PROVE  /\ [o \in Live(drill) |-> o.checkpoint] \in Bijection(Live(drill), DOMAIN drill.checkpoints)
           /\ \A o \in Live(drill) : Recorded(o.checkpoint) = o.metrics
<1> DEFINE at == [o \in Live(drill) |-> o.checkpoint]
<1>1. TypeOK /\ RecordedInOrder
  BY DEF EvidenceInv, IInv
<1>2. \A o \in Live(drill) : o.checkpoint \in DOMAIN drill.checkpoints
  <2> SUFFICES ASSUME NEW o \in Live(drill) PROVE o.checkpoint \in DOMAIN drill.checkpoints
    OBVIOUS
  <2>1. <<o.id, o.checkpoint, o.id>> \in {<<r.id, r.checkpoint, r.observation>> : r \in drill.receipts}
    BY <1>1 DEF RecordedInOrder, Live
  <2>2. PICK r \in drill.receipts : <<o.id, o.checkpoint, o.id>> = <<r.id, r.checkpoint, r.observation>>
    BY <2>1
  <2> QED
    BY <1>1, <2>2 DEF TypeOK
<1>3. \A o, p \in Live(drill) : o.checkpoint = p.checkpoint => o = p
  BY <1>1 DEF RecordedInOrder, Live
<1>4. \A c \in DOMAIN drill.checkpoints : \E o \in Live(drill) : o.checkpoint = c
  BY DEF AllLiveObservationsSubmitted, HasLive, Live
<1>5. at \in Bijection(Live(drill), DOMAIN drill.checkpoints)
  BY <1>2, <1>3, <1>4 DEF Bijection, Injection, Surjection, IsInjective
<1>6. ASSUME NEW o \in Live(drill) PROVE Recorded(o.checkpoint) = o.metrics
  <2> DEFINE Of(p) == p \in drill.observations /\ p.kind = "live" /\ p.checkpoint = o.checkpoint
  <2>1. Of(o) /\ \A p : Of(p) => p = o
    BY <1>3, <1>6 DEF Live
  <2>2. (CHOOSE p \in drill.observations : p.kind = "live" /\ p.checkpoint = o.checkpoint) = o
    BY <2>1
  <2> QED
    BY <2>2 DEF Recorded
<1> QED
  BY <1>5, <1>6

\* The retests correspond to the findings once all are closed.
LEMMA RetestsByFinding ==
    ASSUME EvidenceInv, CountedOK, OpenFindings(drill) = {}
    PROVE  ExistsBijection(DOMAIN drill.findings, Retests(drill))
<1> DEFINE F == DOMAIN drill.findings
           by == [f \in F |-> CHOOSE o \in Retests(drill) : o.id = drill.findings[f].retest]
<1>1. TypeOK /\ ClosedByEvidence
  BY DEF EvidenceInv, IInv
<1>2. \A f \in F : \E o \in Retests(drill) : o.id = drill.findings[f].retest
  BY <1>1 DEF OpenFindings, ClosedByEvidence, Retests
<1>3. \A f \in F : by[f] \in Retests(drill) /\ by[f].id = drill.findings[f].retest
  BY <1>2
<1>4. by \in [F -> Retests(drill)]
  BY <1>3
<1> HIDE DEF by
<1>5. \A f, g \in F : by[f] = by[g] => f = g
  <2> SUFFICES ASSUME NEW f \in F, NEW g \in F, by[f] = by[g] PROVE f = g
    OBVIOUS
  <2>1. drill.findings[f].retest = drill.findings[g].retest
    BY <1>3
  <2>2. drill.findings[f].retest # None
    BY <1>1 DEF TypeOK, FindingOK, OpenFindings
  <2> QED
    BY <2>1, <2>2 DEF CountedOK, RetestsClose
<1>6. \A o \in Retests(drill) : \E f \in F : by[f] = o
  <2> SUFFICES ASSUME NEW o \in Retests(drill) PROVE \E f \in F : by[f] = o
    OBVIOUS
  <2>1. PICK f \in F : drill.findings[f].retest = o.id
    BY DEF CountedOK, RetestsClose, Retests
  <2>2. by[f].id = o.id /\ by[f] \in drill.observations /\ o \in drill.observations
    BY <1>3, <2>1 DEF Retests
  <2> QED
    BY <2>2 DEF CountedOK
<1>7. by \in Bijection(F, Retests(drill))
  BY <1>4, <1>5, <1>6 DEF Bijection, Injection, Surjection, IsInjective
<1> QED
  BY <1>7 DEF ExistsBijection

\* Everything recorded is the record of a checkpoint or closed a finding.
LEMMA RecordsCount ==
    ASSUME EvidenceInv, CountedOK, AllLiveObservationsSubmitted(drill), OpenFindings(drill) = {}
    PROVE  Cardinality(drill.observations)
             = Len(drill.checkpoints) + Cardinality(DOMAIN drill.findings)
<1>1. TypeOK
  BY DEF EvidenceInv, IInv
<1>2. /\ drill.observations = Live(drill) \cup Retests(drill)
      /\ Live(drill) \cap Retests(drill) = {}
  BY <1>1 DEF TypeOK, ObservationType, Live, Retests
<1>3. IsFiniteSet(Live(drill)) /\ IsFiniteSet(Retests(drill))
  <2>1. Live(drill) \in SUBSET drill.observations /\ Retests(drill) \in SUBSET drill.observations
    BY DEF Live, Retests
  <2> QED
    BY <2>1, FS_Subset DEF CountedOK, FiniteFiles
<1>4. Cardinality(Live(drill)) = Cardinality(DOMAIN drill.checkpoints)
  <2>1. ExistsBijection(Live(drill), DOMAIN drill.checkpoints)
    BY RecordsByCheckpoint DEF ExistsBijection
  <2> QED
    BY <1>3, <2>1, FS_Bijection
<1>5. Cardinality(DOMAIN drill.checkpoints) = Len(drill.checkpoints)
  <2>1. DOMAIN drill.checkpoints = 1..Len(drill.checkpoints) /\ Len(drill.checkpoints) \in Nat
    BY <1>1 DEF TypeOK
  <2>2. Cardinality(1..Len(drill.checkpoints)) = Len(drill.checkpoints)
    BY <2>1, FS_Interval
  <2> QED
    BY <2>1, <2>2
<1>6. Cardinality(Retests(drill)) = Cardinality(DOMAIN drill.findings)
  BY RetestsByFinding, FS_Bijection DEF CountedOK, FiniteFiles
<1>7. Cardinality(Live(drill) \cup Retests(drill))
        = Cardinality(Live(drill)) + Cardinality(Retests(drill)) - Cardinality({})
  BY <1>2, <1>3, FS_Union
<1>8. Cardinality({}) = 0 /\ Cardinality(DOMAIN drill.findings) \in Nat /\ Len(drill.checkpoints) \in Nat
  BY <1>1, FS_EmptySet, FS_CardinalityType DEF CountedOK, FiniteFiles, TypeOK
<1> QED
  BY <1>2, <1>4, <1>5, <1>6, <1>7, <1>8

\* The participants of some records, and of the records of some checkpoints.
RecordsSum(S) == MapThenSumSet(LAMBDA o : o.metrics.participants, S)

CheckpointsSum(S) == MapThenSumSet(LAMBDA c : Recorded(c).participants, S)

\* The participants the dossier adds up are a sum over the records of an exercise,
LEMMA ParticipantsOfRecords ==
    ASSUME NEW S, IsFiniteSet(S), \A o \in S : o.metrics.participants \in Int
    PROVE  \E F : /\ IsSum(F, [o \in S |-> o.metrics.participants], S)
                  /\ RecordsSum(S) = F[S]
<1> DEFINE g == [o \in S |-> o.metrics.participants]
           Is(f) == f = [s \in SUBSET S |->
                           IF s = {} THEN 0
                           ELSE (CHOOSE x \in s : TRUE).metrics.participants
                                  + f[s \ {CHOOSE x \in s : TRUE}]]
           acc == CHOOSE f : Is(f)
<1>1. \A s \in (SUBSET S) \ {{}} : (CHOOSE x \in s : TRUE) \in s
  OBVIOUS
<1>2. ASSUME NEW f PROVE Is(f) <=> AddsUp(f, g, S)
  <2>1. \A s \in (SUBSET S) \ {{}} : g[CHOOSE x \in s : TRUE]
                                       = (CHOOSE x \in s : TRUE).metrics.participants
    BY <1>1
  <2> HIDE DEF g
  <2>2. [s \in SUBSET S |-> IF s = {} THEN 0
                            ELSE (CHOOSE x \in s : TRUE).metrics.participants
                                   + f[s \ {CHOOSE x \in s : TRUE}]]
          = [s \in SUBSET S |-> IF s = {} THEN 0
                                ELSE g[CHOOSE x \in s : TRUE] + f[s \ {CHOOSE x \in s : TRUE}]]
    BY <2>1
  <2> QED
    BY <2>2 DEF AddsUp
<1>3. \A x \in S : g[x] \in Int
  OBVIOUS
<1>4. RecordsSum(S) = acc[S]
  BY DEF RecordsSum, MapThenSumSet, MapThenFoldSet
<1> HIDE DEF Is, g
<1>5. \E f : Is(f)
  BY <1>2, <1>3, SumDefined
<1>6. Is(acc)
  BY <1>5
<1> HIDE DEF acc
<1>7. IsSum(acc, g, S)
  BY <1>2, <1>3, <1>6, AddsUpIsSum
<1> QED
  BY <1>4, <1>7 DEF g

\* and so are those of its checkpoints.
LEMMA ParticipantsOfCheckpoints ==
    ASSUME NEW S, IsFiniteSet(S), \A c \in S : Recorded(c).participants \in Int
    PROVE  \E F : /\ IsSum(F, [c \in S |-> Recorded(c).participants], S)
                  /\ CheckpointsSum(S) = F[S]
<1> DEFINE g == [c \in S |-> Recorded(c).participants]
           Is(f) == f = [s \in SUBSET S |->
                           IF s = {} THEN 0
                           ELSE Recorded(CHOOSE x \in s : TRUE).participants
                                  + f[s \ {CHOOSE x \in s : TRUE}]]
           acc == CHOOSE f : Is(f)
<1>1. \A s \in (SUBSET S) \ {{}} : (CHOOSE x \in s : TRUE) \in s
  OBVIOUS
<1>2. ASSUME NEW f PROVE Is(f) <=> AddsUp(f, g, S)
  <2>1. \A s \in (SUBSET S) \ {{}} : g[CHOOSE x \in s : TRUE]
                                       = Recorded(CHOOSE x \in s : TRUE).participants
    BY <1>1
  <2> HIDE DEF g
  <2>2. [s \in SUBSET S |-> IF s = {} THEN 0
                            ELSE Recorded(CHOOSE x \in s : TRUE).participants
                                   + f[s \ {CHOOSE x \in s : TRUE}]]
          = [s \in SUBSET S |-> IF s = {} THEN 0
                                ELSE g[CHOOSE x \in s : TRUE] + f[s \ {CHOOSE x \in s : TRUE}]]
    BY <2>1
  <2> QED
    BY <2>2 DEF AddsUp
<1>3. \A x \in S : g[x] \in Int
  OBVIOUS
<1>4. CheckpointsSum(S) = acc[S]
  BY DEF CheckpointsSum, MapThenSumSet, MapThenFoldSet
<1> HIDE DEF Is, g
<1>5. \E f : Is(f)
  BY <1>2, <1>3, SumDefined
<1>6. Is(acc)
  BY <1>5
<1> HIDE DEF acc
<1>7. IsSum(acc, g, S)
  BY <1>2, <1>3, <1>6, AddsUpIsSum
<1> QED
  BY <1>4, <1>7 DEF g

\* The two sums are of the same numbers.
LEMMA SameParticipants ==
    ASSUME EvidenceInv, CountedOK, AllLiveObservationsSubmitted(drill)
    PROVE  LET present == CheckpointsSum(DOMAIN drill.checkpoints)
           IN  RecordsSum(Live(drill)) = present /\ present \in Nat
<1> DEFINE live == Live(drill)
           cps == DOMAIN drill.checkpoints
           g == [o \in live |-> o.metrics.participants]
           h == [c \in cps |-> Recorded(c).participants]
           at == [o \in live |-> o.checkpoint]
<1>1. TypeOK
  BY DEF EvidenceInv, IInv
<1>2. at \in Bijection(live, cps) /\ \A o \in live : Recorded(o.checkpoint) = o.metrics
  BY RecordsByCheckpoint
<1>3. IsFiniteSet(live)
  <2>1. live \in SUBSET drill.observations
    BY DEF Live
  <2> QED
    BY <2>1, FS_Subset DEF CountedOK, FiniteFiles
<1>4. IsFiniteSet(cps)
  <2>1. ExistsBijection(live, cps)
    BY <1>2 DEF ExistsBijection
  <2> HIDE DEF live, cps
  <2> QED
    BY <1>3, <2>1, FS_Bijection
<1>5. \A o \in live : o.metrics.participants \in Nat
  BY <1>1 DEF TypeOK, ObservationType, MetricsType, Live
<1>6. \A c \in cps : \E o \in live : o.checkpoint = c
  BY DEF AllLiveObservationsSubmitted, HasLive, Live
<1>7. \A c \in cps : Recorded(c).participants \in Nat
  BY <1>2, <1>5, <1>6
<1>8. \A o \in live : at[o] \in cps /\ g[o] = h[at[o]]
  <2>1. \A o \in live : o.checkpoint \in cps
    BY <1>2 DEF Bijection, Injection
  <2> QED
    BY <1>2, <2>1
<1>9. \A c \in cps : h[c] \in Nat
  BY <1>7
<1>10. PICK F : IsSum(F, g, live) /\ RecordsSum(live) = F[live]
  BY <1>3, <1>5, ParticipantsOfRecords
<1>11. PICK H : IsSum(H, h, cps) /\ CheckpointsSum(cps) = H[cps]
  BY <1>4, <1>7, ParticipantsOfCheckpoints
<1> HIDE DEF live, cps, g, h, at
<1>12. F[live] = H[cps]
  BY <1>2, <1>3, <1>8, <1>10, <1>11, SumsCorrespond
<1>13. H[cps] \in Nat
  BY <1>4, <1>9, <1>11, SumIsNatural
<1> QED
  BY <1>10, <1>11, <1>12, <1>13 DEF live, cps

\* The longest time is that of a record, and no record took longer.
LEMMA LongestTime ==
    ASSUME EvidenceInv, CountedOK, NEW r \in drill.receipts,
           r.items["TIME_LIMIT"].deviation > 0
    PROVE  Max({0} \cup {o.metrics.elapsed : o \in drill.observations})
             >= drill.checkpoints[r.checkpoint].limit + r.items["TIME_LIMIT"].deviation
<1> DEFINE cp == drill.checkpoints[r.checkpoint]
           elapsed == [o \in drill.observations |-> o.metrics.elapsed]
           times == {elapsed[o] : o \in drill.observations}
<1>1. TypeOK
  BY DEF EvidenceInv, IInv
<1>2. PICK o \in drill.observations : r.items = BuildJudgmentReceipt(cp, o.metrics)
  BY DEF CountedOK, ReceiptsJudge
<1>3. cp \in CheckpointType /\ \A p \in drill.observations : p.metrics.elapsed \in Nat
  BY <1>1 DEF TypeOK, ObservationType, MetricsType
<1>4. r.items["TIME_LIMIT"].deviation = Positive(o.metrics.elapsed - cp.limit)
  BY <1>2 DEF BuildJudgmentReceipt, RuleCodes
<1>5. o.metrics.elapsed = cp.limit + r.items["TIME_LIMIT"].deviation
  <2>1. cp.limit \in Nat /\ o.metrics.elapsed \in Nat
    BY <1>3 DEF CheckpointType
  <2> HIDE DEF cp
  <2> QED
    BY <1>4, <2>1 DEF Positive
<1>6. {p.metrics.elapsed : p \in drill.observations} = times
  OBVIOUS
<1>7. IsFiniteSet(times)
  <2>1. DOMAIN elapsed = drill.observations
        /\ elapsed = [p \in drill.observations |-> elapsed[p]]
    OBVIOUS
  <2> HIDE DEF elapsed
  <2> QED
    BY <2>1, FiniteImage DEF CountedOK, FiniteFiles
<1>8. times \subseteq Int /\ o.metrics.elapsed \in times
  <2>1. o.metrics.elapsed \in {p.metrics.elapsed : p \in drill.observations}
    BY <1>2
  <2>2. {p.metrics.elapsed : p \in drill.observations} \subseteq Int
    BY <1>3
  <2> HIDE DEF times
  <2> QED
    BY <1>6, <2>1, <2>2
<1> HIDE DEF times
<1>9. IsFiniteSet({0} \cup times)
  BY <1>7, FS_Singleton, FS_Union
<1>10. \A t \in {0} \cup times : Max({0} \cup times) >= t
  <2>1. {0} \cup times \subseteq Int /\ {0} \cup times # {}
    BY <1>8
  <2> QED
    BY <1>9, <2>1, MaxIsLargest
<1> QED
  BY <1>5, <1>6, <1>8, <1>10

\* The figures of every dossier MetricsFromSnapshot derives add up.
THEOREM DossierFiguresAddUp == Spec => []FiguresAddUp
<1>1. EvidenceInv /\ CountedOK => FiguresAddUp
  <2> SUFFICES ASSUME EvidenceInv, CountedOK, drill.state = "certified"
               PROVE  LET figures == MetricsFromSnapshot(drill.snapshot)
                          present == MapThenSumSet(LAMBDA c : Recorded(c).participants,
                                                   DOMAIN drill.checkpoints)
                      IN  /\ figures.closed = figures.findings
                          /\ figures.observations = figures.checkpoints + figures.findings
                          /\ figures.participants = present \/ present > MaxInt
                          /\ \A r \in drill.receipts :
                                LET overtime == r.items["TIME_LIMIT"].deviation IN
                                overtime > 0 =>
                                   figures.maxElapsed >= drill.checkpoints[r.checkpoint].limit + overtime
    BY Zenon DEF FiguresAddUp
  <2> DEFINE figures == MetricsFromSnapshot(drill.snapshot)
             present == MapThenSumSet(LAMBDA c : Recorded(c).participants,
                                      DOMAIN drill.checkpoints)
  <2>1. /\ drill.snapshot.observations = drill.observations
        /\ drill.snapshot.findings = drill.findings
        /\ drill.snapshot.baseline = drill.checkpoints
        /\ OpenFindings(drill) = {}
    BY DEF EvidenceInv, IInv, ReviewedFactsAreTheFacts, SameFacts
  <2>2. AllLiveObservationsSubmitted(drill)
    BY DEF EvidenceInv, CertifiedOnEvidence
  <2>3. Counted(drill.snapshot) = Live(drill)
    BY <2>1 DEF Counted, LiveRecords, Live
  <2>4. /\ figures.checkpoints = Len(drill.checkpoints)
        /\ figures.observations = Cardinality(drill.observations)
        /\ figures.findings = Cardinality(DOMAIN drill.findings)
        /\ figures.closed = Cardinality({f \in DOMAIN drill.findings :
                                           drill.findings[f].status = "closed"})
        /\ figures.maxElapsed = Max({0} \cup {o.metrics.elapsed : o \in drill.observations})
        /\ figures.participants = Wrapped(RecordsSum(Live(drill)))
    BY <2>1, <2>3 DEF MetricsFromSnapshot, RecordsSum
  <2> HIDE DEF figures
  <2>5. figures.closed = figures.findings
    <3>1. {f \in DOMAIN drill.findings : drill.findings[f].status = "closed"} = DOMAIN drill.findings
      BY <2>1 DEF OpenFindings
    <3> QED
      BY <2>4, <3>1
  <2>6. figures.observations = figures.checkpoints + figures.findings
    BY <2>1, <2>2, <2>4, RecordsCount
  <2>7. figures.participants = present \/ present > MaxInt
    <3>0. present = CheckpointsSum(DOMAIN drill.checkpoints)
      BY DEF CheckpointsSum
    <3> HIDE DEF present
    <3>1. RecordsSum(Live(drill)) = present /\ present \in Nat
      BY <2>2, <3>0, SameParticipants
    <3>2. figures.participants = Wrapped(present)
      BY <2>4, <3>1
    <3> QED
      BY <3>1, <3>2, NothingWraps, MaxIntAssumption
  <2>8. \A r \in drill.receipts : r.items["TIME_LIMIT"].deviation > 0 =>
           figures.maxElapsed
             >= drill.checkpoints[r.checkpoint].limit + r.items["TIME_LIMIT"].deviation
    BY <2>4, LongestTime
  <2> QED
    BY <2>5, <2>6, <2>7, <2>8 DEF figures
<1> QED
  BY <1>1, EvidenceInvariant, CountedInvariant, PTL
=============================================================================
