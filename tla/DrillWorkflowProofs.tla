------------------------- MODULE DrillWorkflowProofs -------------------------
(***************************************************************************)
(* Proofs about DrillWorkflow, for any actors, drafts, readings, times and *)
(* bounds: what each use case reads and writes, the inductive invariant    *)
(* and what follows from it, and that the workflow implements the gate.    *)
(***************************************************************************)
EXTENDS DrillProperties, OperatorProofs

\* Until Start the drill has no records and no findings; a draft has no version.
NothingBeforeStart ==
    /\ drill.state = "draft" => drill.baselineVersion = 0
    /\ drill.state \in {"draft", "baseline_frozen"} => DOMAIN drill.findings = {}

\* The inductive invariant: the parts of DrillProperties that need one another.
IInv == TypeOK /\ NothingBeforeStart /\ ActiveCanGoOn /\ ReviewedFactsAreTheFacts

-----------------------------------------------------------------------------
(* What each use case reads of the drill and writes to it, field by field. *)

\* The fields of the drill a step does not write, the clock among them.
KeepsAllBut(written) ==
    /\ now' = now
    /\ DOMAIN drill' = DrillFields
    /\ \A x \in DrillFields \ written : drill'[x] = drill[x]
    /\ drill'.revision = drill.revision + 1

\* Freeze gives a draft its version.
LEMMA FreezeStep ==
    ASSUME TypeOK, NEW a \in Actors, Freeze(a)
    PROVE  /\ KeepsAllBut({"state", "baselineVersion", "revision"})
           /\ drill.state = "draft" /\ drill'.state = "baseline_frozen"
           /\ drill'.baselineVersion = drill.baselineVersion + 1
<1>1. KeepsAllBut({"state", "baselineVersion", "revision"})
  BY DEF TypeOK, Freeze, Advance, KeepsAllBut, DrillFields
<1>2. drill'.state = "baseline_frozen" /\ drill'.baselineVersion = drill.baselineVersion + 1
  BY DEF TypeOK, Freeze, Advance, DrillFields
<1>3. drill.state = "draft"
  BY DEF TypeOK, Freeze, States, CanMove, Transitions
<1> QED
  BY <1>1, <1>2, <1>3

\* RegisterActivation replaces the evidence of a frozen drill.
LEMMA RegisterStep ==
    ASSUME TypeOK, NEW a \in Actors, NEW e \in Submissions, RegisterActivation(a, e)
    PROVE  /\ KeepsAllBut({"activation", "revision"})
           /\ drill.state = "baseline_frozen"
           /\ drill'.activation = e
<1>1. KeepsAllBut({"activation", "revision"})
  BY DEF TypeOK, RegisterActivation, Advance, KeepsAllBut, DrillFields
<1>2. drill.state = "baseline_frozen" /\ drill'.activation = e
  BY DEF TypeOK, RegisterActivation, Advance, DrillFields
<1> QED
  BY <1>1, <1>2

\* Start takes a frozen drill with evidence into the exercise.
LEMMA StartStep ==
    ASSUME TypeOK, NEW a \in Actors, Start(a)
    PROVE  /\ KeepsAllBut({"state", "revision"})
           /\ drill.state = "baseline_frozen" /\ drill'.state = "in_progress"
           /\ drill.activation # None
<1>1. KeepsAllBut({"state", "revision"})
  BY DEF TypeOK, Start, Advance, KeepsAllBut, DrillFields
<1>2. drill'.state = "in_progress" /\ drill.activation # None
  BY DEF TypeOK, Start, Advance, DrillFields
<1>3. drill.state = "baseline_frozen"
  BY DEF TypeOK, Start, States, CanMove, Transitions
<1> QED
  BY <1>1, <1>2, <1>3

\* SubmitObservation adds a record, its receipt and the findings of the rules
\* it fails, and leaves the exercise when that was the last record and a
\* finding is open.
LEMMA ObservationStep ==
    ASSUME TypeOK, NEW a \in Actors, NEW c \in DOMAIN drill.checkpoints,
           NEW at \in ObservedTimes, NEW m \in Readings, SubmitObservation(a, c, at, m)
    PROVE  /\ KeepsAllBut({"observations", "receipts", "findings", "state", "revision"})
           /\ drill.state = "in_progress"
           /\ NextCheckpoint(drill, c)
           /\ drill'.observations = drill.observations \cup {Observation("live", c, at, m)}
           /\ drill'.receipts = drill.receipts \cup {Receipt(c, m)}
           /\ drill'.findings = WithFindings(drill.findings, OpenedByRules(c, m))
           /\ drill'.state = IF MustRemediate(drill') THEN "remediation" ELSE "in_progress"
<1> DEFINE d == [drill EXCEPT
                    !.observations = @ \cup {Observation("live", c, at, m)},
                    !.receipts = @ \cup {Receipt(c, m)},
                    !.findings = WithFindings(@, OpenedByRules(c, m))]
<1>1. /\ DOMAIN d = DrillFields
      /\ \A x \in DrillFields \ {"observations", "receipts", "findings"} : d[x] = drill[x]
      /\ d.observations = drill.observations \cup {Observation("live", c, at, m)}
      /\ d.receipts = drill.receipts \cup {Receipt(c, m)}
      /\ d.findings = WithFindings(drill.findings, OpenedByRules(c, m))
  BY DEF TypeOK, DrillFields
<1>2. /\ drill.state = "in_progress" /\ NextCheckpoint(drill, c)
      /\ IF MustRemediate(d) THEN Advance([d EXCEPT !.state = "remediation"]) ELSE Advance(d)
  BY DEF SubmitObservation
<1> HIDE DEF d
<1>3. /\ KeepsAllBut({"observations", "receipts", "findings", "state", "revision"})
      /\ drill'.observations = d.observations
      /\ drill'.receipts = d.receipts
      /\ drill'.findings = d.findings
      /\ drill'.state = IF MustRemediate(d) THEN "remediation" ELSE "in_progress"
  <2>1. CASE MustRemediate(d)
    <3>1. drill' = [[d EXCEPT !.state = "remediation"] EXCEPT !.revision = @ + 1] /\ now' = now
      BY <1>2, <2>1 DEF Advance
    <3> QED
      BY <1>1, <2>1, <3>1 DEF KeepsAllBut, DrillFields
  <2>2. CASE ~MustRemediate(d)
    <3>1. drill' = [d EXCEPT !.revision = @ + 1] /\ now' = now
      BY <1>2, <2>2 DEF Advance
    <3> QED
      BY <1>1, <1>2, <2>2, <3>1 DEF KeepsAllBut, DrillFields
  <2> QED
    BY <2>1, <2>2
<1>4. MustRemediate(drill') <=> MustRemediate(d)
  BY <1>1, <1>3 DEF KeepsAllBut, DrillFields, MustRemediate, AllLiveObservationsSubmitted,
                    HasLive, OpenFindings
<1> QED
  BY <1>1, <1>2, <1>3, <1>4

\* A plan changes one finding that is not closed.
LEMMA PlanStep ==
    ASSUME TypeOK, NEW a, NEW f \in DOMAIN drill.findings, NEW cause, NEW action,
           NEW owner, NEW due, NEW reason, PlanRemediation(a, f, cause, action, owner, due, reason)
    PROVE  LET old  == drill.findings[f]
               plan == [cause |-> KeptCause(old, cause), action |-> action,
                        owner |-> owner, due |-> due, reason |-> reason]
           IN  /\ KeepsAllBut({"findings", "revision"})
               /\ drill.state = "remediation"
               /\ old.status # "closed"
               /\ action # Blank /\ owner # Blank
               /\ now < due /\ due <= drill.end
               /\ old.status = "planned" => reason # Blank
               /\ old.status # "planned" => cause # Blank
               /\ drill'.findings = [drill.findings EXCEPT ![f] = WithPlan(old, plan)]
<1> DEFINE old  == drill.findings[f]
           plan == [cause |-> KeptCause(old, cause), action |-> action,
                    owner |-> owner, due |-> due, reason |-> reason]
<1>1. /\ drill' = [[drill EXCEPT !.findings[f] = WithPlan(old, plan)]
                      EXCEPT !.revision = @ + 1]
      /\ now' = now
  BY DEF PlanRemediation, Advance
<1>2. /\ drill.state = "remediation" /\ old.status # "closed"
      /\ action # Blank /\ owner # Blank
      /\ now < due /\ due <= drill.end
      /\ old.status = "planned" => reason # Blank
      /\ old.status # "planned" => cause # Blank
  BY DEF PlanRemediation, RetestDue, Plannable
<1> HIDE DEF old, plan
<1>3. /\ KeepsAllBut({"findings", "revision"})
      /\ drill'.findings = [drill.findings EXCEPT ![f] = WithPlan(old, plan)]
  BY <1>1 DEF TypeOK, KeepsAllBut, DrillFields
<1> QED
  BY <1>2, <1>3 DEF old, plan

\* A retest is recorded and closes one planned finding.
LEMMA RetestStep ==
    ASSUME TypeOK, NEW a \in Actors, NEW f \in DOMAIN drill.findings,
           NEW at \in ObservedTimes, NEW m \in Readings, SubmitRetest(a, f, at, m)
    PROVE  LET c == drill.findings[f].checkpoint
           IN  /\ KeepsAllBut({"observations", "findings", "revision"})
               /\ drill.state = "remediation"
               /\ drill.findings[f].status = "planned"
               /\ f.rule # "REVIEW_RETURN" =>
                    /\ c \in DOMAIN drill.checkpoints
                    /\ f.rule \notin Evaluate(drill.checkpoints[c], m)
               /\ drill'.observations =
                    drill.observations \cup {Observation("retest", c, at, m)}
               /\ drill'.findings = [drill.findings EXCEPT ![f] = Close(drill.findings[f])]
<1> DEFINE c == drill.findings[f].checkpoint
<1>1. /\ drill' = [[drill EXCEPT
                      !.observations = @ \cup {Observation("retest", c, at, m)},
                      !.findings[f] = Close(@)] EXCEPT !.revision = @ + 1]
      /\ now' = now
  BY DEF SubmitRetest, Advance
<1>2. /\ drill.state = "remediation" /\ drill.findings[f].status = "planned"
      /\ f.rule # "REVIEW_RETURN" =>
           /\ c \in DOMAIN drill.checkpoints
           /\ f.rule \notin Evaluate(drill.checkpoints[c], m)
  BY DEF SubmitRetest, FailureForRule
<1> HIDE DEF c
<1>3. /\ KeepsAllBut({"observations", "findings", "revision"})
      /\ drill'.observations = drill.observations \cup {Observation("retest", c, at, m)}
      /\ drill'.findings = [drill.findings EXCEPT ![f] = Close(drill.findings[f])]
  BY <1>1 DEF TypeOK, KeepsAllBut, DrillFields
<1> QED
  BY <1>2, <1>3 DEF c

\* SubmitReview takes the snapshot of a drill with nothing open.
LEMMA SubmitReviewStep ==
    ASSUME TypeOK, NEW a \in Actors, SubmitReview(a)
    PROVE  /\ KeepsAllBut({"state", "snapshot", "revision"})
           /\ drill.state \in {"in_progress", "remediation"}
           /\ drill'.state = "pending_review"
           /\ AllLiveObservationsSubmitted(drill)
           /\ OpenFindings(drill) = {}
           /\ drill'.snapshot = MakeSnapshot(drill)
<1>1. KeepsAllBut({"state", "snapshot", "revision"})
  BY DEF TypeOK, SubmitReview, Advance, KeepsAllBut, DrillFields
<1>2. drill'.state = "pending_review" /\ drill'.snapshot = MakeSnapshot(drill)
  BY DEF TypeOK, SubmitReview, Advance, DrillFields
<1> QED
  BY <1>1, <1>2 DEF SubmitReview

\* A returned review opens findings and drops the snapshot.
LEMMA ReturnStep ==
    ASSUME TypeOK, NEW a \in Actors, NEW reason, NEW quoted, NEW returned \in Returnable,
           NEW opinions, DOMAIN opinions = returned, ReturnReview(a, reason, quoted, opinions)
    PROVE  /\ KeepsAllBut({"state", "snapshot", "findings", "reviews", "revision"})
           /\ drill.state = "pending_review" /\ drill.snapshot # NoSnapshot
           /\ drill'.state = "remediation"
           /\ a # drill.coordinator
           /\ returned # {} /\ returned \subseteq drill.snapshot.checklist
           /\ drill'.snapshot = NoSnapshot
           /\ drill'.findings = WithFindings(drill.findings, OpenedByReview(opinions))
           /\ drill'.reviews = Append(drill.reviews, ReviewRecord("returned", a, returned))
<1>1. KeepsAllBut({"state", "snapshot", "findings", "reviews", "revision"})
  BY DEF TypeOK, ReturnReview, Reopened, Advance, KeepsAllBut, DrillFields
<1>2. /\ drill'.state = "remediation" /\ drill'.snapshot = NoSnapshot
      /\ drill'.findings = WithFindings(drill.findings, OpenedByReview(opinions))
      /\ drill'.reviews = Append(drill.reviews, ReviewRecord("returned", a, returned))
  BY DEF TypeOK, ReturnReview, Reopened, Advance, DrillFields
<1>3. returned \subseteq drill.snapshot.checklist
  BY DEF Returnable
<1> QED
  BY <1>1, <1>2, <1>3 DEF ReturnReview, Decidable

\* An approved review certifies the drill.
LEMMA ApproveStep ==
    ASSUME TypeOK, NEW a \in Actors, NEW reason, NEW quoted, ApproveReview(a, reason, quoted)
    PROVE  /\ KeepsAllBut({"state", "dossier", "reviews", "revision"})
           /\ drill.state = "pending_review" /\ drill.snapshot # NoSnapshot
           /\ drill'.state = "certified"
           /\ a # drill.coordinator
           /\ drill'.dossier = [snapshot |-> drill.snapshot.revision, reviewer |-> a,
                                head |-> drill.revision,
                                passed |-> Cardinality(drill.snapshot.checklist)]
           /\ drill'.reviews = Append(drill.reviews, ReviewRecord("approved", a, {}))
<1>1. KeepsAllBut({"state", "dossier", "reviews", "revision"})
  BY DEF TypeOK, ApproveReview, Advance, KeepsAllBut, DrillFields
<1>2. /\ drill'.state = "certified"
      /\ drill'.dossier = [snapshot |-> drill.snapshot.revision, reviewer |-> a,
                           head |-> drill.revision,
                           passed |-> Cardinality(drill.snapshot.checklist)]
      /\ drill'.reviews = Append(drill.reviews, ReviewRecord("approved", a, {}))
  BY DEF TypeOK, ApproveReview, Advance, DrillFields
<1> QED
  BY <1>1, <1>2 DEF ApproveReview, Decidable

-----------------------------------------------------------------------------
(* The inductive invariant.                                                *)

\* A sequence over one set whose elements lie in another is one over that.
LEMMA SeqOver ==
    ASSUME NEW S, NEW T, NEW s \in Seq(S),
           \A i \in DOMAIN s : s[i] \in S => s[i] \in T
    PROVE  s \in Seq(T)
<1>1. Len(s) \in Nat /\ DOMAIN s = 1..Len(s) /\ s = [i \in 1..Len(s) |-> s[i]]
  OBVIOUS
<1>2. [i \in 1..Len(s) |-> s[i]] \in [1..Len(s) -> T]
  BY <1>1
<1> QED
  BY <1>1, <1>2, SeqDef

\* What appending does to a sequence's elements.
LEMMA AppendElements ==
    ASSUME NEW S, NEW s \in Seq(S), NEW e \in S
    PROVE  /\ Append(s, e) \in Seq(S)
           /\ Append(s, e) # << >>
           /\ \A p \in DOMAIN Append(s, e) :
                 Append(s, e)[p] = e \/ (p \in DOMAIN s /\ Append(s, e)[p] = s[p])
  OBVIOUS

\* A drill with finitely many receipts and findings has a finite checklist.
LEMMA FiniteChecklist ==
    ASSUME IsFiniteSet(drill.receipts), IsFiniteSet(DOMAIN drill.findings)
    PROVE  IsFiniteSet(ReviewChecklist(drill))
<1> DEFINE baseline == Item("baseline", None, None, None, None)
           audit == Item("audit", None, None, None, None)
           activation == {Item("activation", None, None, None, c) : c \in Categories}
           judgment == {Item("judgment", r.id, None, r.checkpoint, None) : r \in drill.receipts}
           remediation == {Item("remediation", None, f, drill.findings[f].checkpoint,
                                drill.findings[f].category) : f \in DOMAIN drill.findings}
<1>1. IsFiniteSet(Categories)
  <2>1. IsFiniteSet({"evacuation_route"})
    BY FS_Singleton
  <2>2. IsFiniteSet({"evacuation_route"} \cup {"communication_gear"})
    BY <2>1, FS_AddElement
  <2>3. IsFiniteSet(({"evacuation_route"} \cup {"communication_gear"}) \cup {"accessible_facility"})
    BY <2>2, FS_AddElement
  <2>4. IsFiniteSet((({"evacuation_route"} \cup {"communication_gear"}) \cup {"accessible_facility"})
                      \cup {"personnel_ready"})
    BY <2>3, FS_AddElement
  <2>5. Categories = (({"evacuation_route"} \cup {"communication_gear"}) \cup {"accessible_facility"})
                      \cup {"personnel_ready"}
    BY DEF Categories
  <2> QED
    BY <2>4, <2>5
<1>2. IsFiniteSet(activation)
  <2> DEFINE f == [c \in Categories |-> Item("activation", None, None, None, c)]
  <2>1. IsFiniteSet({f[c] : c \in Categories})
    <3>1. DOMAIN f = Categories /\ f = [c \in Categories |-> f[c]]
      OBVIOUS
    <3> HIDE DEF f
    <3> QED
      BY <1>1, <3>1, FiniteImage
  <2>2. {f[c] : c \in Categories} = activation
    OBVIOUS
  <2> QED
    BY <2>1, <2>2
<1>3. IsFiniteSet(judgment)
  <2> DEFINE f == [r \in drill.receipts |-> Item("judgment", r.id, None, r.checkpoint, None)]
  <2>1. IsFiniteSet({f[r] : r \in drill.receipts})
    <3>1. DOMAIN f = drill.receipts /\ f = [r \in drill.receipts |-> f[r]]
      OBVIOUS
    <3> HIDE DEF f
    <3> QED
      BY <3>1, FiniteImage
  <2>2. {f[r] : r \in drill.receipts} = judgment
    OBVIOUS
  <2> QED
    BY <2>1, <2>2
<1>4. IsFiniteSet(remediation)
  <2> DEFINE f == [x \in DOMAIN drill.findings |-> Item("remediation", None, x, drill.findings[x].checkpoint,
                                                    drill.findings[x].category)]
  <2>1. IsFiniteSet({f[x] : x \in DOMAIN drill.findings})
    <3>1. DOMAIN f = DOMAIN drill.findings /\ f = [x \in DOMAIN drill.findings |-> f[x]]
      OBVIOUS
    <3> HIDE DEF f
    <3> QED
      BY <3>1, FiniteImage
  <2>2. {f[x] : x \in DOMAIN drill.findings} = remediation
    OBVIOUS
  <2> QED
    BY <2>1, <2>2
<1>5. IsFiniteSet({baseline, audit})
  <2>1. IsFiniteSet({baseline} \cup {audit})
    BY FS_Singleton, FS_AddElement
  <2>2. {baseline, audit} = {baseline} \cup {audit}
    OBVIOUS
  <2> QED
    BY <2>1, <2>2
<1>6. ReviewChecklist(drill) = (({baseline, audit} \cup activation) \cup judgment) \cup remediation
  BY DEF ReviewChecklist
<1> HIDE DEF activation, judgment, remediation, baseline, audit
<1> QED
  BY <1>2, <1>3, <1>4, <1>5, <1>6, FS_Union

\* A new drill satisfies the invariant.
LEMMA InitInv == Init => IInv
<1> SUFFICES ASSUME Init PROVE IInv
  OBVIOUS
<1>1. PICK draft \in Drafts :
        /\ ValidDraft(draft)
        /\ drill = [coordinator |-> draft.coordinator, start |-> draft.start,
                    end |-> draft.end, checkpoints |-> draft.checkpoints,
                    state |-> "draft", revision |-> 1, baselineVersion |-> 0,
                    activation |-> None, observations |-> {}, receipts |-> {},
                    findings |-> << >>, snapshot |-> NoSnapshot,
                    reviews |-> << >>, dossier |-> None]
  BY DEF Init, CreatedFrom
<1>2. draft \in DraftType
  BY DraftsAssumption
<1>3. /\ DOMAIN drill = DrillFields
      /\ drill.coordinator = draft.coordinator /\ drill.checkpoints = draft.checkpoints
      /\ drill.start = draft.start /\ drill.end = draft.end
      /\ drill.state = "draft" /\ drill.revision = 1 /\ drill.baselineVersion = 0
      /\ drill.activation = None /\ drill.observations = {} /\ drill.receipts = {}
      /\ drill.findings = << >> /\ drill.snapshot = NoSnapshot
  BY <1>1 DEF DrillFields
<1>4. DOMAIN drill.findings = {}
  BY <1>3
<1>5. drill.checkpoints \in Seq(CheckpointType)
  <2>1. draft.checkpoints \in Seq(DraftCheckpoint)
    BY <1>2 DEF DraftType
  <2>2. ASSUME NEW c \in DOMAIN draft.checkpoints,
               draft.checkpoints[c] \in DraftCheckpoint
        PROVE  draft.checkpoints[c] \in CheckpointType
    <3> DEFINE cp == draft.checkpoints[c]
    <3>1. cp \in DraftCheckpoint
      BY <2>2
    <3>2. cp.limit > 0 /\ cp.capacity > 0
      BY <1>1 DEF ValidDraft
    <3> HIDE DEF cp
    <3>3. cp.limit \in Nat \ {0} /\ cp.capacity \in Nat \ {0}
      BY <3>1, <3>2 DEF DraftCheckpoint
    <3>4. cp \in CheckpointType
      BY <3>1, <3>3 DEF DraftCheckpoint, CheckpointType
    <3> QED
      BY <3>4 DEF cp
  <2> QED
    BY <1>3, <2>1, <2>2, SeqOver
<1>6. TypeOK
  <2>1. drill.coordinator \in Actors /\ drill.start \in Nat /\ drill.end \in Nat
    BY <1>2, <1>3 DEF DraftType
  <2>2. drill.state \in States
    BY <1>3 DEF States, Transitions
  <2> QED
    BY <1>3, <1>4, <1>5, <2>1, <2>2 DEF TypeOK, Init, Optional
<1>7. NothingBeforeStart /\ ActiveCanGoOn /\ ReviewedFactsAreTheFacts
  BY <1>3, <1>4 DEF NothingBeforeStart, ActiveCanGoOn, ReviewedFactsAreTheFacts
<1> QED
  BY <1>6, <1>7 DEF IInv

-----------------------------------------------------------------------------

\* A finding no step touches stays well formed while the revision grows.
LEMMA FindingStays ==
    ASSUME TypeOK, NEW f \in DOMAIN drill.findings,
           drill'.findings[f] = drill.findings[f],
           drill'.checkpoints = drill.checkpoints, drill'.end = drill.end,
           drill'.revision = drill.revision + 1
    PROVE  FindingOK(f)'
<1>1. FindingOK(f) /\ drill.revision \in Nat
  BY DEF TypeOK
<1> QED
  BY <1>1 DEF FindingOK

\* Steps that write neither records nor findings keep the facts well formed.
LEMMA TypesKept ==
    ASSUME TypeOK,
           KeepsAllBut({"state", "baselineVersion", "activation", "snapshot",
                        "reviews", "dossier", "revision"}),
           drill'.state \in States, drill'.baselineVersion \in 0..1,
           drill'.activation \in Optional(Submissions)
    PROVE  TypeOK'
<1>1. /\ now' = now /\ DOMAIN drill' = DrillFields
      /\ drill'.revision = drill.revision + 1
      /\ drill'.coordinator = drill.coordinator /\ drill'.start = drill.start
      /\ drill'.end = drill.end /\ drill'.checkpoints = drill.checkpoints
      /\ drill'.observations = drill.observations /\ drill'.receipts = drill.receipts
      /\ drill'.findings = drill.findings
  BY DEF KeepsAllBut, DrillFields
<1>2. \A f \in DOMAIN drill'.findings : FindingOK(f)'
  BY <1>1, FindingStays
<1>3. drill'.revision \in Nat \ {0} /\ drill.revision < drill'.revision
  BY <1>1 DEF TypeOK
<1>4. /\ \A o \in drill'.observations : o.id <= drill'.revision
      /\ \A r \in drill'.receipts : r.id \in 1..drill'.revision
      /\ \A r \in drill'.receipts : r.checkpoint \in DOMAIN drill'.checkpoints
  BY <1>1, <1>3 DEF TypeOK, ObservationType
<1> QED
  BY <1>1, <1>2, <1>3, <1>4 DEF TypeOK

\* The review's checklist and the open findings depend on the facts only.
LEMMA SameReview ==
    ASSUME drill'.receipts = drill.receipts, drill'.findings = drill.findings
    PROVE  /\ ReviewChecklist(drill') = ReviewChecklist(drill)
           /\ OpenFindings(drill') = OpenFindings(drill)
  BY DEF ReviewChecklist, OpenFindings

\* Freeze keeps the invariant: a draft has no version yet.
LEMMA FreezeInv ==
    ASSUME IInv, NEW a \in Actors, Freeze(a)
    PROVE  IInv'
<1>1. /\ KeepsAllBut({"state", "baselineVersion", "revision"})
      /\ drill.state = "draft" /\ drill'.state = "baseline_frozen"
      /\ drill'.baselineVersion = 1
      /\ DOMAIN drill.findings = {} /\ drill.snapshot = NoSnapshot
  BY FreezeStep DEF IInv, NothingBeforeStart, ReviewedFactsAreTheFacts
<1>2. /\ drill'.findings = drill.findings /\ drill'.snapshot = drill.snapshot
      /\ drill'.activation = drill.activation
      /\ KeepsAllBut({"state", "baselineVersion", "activation", "snapshot",
                      "reviews", "dossier", "revision"})
  BY <1>1 DEF KeepsAllBut, DrillFields
<1>3. TypeOK'
  BY <1>1, <1>2, TypesKept DEF IInv, TypeOK, States, Transitions
<1>4. NothingBeforeStart' /\ ActiveCanGoOn' /\ ReviewedFactsAreTheFacts'
  BY <1>1, <1>2 DEF NothingBeforeStart, ActiveCanGoOn, ReviewedFactsAreTheFacts
<1> QED
  BY <1>3, <1>4 DEF IInv

\* Registration keeps the invariant: the review has not begun.
LEMMA RegisterInv ==
    ASSUME IInv, NEW a \in Actors, NEW e \in Submissions, RegisterActivation(a, e)
    PROVE  IInv'
<1>1. /\ KeepsAllBut({"activation", "revision"})
      /\ drill.state = "baseline_frozen" /\ drill'.activation = e
      /\ DOMAIN drill.findings = {} /\ drill.snapshot = NoSnapshot
  BY RegisterStep DEF IInv, NothingBeforeStart, ReviewedFactsAreTheFacts
<1>2. /\ drill'.findings = drill.findings /\ drill'.snapshot = drill.snapshot
      /\ drill'.state = drill.state /\ drill'.baselineVersion = drill.baselineVersion
      /\ KeepsAllBut({"state", "baselineVersion", "activation", "snapshot",
                      "reviews", "dossier", "revision"})
  BY <1>1 DEF KeepsAllBut, DrillFields
<1>3. TypeOK'
  BY <1>1, <1>2, TypesKept DEF IInv, TypeOK, Optional
<1>4. NothingBeforeStart' /\ ActiveCanGoOn' /\ ReviewedFactsAreTheFacts'
  BY <1>1, <1>2 DEF NothingBeforeStart, ActiveCanGoOn, ReviewedFactsAreTheFacts
<1> QED
  BY <1>3, <1>4 DEF IInv

\* Start keeps the invariant: a drill that starts has no findings.
LEMMA StartInv ==
    ASSUME IInv, NEW a \in Actors, Start(a)
    PROVE  IInv'
<1>1. /\ KeepsAllBut({"state", "revision"})
      /\ drill.state = "baseline_frozen" /\ drill'.state = "in_progress"
      /\ DOMAIN drill.findings = {} /\ drill.snapshot = NoSnapshot
  BY StartStep DEF IInv, NothingBeforeStart, ReviewedFactsAreTheFacts
<1>2. /\ drill'.findings = drill.findings /\ drill'.snapshot = drill.snapshot
      /\ drill'.activation = drill.activation
      /\ drill'.baselineVersion = drill.baselineVersion
      /\ KeepsAllBut({"state", "baselineVersion", "activation", "snapshot",
                      "reviews", "dossier", "revision"})
  BY <1>1 DEF KeepsAllBut, DrillFields
<1>3. TypeOK'
  BY <1>1, <1>2, TypesKept DEF IInv, TypeOK, States, Transitions
<1>4. OpenFindings(drill') = {}
  BY <1>1, <1>2 DEF OpenFindings
<1>5. NothingBeforeStart' /\ ActiveCanGoOn' /\ ReviewedFactsAreTheFacts'
  BY <1>1, <1>2, <1>4 DEF NothingBeforeStart, ActiveCanGoOn, ReviewedFactsAreTheFacts
<1> QED
  BY <1>3, <1>5 DEF IInv

\* SubmitReview keeps the invariant: the snapshot is taken of these facts.
LEMMA SubmitReviewInv ==
    ASSUME IInv, NEW a \in Actors, SubmitReview(a)
    PROVE  IInv'
<1>1. /\ KeepsAllBut({"state", "snapshot", "revision"})
      /\ drill.state \in {"in_progress", "remediation"}
      /\ drill'.state = "pending_review"
      /\ OpenFindings(drill) = {}
      /\ drill'.snapshot = MakeSnapshot(drill)
  BY SubmitReviewStep DEF IInv
<1>2. /\ drill'.findings = drill.findings /\ drill'.receipts = drill.receipts
      /\ drill'.observations = drill.observations
      /\ drill'.activation = drill.activation
      /\ drill'.baselineVersion = drill.baselineVersion
      /\ drill'.checkpoints = drill.checkpoints
      /\ KeepsAllBut({"state", "baselineVersion", "activation", "snapshot",
                      "reviews", "dossier", "revision"})
  BY <1>1 DEF KeepsAllBut, DrillFields
<1>3. TypeOK'
  BY <1>1, <1>2, TypesKept DEF IInv, TypeOK, States, Transitions
<1>4. drill'.snapshot # NoSnapshot
  <2>1. drill'.snapshot.revision \in Nat
    BY <1>1 DEF IInv, TypeOK, MakeSnapshot, Fresh
  <2> QED
    BY <2>1, NoneAssumption DEF NoSnapshot
<1>5. /\ SameFacts(drill'.snapshot, drill')
      /\ drill'.snapshot.baseline = drill'.checkpoints
      /\ drill'.snapshot.checklist = ReviewChecklist(drill')
      /\ OpenFindings(drill') = {}
  BY <1>1, <1>2, SameReview DEF SameFacts, MakeSnapshot
<1>6. NothingBeforeStart' /\ ActiveCanGoOn' /\ ReviewedFactsAreTheFacts'
  BY <1>1, <1>4, <1>5 DEF NothingBeforeStart, ActiveCanGoOn, ReviewedFactsAreTheFacts
<1> QED
  BY <1>3, <1>6 DEF IInv

\* Approval keeps the invariant: nothing reviewed changes.
LEMMA ApproveInv ==
    ASSUME IInv, NEW a \in Actors, NEW reason, NEW quoted, ApproveReview(a, reason, quoted)
    PROVE  IInv'
<1>1. /\ KeepsAllBut({"state", "dossier", "reviews", "revision"})
      /\ drill.state = "pending_review" /\ drill.snapshot # NoSnapshot
      /\ drill'.state = "certified"
  BY ApproveStep DEF IInv
<1>2. /\ drill'.findings = drill.findings /\ drill'.receipts = drill.receipts
      /\ drill'.observations = drill.observations
      /\ drill'.activation = drill.activation
      /\ drill'.baselineVersion = drill.baselineVersion
      /\ drill'.checkpoints = drill.checkpoints
      /\ drill'.snapshot = drill.snapshot
      /\ KeepsAllBut({"state", "baselineVersion", "activation", "snapshot",
                      "reviews", "dossier", "revision"})
  BY <1>1 DEF KeepsAllBut, DrillFields
<1>3. TypeOK'
  BY <1>1, <1>2, TypesKept DEF IInv, TypeOK, States, Transitions
<1>4. /\ SameFacts(drill'.snapshot, drill')
      /\ drill'.snapshot.baseline = drill'.checkpoints
      /\ drill'.snapshot.checklist = ReviewChecklist(drill')
      /\ OpenFindings(drill') = {}
  BY <1>1, <1>2, SameReview DEF IInv, ReviewedFactsAreTheFacts, SameFacts
<1>5. NothingBeforeStart' /\ ActiveCanGoOn' /\ ReviewedFactsAreTheFacts'
  BY <1>1, <1>2, <1>4 DEF NothingBeforeStart, ActiveCanGoOn, ReviewedFactsAreTheFacts
<1> QED
  BY <1>3, <1>5 DEF IInv

-----------------------------------------------------------------------------

\* A plan leaves the finding well formed and planned.
LEMMA PlannedFinding ==
    ASSUME TypeOK, NEW f \in DOMAIN drill.findings, drill.findings[f].status # "closed",
           NEW plan \in PlanType, plan.due <= drill.end
    PROVE  LET g == WithPlan(drill.findings[f], plan) IN
           /\ g \in FindingType
           /\ g.status = "planned" /\ g.plans # << >> /\ g.retest = None
           /\ g.checkpoint = drill.findings[f].checkpoint
           /\ \A p \in DOMAIN g.plans : g.plans[p].due \in 0..drill.end
<1> DEFINE old == drill.findings[f]
           g   == WithPlan(old, plan)
<1>1. /\ old \in FindingType /\ old.retest = None
      /\ \A p \in DOMAIN old.plans : old.plans[p].due \in 0..drill.end
      /\ drill.end \in Nat
  BY DEF TypeOK, FindingOK
<1>2. /\ plan.due \in Nat /\ plan.cause \in Texts \cup {Blank}
      /\ plan.action \in Texts /\ plan.owner \in Texts
  BY DEF PlanType
<1>3. old.plans \in Seq(PlanType)
  BY <1>1 DEF FindingType
<1> HIDE DEF old
<1>4. /\ Append(old.plans, plan) \in Seq(PlanType) /\ Append(old.plans, plan) # << >>
      /\ \A p \in DOMAIN Append(old.plans, plan) :
            Append(old.plans, plan)[p].due \in 0..drill.end
  BY <1>1, <1>2, <1>3, AppendElements
<1>5. /\ g \in FindingType
      /\ g.status = "planned" /\ g.retest = old.retest
      /\ g.plans = Append(old.plans, plan) /\ g.checkpoint = old.checkpoint
  BY <1>1, <1>2, <1>4 DEF FindingType, Optional, WithPlan
<1> HIDE DEF g
<1>6. /\ g.retest = None /\ g.plans # << >>
      /\ \A p \in DOMAIN g.plans : g.plans[p].due \in 0..drill.end
  BY <1>1, <1>4, <1>5
<1> QED
  BY <1>5, <1>6 DEF g, old

\* Plans keep the invariant: they are made in remediation only.
LEMMA PlanInv ==
    ASSUME IInv, NEW a \in Actors, NEW f \in DOMAIN drill.findings, NEW due \in 0..MaxTime,
           NEW cause \in Texts \cup {Blank}, NEW action \in Texts \cup {Blank},
           NEW owner \in Texts \cup {Blank}, NEW reason \in Texts \cup {Blank},
           PlanRemediation(a, f, cause, action, owner, due, reason)
    PROVE  IInv'
<1> DEFINE plan == [cause |-> KeptCause(drill.findings[f], cause), action |-> action,
                    owner |-> owner, due |-> due, reason |-> reason]
           g    == WithPlan(drill.findings[f], plan)
<1>1. /\ KeepsAllBut({"findings", "revision"})
      /\ drill.state = "remediation" /\ drill.findings[f].status # "closed"
      /\ action # Blank /\ owner # Blank /\ due <= drill.end
      /\ drill'.findings = [drill.findings EXCEPT ![f] = g]
  <2>1. TypeOK
    BY DEF IInv
  <2> QED
    BY <2>1, PlanStep
<1>2. plan \in PlanType /\ plan.due <= drill.end
  <2>1. KeptCause(drill.findings[f], cause) \in Texts \cup {Blank}
    BY DEF IInv, TypeOK, FindingOK, FindingType, KeptCause
  <2>2. action \in Texts /\ owner \in Texts /\ due \in Nat
    BY <1>1, TimesAssumption
  <2> QED
    BY <1>1, <2>1, <2>2 DEF PlanType
<1> HIDE DEF plan
<1>3. /\ g \in FindingType
      /\ g.status = "planned" /\ g.plans # << >> /\ g.retest = None
      /\ g.checkpoint = drill.findings[f].checkpoint
      /\ \A p \in DOMAIN g.plans : g.plans[p].due \in 0..drill.end
  BY <1>1, <1>2, PlannedFinding DEF IInv
<1> HIDE DEF g
<1>4. /\ now' = now /\ DOMAIN drill' = DrillFields /\ drill'.revision = drill.revision + 1
      /\ drill'.coordinator = drill.coordinator /\ drill'.start = drill.start
      /\ drill'.end = drill.end /\ drill'.checkpoints = drill.checkpoints
      /\ drill'.state = drill.state /\ drill'.baselineVersion = drill.baselineVersion
      /\ drill'.activation = drill.activation /\ drill'.snapshot = drill.snapshot
      /\ drill'.observations = drill.observations /\ drill'.receipts = drill.receipts
  BY <1>1 DEF KeepsAllBut, DrillFields
<1>5. \A h \in DOMAIN drill'.findings : FindingOK(h)'
  <2> SUFFICES ASSUME NEW h \in DOMAIN drill'.findings PROVE FindingOK(h)'
    OBVIOUS
  <2>1. h \in DOMAIN drill.findings
    BY <1>1
  <2>2. CASE h = f
    BY <1>1, <1>3, <1>4, <2>2 DEF IInv, TypeOK, FindingOK
  <2>3. CASE h # f
    BY <1>1, <1>4, <2>1, <2>3, FindingStays DEF IInv
  <2> QED
    BY <2>2, <2>3
<1>6. TypeOK'
  <2>1. /\ \A o \in drill'.observations : o.id <= drill'.revision
        /\ \A r \in drill'.receipts : r.id \in 1..drill'.revision
        /\ \A r \in drill'.receipts : r.checkpoint \in DOMAIN drill'.checkpoints
    BY <1>4 DEF IInv, TypeOK, ObservationType
  <2> QED
    BY <1>4, <1>5, <2>1 DEF IInv, TypeOK
<1>7. NothingBeforeStart' /\ ActiveCanGoOn' /\ ReviewedFactsAreTheFacts'
  BY <1>1, <1>4 DEF IInv, NothingBeforeStart, ActiveCanGoOn, ReviewedFactsAreTheFacts
<1> QED
  BY <1>6, <1>7 DEF IInv

\* Closing a finding links the retest and changes nothing else of it.
LEMMA ClosedFinding ==
    ASSUME NEW old \in FindingType, drill.revision \in Nat
    PROVE  LET g == Close(old) IN
           /\ g \in FindingType
           /\ g.status = "closed" /\ g.retest = drill.revision + 1
           /\ g.checkpoint = old.checkpoint /\ g.plans = old.plans
           /\ g.cause = old.cause /\ g.action = old.action /\ g.owner = old.owner
<1> DEFINE r == drill.revision + 1
           g == [old EXCEPT !.status = "closed", !.retest = r]
<1>1. Close(old) = g /\ r \in Nat
  BY DEF Close, Fresh
<1> HIDE DEF r
<1>2. g \in FindingType
  BY <1>1 DEF FindingType, Optional
<1>3. /\ g.status = "closed" /\ g.retest = r
      /\ g.checkpoint = old.checkpoint /\ g.plans = old.plans
      /\ g.cause = old.cause /\ g.action = old.action /\ g.owner = old.owner
  BY DEF FindingType
<1> QED
  BY <1>1, <1>2, <1>3 DEF r

\* Retests keep the invariant: they close a planned finding in remediation only.
LEMMA RetestInv ==
    ASSUME IInv, NEW a \in Actors, NEW f \in DOMAIN drill.findings,
           NEW at \in ObservedTimes, NEW m \in Readings, SubmitRetest(a, f, at, m)
    PROVE  IInv'
<1> DEFINE c == drill.findings[f].checkpoint
           o == Observation("retest", c, at, m)
           g == Close(drill.findings[f])
<1>1. TypeOK
  BY DEF IInv
<1>2. /\ KeepsAllBut({"observations", "findings", "revision"})
      /\ drill.state = "remediation" /\ drill.findings[f].status = "planned"
      /\ drill'.observations = drill.observations \cup {o}
      /\ drill'.findings = [drill.findings EXCEPT ![f] = g]
  BY <1>1, RetestStep
<1>3. drill.findings[f] \in FindingType /\ FindingOK(f) /\ drill.revision \in Nat
  BY <1>1 DEF TypeOK, FindingOK
<1>4. o \in ObservationType /\ o.id = drill.revision + 1
  BY <1>3, TimesAssumption, ReadingsAssumption
     DEF FindingType, Observation, ObservationType, Fresh, Optional
<1>5. /\ g \in FindingType /\ g.status = "closed" /\ g.retest = drill.revision + 1
      /\ g.checkpoint = drill.findings[f].checkpoint /\ g.plans = drill.findings[f].plans
  BY <1>3, ClosedFinding
<1> HIDE DEF c, o, g
<1>6. /\ now' = now /\ DOMAIN drill' = DrillFields /\ drill'.revision = drill.revision + 1
      /\ drill'.coordinator = drill.coordinator /\ drill'.start = drill.start
      /\ drill'.end = drill.end /\ drill'.checkpoints = drill.checkpoints
      /\ drill'.state = drill.state /\ drill'.baselineVersion = drill.baselineVersion
      /\ drill'.activation = drill.activation /\ drill'.snapshot = drill.snapshot
      /\ drill'.receipts = drill.receipts
  BY <1>2 DEF KeepsAllBut, DrillFields
<1>7. \A h \in DOMAIN drill'.findings : FindingOK(h)'
  <2> SUFFICES ASSUME NEW h \in DOMAIN drill'.findings PROVE FindingOK(h)'
    OBVIOUS
  <2>1. h \in DOMAIN drill.findings
    BY <1>2
  <2>2. CASE h = f
    <3>1. drill'.findings[h] = g
      BY <1>2, <2>1, <2>2
    <3>2. g.status # "open" /\ g.plans # << >> /\ g.retest # None
      BY <1>2, <1>3, <1>5, NoneAssumption DEF FindingOK
    <3> QED
      BY <1>3, <1>5, <1>6, <2>2, <3>1, <3>2 DEF FindingOK
  <2>3. CASE h # f
    BY <1>1, <1>2, <1>6, <2>1, <2>3, FindingStays
  <2> QED
    BY <2>2, <2>3
<1>8. TypeOK'
  <2>1. /\ drill'.observations \subseteq ObservationType
        /\ \A x \in drill'.observations : x.id <= drill'.revision
    BY <1>1, <1>2, <1>3, <1>4, <1>6 DEF TypeOK, ObservationType
  <2>2. /\ \A r \in drill'.receipts : r.id \in 1..drill'.revision
        /\ \A r \in drill'.receipts : r.checkpoint \in DOMAIN drill'.checkpoints
    BY <1>1, <1>6 DEF TypeOK
  <2> QED
    BY <1>1, <1>6, <1>7, <2>1, <2>2 DEF TypeOK
<1>9. NothingBeforeStart' /\ ActiveCanGoOn' /\ ReviewedFactsAreTheFacts'
  BY <1>2, <1>6 DEF IInv, NothingBeforeStart, ActiveCanGoOn, ReviewedFactsAreTheFacts
<1> QED
  BY <1>8, <1>9 DEF IInv

\* Findings opened by a write are new, and well formed after it; the old stay.
LEMMA FindingsOpened ==
    ASSUME TypeOK, NEW opened,
           drill'.findings = WithFindings(drill.findings, opened),
           drill'.checkpoints = drill.checkpoints, drill'.end = drill.end,
           drill'.revision = drill.revision + 1,
           \A f \in DOMAIN opened :
              /\ f.opened = Fresh
              /\ f.rule \in RuleCodes \cup {"REVIEW_RETURN"}
              /\ opened[f] \in FindingType
              /\ opened[f].status = "open" /\ opened[f].plans = << >>
              /\ opened[f].retest = None
              /\ opened[f].checkpoint \in Optional(DOMAIN drill.checkpoints)
    PROVE  /\ DOMAIN drill.findings \cap DOMAIN opened = {}
           /\ DOMAIN drill'.findings = DOMAIN drill.findings \cup DOMAIN opened
           /\ \A f \in DOMAIN drill.findings : drill'.findings[f] = drill.findings[f]
           /\ \A f \in DOMAIN opened : drill'.findings[f] = opened[f]
           /\ \A f \in DOMAIN drill'.findings : FindingOK(f)'
<1>1. drill.revision \in Nat /\ drill.end \in Nat
      /\ \A f \in DOMAIN drill.findings : f.opened \in 1..drill.revision
  BY DEF TypeOK, FindingOK
<1>2. DOMAIN drill.findings \cap DOMAIN opened = {}
  BY <1>1 DEF Fresh
<1>3. /\ DOMAIN drill'.findings = DOMAIN drill.findings \cup DOMAIN opened
      /\ \A f \in DOMAIN drill.findings : drill'.findings[f] = drill.findings[f]
      /\ \A f \in DOMAIN opened : drill'.findings[f] = opened[f]
  BY <1>2 DEF WithFindings
<1>4. \A f \in DOMAIN drill.findings : FindingOK(f)'
  BY <1>3, FindingStays
<1>5. \A f \in DOMAIN opened : FindingOK(f)'
  <2> SUFFICES ASSUME NEW f \in DOMAIN opened PROVE FindingOK(f)'
    OBVIOUS
  <2>1. drill'.findings[f] = opened[f] /\ f.opened \in 1..drill'.revision
    BY <1>1, <1>3 DEF Fresh
  <2>2. DOMAIN opened[f].plans = {}
    OBVIOUS
  <2> QED
    BY <2>1, <2>2 DEF FindingOK
<1> QED
  BY <1>2, <1>3, <1>4, <1>5

\* The last record keeps the invariant by ending the exercise when it must.
LEMMA ObservationInv ==
    ASSUME IInv, NEW a \in Actors, NEW c \in DOMAIN drill.checkpoints,
           NEW at \in ObservedTimes, NEW m \in Readings, SubmitObservation(a, c, at, m)
    PROVE  IInv'
<1> DEFINE opened == OpenedByRules(c, m)
           o == Observation("live", c, at, m)
<1>1. TypeOK /\ drill.revision \in Nat /\ c \in Nat
  BY DEF IInv, TypeOK
<1>2. /\ KeepsAllBut({"observations", "receipts", "findings", "state", "revision"})
      /\ drill.state = "in_progress"
      /\ drill'.observations = drill.observations \cup {o}
      /\ drill'.receipts = drill.receipts \cup {Receipt(c, m)}
      /\ drill'.findings = WithFindings(drill.findings, opened)
      /\ drill'.state = IF MustRemediate(drill') THEN "remediation" ELSE "in_progress"
  BY <1>1, ObservationStep
<1>3. /\ now' = now /\ DOMAIN drill' = DrillFields /\ drill'.revision = drill.revision + 1
      /\ drill'.coordinator = drill.coordinator /\ drill'.start = drill.start
      /\ drill'.end = drill.end /\ drill'.checkpoints = drill.checkpoints
      /\ drill'.baselineVersion = drill.baselineVersion
      /\ drill'.activation = drill.activation /\ drill'.snapshot = drill.snapshot
  BY <1>2 DEF KeepsAllBut, DrillFields
<1>4. o \in ObservationType /\ o.id = drill.revision + 1
  BY <1>1, TimesAssumption, ReadingsAssumption
     DEF Observation, ObservationType, Fresh, Optional
<1>5. /\ Receipt(c, m).id = drill.revision + 1 /\ Receipt(c, m).checkpoint = c
  BY DEF Receipt, Fresh
<1>6. \A f \in DOMAIN opened :
        /\ f.opened = Fresh
        /\ f.rule \in RuleCodes \cup {"REVIEW_RETURN"}
        /\ opened[f] \in FindingType
        /\ opened[f].status = "open" /\ opened[f].plans = << >>
        /\ opened[f].retest = None
        /\ opened[f].checkpoint \in Optional(DOMAIN drill.checkpoints)
  <2> SUFFICES ASSUME NEW f \in DOMAIN opened
               PROVE  /\ f.opened = Fresh
                      /\ f.rule \in RuleCodes \cup {"REVIEW_RETURN"}
                      /\ opened[f] \in FindingType
                      /\ opened[f].status = "open" /\ opened[f].plans = << >>
                      /\ opened[f].retest = None
                      /\ opened[f].checkpoint \in Optional(DOMAIN drill.checkpoints)
    OBVIOUS
  <2>1. PICK r \in Evaluate(drill.checkpoints[c], m) : f = FindingId(Fresh, r, None)
    BY DEF OpenedByRules
  <2>2. f.opened = Fresh /\ f.rule = r /\ r \in RuleCodes
    BY <2>1 DEF FindingId, Evaluate
  <2>3. opened[f] = NewFinding(c, Severity(f.rule), Fresh, None, Blank)
    BY DEF OpenedByRules
  <2>4. Severity(f.rule) \in Severities /\ Fresh \in Nat
    BY <1>1 DEF Severity, Severities, Fresh
  <2> QED
    BY <1>1, <2>2, <2>3, <2>4 DEF NewFinding, FindingType, Optional
<1> HIDE DEF opened, o
<1>7. \A f \in DOMAIN drill'.findings : FindingOK(f)'
  BY <1>1, <1>2, <1>3, <1>6, FindingsOpened
<1>8. TypeOK'
  <2>1. /\ drill'.observations \subseteq ObservationType
        /\ \A x \in drill'.observations : x.id <= drill'.revision
    BY <1>1, <1>2, <1>3, <1>4 DEF TypeOK, ObservationType
  <2>2. /\ \A r \in drill'.receipts : r.id \in 1..drill'.revision
        /\ \A r \in drill'.receipts : r.checkpoint \in DOMAIN drill'.checkpoints
    BY <1>1, <1>2, <1>3, <1>5 DEF TypeOK
  <2>3. drill'.state \in States
    BY <1>2 DEF States, Transitions
  <2> QED
    BY <1>1, <1>3, <1>7, <2>1, <2>2, <2>3 DEF TypeOK
<1>9. NothingBeforeStart' /\ ActiveCanGoOn' /\ ReviewedFactsAreTheFacts'
  BY <1>2, <1>3 DEF IInv, NothingBeforeStart, ActiveCanGoOn, ReviewedFactsAreTheFacts,
                    MustRemediate
<1> QED
  BY <1>8, <1>9 DEF IInv

\* A returned review keeps the invariant: its findings name items of the
\* checklist, whose checkpoints and categories are those of the facts.
LEMMA ReturnInv ==
    ASSUME IInv, NEW a \in Actors, NEW reason, NEW quoted, NEW returned \in Returnable,
           NEW opinions \in [returned -> Texts \cup {Blank}],
           ReturnReview(a, reason, quoted, opinions)
    PROVE  IInv'
<1> DEFINE opened == OpenedByReview(opinions)
<1>1. TypeOK
  BY DEF IInv
<1>2. /\ KeepsAllBut({"state", "snapshot", "findings", "reviews", "revision"})
      /\ drill.state = "pending_review" /\ drill.snapshot # NoSnapshot
      /\ drill'.state = "remediation"
      /\ returned \subseteq drill.snapshot.checklist
      /\ drill'.snapshot = NoSnapshot
      /\ drill'.findings = WithFindings(drill.findings, opened)
  BY <1>1, ReturnStep
<1>3. /\ now' = now /\ DOMAIN drill' = DrillFields /\ drill'.revision = drill.revision + 1
      /\ drill'.coordinator = drill.coordinator /\ drill'.start = drill.start
      /\ drill'.end = drill.end /\ drill'.checkpoints = drill.checkpoints
      /\ drill'.baselineVersion = drill.baselineVersion
      /\ drill'.activation = drill.activation
      /\ drill'.observations = drill.observations /\ drill'.receipts = drill.receipts
  BY <1>2 DEF KeepsAllBut, DrillFields
<1>4. \A i \in returned : /\ i.checkpoint \in Optional(DOMAIN drill.checkpoints)
                          /\ i.category \in Optional(Categories)
  <2>1. returned \subseteq ReviewChecklist(drill)
    BY <1>2 DEF IInv, ReviewedFactsAreTheFacts
  <2>2. /\ \A r \in drill.receipts : r.checkpoint \in DOMAIN drill.checkpoints
        /\ \A f \in DOMAIN drill.findings :
              /\ drill.findings[f].checkpoint \in Optional(DOMAIN drill.checkpoints)
              /\ drill.findings[f].category \in Optional(Categories)
    BY <1>1 DEF TypeOK, FindingOK, FindingType
  <2> QED
    BY <2>1, <2>2 DEF ReviewChecklist, Item, Optional
<1>5. \A f \in DOMAIN opened :
        /\ f.opened = Fresh
        /\ f.rule \in RuleCodes \cup {"REVIEW_RETURN"}
        /\ opened[f] \in FindingType
        /\ opened[f].status = "open" /\ opened[f].plans = << >>
        /\ opened[f].retest = None
        /\ opened[f].checkpoint \in Optional(DOMAIN drill.checkpoints)
  <2> SUFFICES ASSUME NEW f \in DOMAIN opened
               PROVE  /\ f.opened = Fresh
                      /\ f.rule \in RuleCodes \cup {"REVIEW_RETURN"}
                      /\ opened[f] \in FindingType
                      /\ opened[f].status = "open" /\ opened[f].plans = << >>
                      /\ opened[f].retest = None
                      /\ opened[f].checkpoint \in Optional(DOMAIN drill.checkpoints)
    OBVIOUS
  <2>1. PICK i \in returned : f = FindingId(Fresh, "REVIEW_RETURN", i)
    BY DEF OpenedByReview
  <2>2. f.opened = Fresh /\ f.rule = "REVIEW_RETURN" /\ f.item = i
    BY <2>1 DEF FindingId
  <2>3. opened[f] = NewFinding(f.item.checkpoint, "major", None, f.item.category, opinions[f.item])
    BY DEF OpenedByReview
  <2>4. /\ f.item.checkpoint \in Optional(DOMAIN drill.checkpoints)
        /\ f.item.checkpoint \in Optional(Nat)
        /\ f.item.category \in Optional(Categories)
        /\ opinions[f.item] \in Texts \cup {Blank}
    BY <1>1, <1>4, <2>2 DEF TypeOK, Optional
  <2> QED
    BY <2>2, <2>3, <2>4 DEF NewFinding, FindingType, Optional, Severities
<1> HIDE DEF opened
<1>6. \A f \in DOMAIN drill'.findings : FindingOK(f)'
  BY <1>1, <1>2, <1>3, <1>5, FindingsOpened
<1>7. TypeOK'
  <2>1. /\ \A x \in drill'.observations : x.id <= drill'.revision
        /\ \A r \in drill'.receipts : r.id \in 1..drill'.revision
        /\ \A r \in drill'.receipts : r.checkpoint \in DOMAIN drill'.checkpoints
    BY <1>1, <1>3 DEF TypeOK, ObservationType
  <2>2. drill'.state \in States
    BY <1>2 DEF States, Transitions
  <2> QED
    BY <1>1, <1>3, <1>6, <2>1, <2>2 DEF TypeOK
<1>8. NothingBeforeStart' /\ ActiveCanGoOn' /\ ReviewedFactsAreTheFacts'
  BY <1>2 DEF NothingBeforeStart, ActiveCanGoOn, ReviewedFactsAreTheFacts
<1> QED
  BY <1>7, <1>8 DEF IInv

\* The clock is no part of the facts.
LEMMA TickInv ==
    ASSUME IInv, Tick
    PROVE  IInv'
<1>1. drill' = drill /\ now' \in 0..MaxTime
  BY TimesAssumption DEF Tick, IInv, TypeOK
<1>2. \A f \in DOMAIN drill.findings : FindingOK(f)'
  BY <1>1 DEF IInv, TypeOK, FindingOK
<1>3. TypeOK'
  BY <1>1, <1>2 DEF IInv, TypeOK
<1>4. NothingBeforeStart' /\ ActiveCanGoOn' /\ ReviewedFactsAreTheFacts'
  BY <1>1 DEF IInv, NothingBeforeStart, ActiveCanGoOn, ReviewedFactsAreTheFacts
<1> QED
  BY <1>3, <1>4 DEF IInv

\* Every step keeps the invariant.
LEMMA NextInv == IInv /\ [Next]_vars => IInv'
<1> SUFFICES ASSUME IInv, [Next]_vars PROVE IInv'
  OBVIOUS
<1>1. ASSUME NEW a \in Actors, Freeze(a) PROVE IInv'
  BY <1>1, FreezeInv
<1>2. ASSUME NEW a \in Actors, Start(a) PROVE IInv'
  BY <1>2, StartInv
<1>3. ASSUME NEW a \in Actors, SubmitReview(a) PROVE IInv'
  BY <1>3, SubmitReviewInv
<1>4. ASSUME NEW a \in Actors, NEW e \in Submissions, RegisterActivation(a, e) PROVE IInv'
  BY <1>4, RegisterInv
<1>5. ASSUME NEW a \in Actors, NEW c \in DOMAIN drill.checkpoints, NEW at \in ObservedTimes,
             NEW m \in Readings, SubmitObservation(a, c, at, m)
      PROVE  IInv'
  BY <1>5, ObservationInv
<1>6. ASSUME NEW a \in Actors, NEW f \in DOMAIN drill.findings, NEW due \in 0..MaxTime,
             NEW cause \in Texts \cup {Blank}, NEW action \in Texts \cup {Blank},
             NEW owner \in Texts \cup {Blank}, NEW reason \in Texts \cup {Blank},
             PlanRemediation(a, f, cause, action, owner, due, reason)
      PROVE  IInv'
  BY <1>6, PlanInv
<1>7. ASSUME NEW a \in Actors, NEW f \in DOMAIN drill.findings, NEW at \in ObservedTimes,
             NEW m \in Readings, SubmitRetest(a, f, at, m)
      PROVE  IInv'
  BY <1>7, RetestInv
<1>8. ASSUME NEW a \in Actors, NEW reason \in Texts \cup {Blank},
             NEW quoted \in {None} \cup 1..MaxRevision, ApproveReview(a, reason, quoted)
      PROVE  IInv'
  BY <1>8, ApproveInv
<1>9. ASSUME NEW a \in Actors, NEW reason \in Texts \cup {Blank},
             NEW quoted \in {None} \cup 1..MaxRevision, NEW returned \in Returnable,
             NEW opinions \in [returned -> Texts \cup {Blank}],
             ReturnReview(a, reason, quoted, opinions)
      PROVE  IInv'
  BY <1>9, ReturnInv
<1>10. CASE Tick
  BY <1>10, TickInv
<1>11. CASE UNCHANGED vars
  <2>1. drill' = drill /\ now' = now
    BY <1>11 DEF vars
  <2> QED
    BY <2>1 DEF IInv, TypeOK, FindingOK, NothingBeforeStart, ActiveCanGoOn,
                ReviewedFactsAreTheFacts
<1> QED
  BY <1>1, <1>2, <1>3, <1>4, <1>5, <1>6, <1>7, <1>8, <1>9, <1>10, <1>11 DEF Next

\* The invariant holds of every reachable state.
LEMMA Invariant == Spec => []IInv
  BY InitInv, NextInv, PTL DEF Spec

-----------------------------------------------------------------------------

\* Whatever is sent in whatever order, the stored aggregate is well formed:
\* a finding is closed exactly with its retest on file and planned exactly
\* with its plans on file, and points at a checkpoint of the frozen baseline.
THEOREM TypeCorrect == Spec => []TypeOK
<1>1. IInv => TypeOK
  BY DEF IInv
<1> QED
  BY <1>1, Invariant, PTL

\* A drill in progress can always go on: its last record sends it to
\* remediation when a finding is open, so that no drill is stuck in the
\* exercise with findings that can be neither planned nor reviewed.
THEOREM ActiveGoesOn == Spec => []ActiveCanGoOn
<1>1. IInv => ActiveCanGoOn
  BY DEF IInv
<1> QED
  BY <1>1, Invariant, PTL

\* What a reviewer decides on, and what a certificate was issued for, is what
\* the drill holds, with nothing open and an item for everything on file.
THEOREM ReviewIsOfTheFacts == Spec => []ReviewedFactsAreTheFacts
<1>1. IInv => ReviewedFactsAreTheFacts
  BY DEF IInv
<1> QED
  BY <1>1, Invariant, PTL

-----------------------------------------------------------------------------
(* Every step of a drill is a step of the gate or leaves it alone.         *)

\* What the gate sees of a drill whose facts are not written.
LEMMA GateUntouched ==
    ASSUME drill'.observations = drill.observations, drill'.findings = drill.findings,
           drill'.checkpoints = drill.checkpoints
    PROVE  /\ Unrecorded(drill') = Unrecorded(drill)
           /\ DOMAIN drill'.findings = DOMAIN drill.findings
           /\ Closed(drill') = Closed(drill)
  BY DEF Unrecorded, HasLive, Closed

\* All checkpoints have their record exactly when the gate has none remaining,
\* and nothing is open exactly when all that was raised is resolved.
LEMMA GateCounts ==
    /\ AllLiveObservationsSubmitted(drill) => Unrecorded(drill) = {}
    /\ OpenFindings(drill) = {} <=> DOMAIN drill.findings = Closed(drill)
  BY DEF AllLiveObservationsSubmitted, Unrecorded, OpenFindings, Closed

\* A new drill is a new gate: a valid draft has a checkpoint to record.
LEMMA GateInit == Init => Gate!Init
<1> SUFFICES ASSUME Init PROVE Gate!Init
  OBVIOUS
<1>1. PICK draft \in Drafts :
        /\ ValidDraft(draft)
        /\ drill = [coordinator |-> draft.coordinator, start |-> draft.start,
                    end |-> draft.end, checkpoints |-> draft.checkpoints,
                    state |-> "draft", revision |-> 1, baselineVersion |-> 0,
                    activation |-> None, observations |-> {}, receipts |-> {},
                    findings |-> << >>, snapshot |-> NoSnapshot,
                    reviews |-> << >>, dossier |-> None]
  BY DEF Init, CreatedFrom
<1>2. /\ drill.state = "draft" /\ drill.observations = {} /\ drill.findings = << >>
      /\ drill.checkpoints = draft.checkpoints /\ draft.checkpoints # << >>
      /\ draft.checkpoints \in Seq(DraftCheckpoint)
  BY <1>1, DraftsAssumption DEF ValidDraft, DraftType
<1>3. 1 \in DOMAIN drill.checkpoints
  BY <1>2
<1>4. Unrecorded(drill) # {}
  BY <1>2, <1>3 DEF Unrecorded, HasLive
<1>5. DOMAIN drill.findings = {} /\ Closed(drill) = {}
  BY <1>2 DEF Closed
<1> QED
  BY <1>2, <1>4, <1>5 DEF Gate!Init

\* Freeze is the gate's; registration is no step of it; Start is the gate's.
LEMMA GateBegins ==
    ASSUME TypeOK, NEW a \in Actors
    PROVE  /\ Freeze(a) => Gate!Freeze
           /\ Start(a) => Gate!Start
           /\ \A e \in Submissions : RegisterActivation(a, e) => UNCHANGED Gate!vars
<1>1. ASSUME Freeze(a) PROVE Gate!Freeze
  <2>1. /\ drill.state = "draft" /\ drill'.state = "baseline_frozen"
        /\ KeepsAllBut({"state", "baselineVersion", "revision"})
    BY <1>1, FreezeStep
  <2> QED
    BY <2>1, GateUntouched DEF KeepsAllBut, DrillFields, Gate!Freeze, Gate!Move
<1>2. ASSUME Start(a) PROVE Gate!Start
  <2>1. /\ drill.state = "baseline_frozen" /\ drill'.state = "in_progress"
        /\ KeepsAllBut({"state", "revision"})
    BY <1>2, StartStep
  <2> QED
    BY <2>1, GateUntouched DEF KeepsAllBut, DrillFields, Gate!Start, Gate!Move
<1>3. ASSUME NEW e \in Submissions, RegisterActivation(a, e) PROVE UNCHANGED Gate!vars
  <2>1. KeepsAllBut({"activation", "revision"})
    BY <1>3, RegisterStep
  <2> QED
    BY <2>1, GateUntouched DEF KeepsAllBut, DrillFields, Gate!vars
<1> QED
  BY <1>1, <1>2, <1>3

\* Recording a checkpoint raises an issue per failed rule, and ends the
\* exercise just when the gate does.
LEMMA GateRecords ==
    ASSUME IInv, NEW a \in Actors, NEW c \in DOMAIN drill.checkpoints,
           NEW at \in ObservedTimes, NEW m \in Readings, SubmitObservation(a, c, at, m)
    PROVE  Gate!Record
<1> DEFINE opened == OpenedByRules(c, m)
           o == Observation("live", c, at, m)
<1>1. /\ KeepsAllBut({"observations", "receipts", "findings", "state", "revision"})
      /\ drill.state = "in_progress" /\ NextCheckpoint(drill, c)
      /\ drill'.observations = drill.observations \cup {o}
      /\ drill'.findings = WithFindings(drill.findings, opened)
      /\ drill'.state = IF MustRemediate(drill') THEN "remediation" ELSE "in_progress"
  BY ObservationStep DEF IInv
<1>2. drill'.checkpoints = drill.checkpoints
  BY <1>1 DEF KeepsAllBut, DrillFields
<1>3. o.kind = "live" /\ o.checkpoint = c
  BY DEF Observation
<1>4. \A f \in DOMAIN opened : f.opened = Fresh /\ opened[f].status = "open"
  BY DEF OpenedByRules, FindingId, NewFinding
<1>5. \A f \in DOMAIN drill.findings : f.opened # Fresh
  BY DEF IInv, TypeOK, FindingOK, Fresh
<1> HIDE DEF opened, o
<1>6. /\ DOMAIN drill'.findings = DOMAIN drill.findings \cup DOMAIN opened
      /\ \A f \in DOMAIN drill.findings : drill'.findings[f] = drill.findings[f]
      /\ \A f \in DOMAIN opened : drill'.findings[f] = opened[f]
  BY <1>1, <1>4, <1>5 DEF WithFindings
<1>7. c \in Unrecorded(drill) /\ Unrecorded(drill') = Unrecorded(drill) \ {c}
  BY <1>1, <1>2, <1>3 DEF Unrecorded, HasLive, NextCheckpoint
<1>8. Closed(drill') = Closed(drill)
  BY <1>4, <1>5, <1>6 DEF Closed
<1>9. MustRemediate(drill') <=> Unrecorded(drill') = {} /\ DOMAIN drill'.findings # Closed(drill)
  <2>1. AllLiveObservationsSubmitted(drill') <=> Unrecorded(drill') = {}
    BY <1>2 DEF AllLiveObservationsSubmitted, Unrecorded
  <2>2. OpenFindings(drill') = {} <=> DOMAIN drill'.findings = Closed(drill')
    BY DEF OpenFindings, Closed
  <2> QED
    BY <1>8, <2>1, <2>2 DEF MustRemediate
<1> QED
  BY <1>1, <1>6, <1>7, <1>8, <1>9 DEF Gate!Record

\* A plan is no step of the gate.
LEMMA GatePlans ==
    ASSUME TypeOK, NEW a, NEW f \in DOMAIN drill.findings, NEW cause, NEW action,
           NEW owner, NEW due, NEW reason,
           PlanRemediation(a, f, cause, action, owner, due, reason)
    PROVE  UNCHANGED Gate!vars
<1> DEFINE plan == [cause |-> KeptCause(drill.findings[f], cause), action |-> action,
                    owner |-> owner, due |-> due, reason |-> reason]
           g    == WithPlan(drill.findings[f], plan)
<1>1. /\ KeepsAllBut({"findings", "revision"})
      /\ drill.findings[f].status # "closed"
      /\ drill'.findings = [drill.findings EXCEPT ![f] = g]
  BY PlanStep
<1>2. g.status = "planned"
  BY DEF WithPlan, TypeOK, FindingOK, FindingType
<1> HIDE DEF g
<1>3. /\ drill'.state = drill.state /\ drill'.checkpoints = drill.checkpoints
      /\ drill'.observations = drill.observations
  BY <1>1 DEF KeepsAllBut, DrillFields
<1>4. DOMAIN drill'.findings = DOMAIN drill.findings /\ Closed(drill') = Closed(drill)
  BY <1>1, <1>2 DEF Closed
<1>5. Unrecorded(drill') = Unrecorded(drill)
  BY <1>3 DEF Unrecorded, HasLive
<1> QED
  BY <1>3, <1>4, <1>5 DEF Gate!vars

\* A retest resolves the issue of its finding, and records no checkpoint.
LEMMA GateResolves ==
    ASSUME IInv, NEW a \in Actors, NEW f \in DOMAIN drill.findings,
           NEW at \in ObservedTimes, NEW m \in Readings, SubmitRetest(a, f, at, m)
    PROVE  Gate!Resolve
<1> DEFINE o == Observation("retest", drill.findings[f].checkpoint, at, m)
           g == Close(drill.findings[f])
<1>1. /\ KeepsAllBut({"observations", "findings", "revision"})
      /\ drill.state = "remediation" /\ drill.findings[f].status = "planned"
      /\ drill'.observations = drill.observations \cup {o}
      /\ drill'.findings = [drill.findings EXCEPT ![f] = g]
  BY RetestStep DEF IInv
<1>2. g.status = "closed"
  BY ClosedFinding DEF IInv, TypeOK, FindingOK
<1>3. o.kind = "retest"
  BY DEF Observation
<1> HIDE DEF o, g
<1>4. drill'.state = drill.state /\ drill'.checkpoints = drill.checkpoints
  BY <1>1 DEF KeepsAllBut, DrillFields
<1>5. Unrecorded(drill') = Unrecorded(drill)
  BY <1>1, <1>3, <1>4 DEF Unrecorded, HasLive
<1>6. /\ DOMAIN drill'.findings = DOMAIN drill.findings
      /\ f \in DOMAIN drill.findings \ Closed(drill)
      /\ Closed(drill') = Closed(drill) \cup {f}
  BY <1>1, <1>2 DEF Closed
<1> QED
  BY <1>1, <1>4, <1>5, <1>6 DEF Gate!Resolve

\* Submission and approval are the gate's.
LEMMA GateDecides ==
    ASSUME TypeOK, NEW a \in Actors
    PROVE  /\ SubmitReview(a) => Gate!Submit
           /\ \A reason, quoted : ApproveReview(a, reason, quoted) => Gate!Approve
<1>1. ASSUME SubmitReview(a) PROVE Gate!Submit
  <2>1. /\ drill.state \in {"in_progress", "remediation"}
        /\ drill'.state = "pending_review"
        /\ AllLiveObservationsSubmitted(drill) /\ OpenFindings(drill) = {}
        /\ KeepsAllBut({"state", "snapshot", "revision"})
    BY <1>1, SubmitReviewStep
  <2>2. Unrecorded(drill) = {} /\ DOMAIN drill.findings = Closed(drill)
    BY <2>1, GateCounts
  <2> QED
    BY <2>1, <2>2, GateUntouched DEF KeepsAllBut, DrillFields, Gate!Submit
<1>2. ASSUME NEW reason, NEW quoted, ApproveReview(a, reason, quoted) PROVE Gate!Approve
  <2>1. /\ drill.state = "pending_review" /\ drill'.state = "certified"
        /\ KeepsAllBut({"state", "dossier", "reviews", "revision"})
    BY <1>2, ApproveStep
  <2> QED
    BY <2>1, GateUntouched DEF KeepsAllBut, DrillFields, Gate!Approve, Gate!Move
<1> QED
  BY <1>1, <1>2

\* A returned review raises at least one new issue.
LEMMA GateReturns ==
    ASSUME TypeOK, NEW a \in Actors, NEW reason, NEW quoted, NEW returned \in Returnable,
           NEW opinions, DOMAIN opinions = returned, ReturnReview(a, reason, quoted, opinions)
    PROVE  Gate!Return
<1> DEFINE opened == OpenedByReview(opinions)
<1>1. /\ KeepsAllBut({"state", "snapshot", "findings", "reviews", "revision"})
      /\ drill.state = "pending_review" /\ drill'.state = "remediation"
      /\ returned # {}
      /\ drill'.findings = WithFindings(drill.findings, opened)
  BY ReturnStep
<1>2. \A f \in DOMAIN opened : f.opened = Fresh /\ opened[f].status = "open"
  BY DEF OpenedByReview, FindingId, NewFinding
<1>3. DOMAIN opened # {}
  BY <1>1 DEF OpenedByReview
<1>4. \A f \in DOMAIN drill.findings : f.opened # Fresh
  BY DEF TypeOK, FindingOK, Fresh
<1> HIDE DEF opened
<1>5. /\ DOMAIN drill'.findings = DOMAIN drill.findings \cup DOMAIN opened
      /\ \A f \in DOMAIN drill.findings : drill'.findings[f] = drill.findings[f]
      /\ \A f \in DOMAIN opened : drill'.findings[f] = opened[f]
  BY <1>1, <1>2, <1>4 DEF WithFindings
<1>6. /\ DOMAIN drill.findings \subseteq DOMAIN drill'.findings
      /\ DOMAIN drill.findings # DOMAIN drill'.findings
  BY <1>2, <1>3, <1>4, <1>5
<1>7. Closed(drill') = Closed(drill)
  BY <1>2, <1>4, <1>5 DEF Closed
<1>8. Unrecorded(drill') = Unrecorded(drill)
  BY <1>1 DEF KeepsAllBut, DrillFields, Unrecorded, HasLive
<1> QED
  BY <1>1, <1>6, <1>7, <1>8 DEF Gate!Return, Gate!Move

-----------------------------------------------------------------------------

\* Every step of a drill is a step of the gate, or leaves it alone.
LEMMA GateNext == IInv /\ [Next]_vars => [Gate!Next]_(Gate!vars)
<1> SUFFICES ASSUME IInv, [Next]_vars PROVE [Gate!Next]_(Gate!vars)
  OBVIOUS
<1> USE DEF Gate!Next
<1>0. TypeOK
  BY DEF IInv
<1>1. ASSUME NEW a \in Actors, Freeze(a) PROVE Gate!Next
  BY <1>0, <1>1, GateBegins
<1>2. ASSUME NEW a \in Actors, Start(a) PROVE Gate!Next
  BY <1>0, <1>2, GateBegins
<1>3. ASSUME NEW a \in Actors, SubmitReview(a) PROVE Gate!Next
  BY <1>0, <1>3, GateDecides
<1>4. ASSUME NEW a \in Actors, NEW e \in Submissions, RegisterActivation(a, e)
      PROVE  UNCHANGED Gate!vars
  BY <1>0, <1>4, GateBegins
<1>5. ASSUME NEW a \in Actors, NEW c \in DOMAIN drill.checkpoints, NEW at \in ObservedTimes,
             NEW m \in Readings, SubmitObservation(a, c, at, m)
      PROVE  Gate!Next
  BY <1>5, GateRecords
<1>6. ASSUME NEW a \in Actors, NEW f \in DOMAIN drill.findings, NEW due \in 0..MaxTime,
             NEW cause \in Texts \cup {Blank}, NEW action \in Texts \cup {Blank},
             NEW owner \in Texts \cup {Blank}, NEW reason \in Texts \cup {Blank},
             PlanRemediation(a, f, cause, action, owner, due, reason)
      PROVE  UNCHANGED Gate!vars
  BY <1>0, <1>6, GatePlans
<1>7. ASSUME NEW a \in Actors, NEW f \in DOMAIN drill.findings, NEW at \in ObservedTimes,
             NEW m \in Readings, SubmitRetest(a, f, at, m)
      PROVE  Gate!Next
  BY <1>7, GateResolves
<1>8. ASSUME NEW a \in Actors, NEW reason \in Texts \cup {Blank},
             NEW quoted \in {None} \cup 1..MaxRevision, ApproveReview(a, reason, quoted)
      PROVE  Gate!Next
  BY <1>0, <1>8, GateDecides
<1>9. ASSUME NEW a \in Actors, NEW reason \in Texts \cup {Blank},
             NEW quoted \in {None} \cup 1..MaxRevision, NEW returned \in Returnable,
             NEW opinions \in [returned -> Texts \cup {Blank}],
             ReturnReview(a, reason, quoted, opinions)
      PROVE  Gate!Next
  BY <1>0, <1>9, GateReturns
<1>10. CASE Tick
  BY <1>10, GateUntouched DEF Tick, Gate!vars
<1>11. CASE UNCHANGED vars
  BY <1>11, GateUntouched DEF vars, Gate!vars
<1> QED
  BY <1>1, <1>2, <1>3, <1>4, <1>5, <1>6, <1>7, <1>8, <1>9, <1>10, <1>11 DEF Next

\* DrillWorkflow implements ReadinessGate: whatever the requests and the clock,
\* a certificate is issued only with everything recorded and resolved.
THEOREM WorkflowImplementsGate == Spec => ImplementsGate
  BY GateInit, GateNext, Invariant, PTL DEF Spec, ImplementsGate, Gate!Spec
=============================================================================
