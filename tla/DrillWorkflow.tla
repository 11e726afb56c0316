--------------------------- MODULE DrillWorkflow ---------------------------
(***************************************************************************)
(* One drill from its creation to its certification: the use cases of      *)
(* internal/workflow over the aggregate of internal/domain, each taken as  *)
(* one atomic step.  What several handlers running at once do to the store *)
(* is the subject of DrillService.                                         *)
(*                                                                         *)
(* Every accepted write adds one to the revision, so the revision a write  *)
(* produces stands for the fresh identifier newID draws in that write: it  *)
(* names the observation and its receipt, and a finding is named by the    *)
(* revision that opened it with its rule and review item.                  *)
(***************************************************************************)
EXTENDS Naturals, FiniteSets, Sequences, DrillRules

CONSTANTS
    Actors,             \* people who send requests
    Drafts,             \* drafts somebody tries to create
    Submissions,        \* activation evidence somebody tries to register
    Readings,           \* metrics an observer may report
    ObservedTimes,      \* observed_at values an observer may report
    Texts,              \* non-blank free texts
    Blank,              \* text that TrimSpace reduces to nothing
    None,               \* an absent optional field
    MaxTime,            \* bound: the clock stops here
    MaxRevision,        \* bound: writes to the drill
    MaxRegistrations,   \* bound: registrations of evidence
    MaxPlans,           \* bound: plan versions of one finding
    MaxReturned         \* bound: items one review returns

\* ActivationRecords lists these four categories.
Categories == {"evacuation_route", "communication_gear",
               "accessible_facility", "personnel_ready"}

EvidenceType == [collected : Nat, until : Nat, digest : Nat]

\* A checkpoint as a client sends it, before ValidateDraft.
DraftCheckpoint == [limit : Int, capacity : Int, comm : BOOLEAN, access : BOOLEAN]

DraftType == [coordinator : Actors, start : Nat, end : Nat,
              checkpoints : Seq(DraftCheckpoint)]

ASSUME DraftsAssumption == Drafts \subseteq DraftType
ASSUME SubmissionsAssumption == Submissions \subseteq [Categories -> EvidenceType]
ASSUME ReadingsAssumption == Readings \subseteq MetricsType
ASSUME TimesAssumption == ObservedTimes \subseteq Nat /\ MaxTime \in Nat
ASSUME BoundsAssumption ==
    /\ MaxRevision \in Nat /\ MaxRegistrations \in Nat
    /\ MaxPlans \in Nat /\ MaxReturned \in Nat
ASSUME TextsAssumption == Blank \notin Texts
ASSUME NoneAssumption == None \notin Nat /\ None \notin Submissions

VARIABLES
    drill,  \* the aggregate domain.DrillCase
    now     \* the service's clock, s.now()

vars == <<drill, now>>

-----------------------------------------------------------------------------
(* Reading the aggregate: internal/domain/state.go and validation.go.      *)

Transitions ==
    [draft           |-> {"baseline_frozen"},
     baseline_frozen |-> {"in_progress"},
     in_progress     |-> {"remediation", "pending_review"},
     remediation     |-> {"pending_review"},
     pending_review  |-> {"remediation", "certified"},
     certified       |-> {}]

CanMove(next) == next \in Transitions[drill.state]

ValidDraft(d) ==
    /\ d.end > d.start
    /\ d.checkpoints # << >>
    /\ \A c \in DOMAIN d.checkpoints :
          d.checkpoints[c].limit > 0 /\ d.checkpoints[c].capacity > 0

\* Registration and start check this much of the evidence; the clock is not
\* part of it.
ValidActivation(evidence, start) ==
    /\ \A c \in Categories : /\ evidence[c].collected <= evidence[c].until
                             /\ evidence[c].until >= start
    /\ \A b, c \in Categories : evidence[b].digest = evidence[c].digest => b = c

\* activationStatuses: nothing registered has expired.
NotExpired(evidence) == \A c \in Categories : now <= evidence[c].until

HasLive(d, c) == \E o \in d.observations : o.kind = "live" /\ o.checkpoint = c

\* Mutated form of NextCheckpoint: any checkpoint without a record.
AnyCheckpoint(d, c) == ~HasLive(d, c)

NextCheckpoint(d, c) ==
    ~HasLive(d, c) /\ \A b \in 1..(c - 1) : HasLive(d, b)

AllLiveObservationsSubmitted(d) ==
    d.checkpoints # << >> /\ \A c \in DOMAIN d.checkpoints : HasLive(d, c)

\* Mutated form of OpenFindings: planned ones forgotten.
UnplannedFindings(d) == {f \in DOMAIN d.findings : d.findings[f].status = "open"}

\* OpenFindings: those not closed, planned ones included.
OpenFindings(d) == {f \in DOMAIN d.findings : d.findings[f].status # "closed"}

HasOpenCriticalFinding(d) ==
    \E f \in OpenFindings(d) : d.findings[f].severity = "critical"

\* Mutated form of MustRemediate: major findings forgotten.
MustRemediateCritical(d) == AllLiveObservationsSubmitted(d) /\ HasOpenCriticalFinding(d)

\* After the last record anything open sends the drill to remediation.
MustRemediate(d) == AllLiveObservationsSubmitted(d) /\ OpenFindings(d) # {}

InWindow(at) == drill.start <= at /\ at <= drill.end

-----------------------------------------------------------------------------
(* Identifiers and records.                                                *)

\* A drill without a snapshot: a stored snapshot has a revision.
NoSnapshot == [revision |-> None]

Fresh == drill.revision + 1

FindingId(opened, rule, item) == [opened |-> opened, rule |-> rule, item |-> item]

NewFinding(checkpoint, severity, receipt, category, cause) ==
    [checkpoint |-> checkpoint, severity |-> severity, status |-> "open",
     receipt |-> receipt, category |-> category, cause |-> cause,
     action |-> Blank, owner |-> Blank, due |-> None, retest |-> None,
     plans |-> << >>]

Observation(kind, checkpoint, at, m) ==
    [id |-> Fresh, checkpoint |-> checkpoint, kind |-> kind, at |-> at, metrics |-> m]

\* The receipt of the observation recorded in the same write.
Receipt(c, m) ==
    [id |-> Fresh, checkpoint |-> c, observation |-> Fresh,
     items |-> BuildJudgmentReceipt(drill.checkpoints[c], m)]

\* One finding per rule the observation of checkpoint c fails.
OpenedByRules(c, m) ==
    [f \in {FindingId(Fresh, r, None) : r \in Evaluate(drill.checkpoints[c], m)} |->
        NewFinding(c, Severity(f.rule), Fresh, None, Blank)]

\* One finding per returned item, the reviewer's opinion of it the cause.
OpenedByReview(opinions) ==
    [f \in {FindingId(Fresh, "REVIEW_RETURN", i) : i \in DOMAIN opinions} |->
        NewFinding(f.item.checkpoint, "major", None, f.item.category, opinions[f.item])]

\* Appending findings: opened[f] is the new record for f \in DOMAIN opened.
WithFindings(findings, opened) ==
    [f \in DOMAIN findings \cup DOMAIN opened |->
        IF f \in DOMAIN findings THEN findings[f] ELSE opened[f]]

Item(kind, receipt, finding, checkpoint, category) ==
    [kind |-> kind, receipt |-> receipt, finding |-> finding,
     checkpoint |-> checkpoint, category |-> category]

\* buildReviewChecklist
ReviewChecklist(d) ==
    {Item("baseline", None, None, None, None),
     Item("audit", None, None, None, None)}
    \cup {Item("activation", None, None, None, c) : c \in Categories}
    \cup {Item("judgment", r.id, None, r.checkpoint, None) : r \in d.receipts}
    \cup {Item("remediation", None, f, d.findings[f].checkpoint,
               d.findings[f].category) : f \in DOMAIN d.findings}

\* makeSnapshot: deep copies of the facts, and the revision it is stored at.
MakeSnapshot(d) ==
    [revision |-> Fresh, baselineVersion |-> d.baselineVersion,
     baseline |-> d.checkpoints, activation |-> d.activation,
     observations |-> d.observations, receipts |-> d.receipts,
     findings |-> d.findings, checklist |-> ReviewChecklist(d)]

\* advance: every accepted write adds one to the revision.
Advance(d) ==
    /\ drill.revision < MaxRevision
    /\ drill' = [d EXCEPT !.revision = @ + 1]
    /\ UNCHANGED now

-----------------------------------------------------------------------------
(* The use cases.  A request that fails a guard changes nothing.           *)

CreatedFrom(draft) ==
    [coordinator |-> draft.coordinator, start |-> draft.start,
     end |-> draft.end, checkpoints |-> draft.checkpoints,
     state |-> "draft", revision |-> 1, baselineVersion |-> 0,
     activation |-> None, observations |-> {}, receipts |-> {},
     findings |-> << >>, snapshot |-> NoSnapshot,
     reviews |-> << >>, dossier |-> None]

\* Create refuses a draft ValidateDraft refuses.
Init ==
    /\ now \in 0..MaxTime
    /\ \E draft \in Drafts : ValidDraft(draft) /\ drill = CreatedFrom(draft)

Freeze(actor) ==
    /\ actor = drill.coordinator
    /\ ValidDraft(drill)
    /\ CanMove("baseline_frozen")
    /\ Advance([drill EXCEPT !.state = "baseline_frozen", !.baselineVersion = @ + 1])

\* A second registration replaces the first.  Create and Freeze made the
\* first two revisions, so the bound counts registrations.
RegisterActivation(actor, evidence) ==
    /\ drill.state = "baseline_frozen"
    /\ drill.revision < 2 + MaxRegistrations
    /\ actor = drill.coordinator
    /\ ValidActivation(evidence, drill.start)
    /\ Advance([drill EXCEPT !.activation = evidence])

Start(actor) ==
    /\ actor = drill.coordinator
    /\ drill.activation # None
    /\ ValidActivation(drill.activation, drill.start)
    /\ NotExpired(drill.activation)
    /\ CanMove("in_progress")
    /\ Advance([drill EXCEPT !.state = "in_progress"])

\* The observation, its receipt, one finding per failed rule, and the move to
\* remediation with the last checkpoint, in one write.
SubmitObservation(actor, c, at, m) ==
    /\ drill.state = "in_progress"
    /\ actor = drill.coordinator
    /\ NextCheckpoint(drill, c)
    /\ InWindow(at)
    /\ LET d == [drill EXCEPT
                    !.observations = @ \cup {Observation("live", c, at, m)},
                    !.receipts = @ \cup {Receipt(c, m)},
                    !.findings = WithFindings(@, OpenedByRules(c, m))]
       IN  IF MustRemediate(d)
           THEN CanMove("remediation") /\ Advance([d EXCEPT !.state = "remediation"])
           ELSE Advance(d)

\* Mutated form of Plannable: a closed finding can be planned again.
PlannableAgain(f) == TRUE

Plannable(f) == drill.findings[f].status # "closed"

\* Mutated form of RetestDue: the clock forgotten.
RetestDueByEnd(due) == due <= drill.end

\* ValidateRemediationPlan: after the present, not after the planned end.
RetestDue(due) == now < due /\ due <= drill.end

\* Mutated form of KeptCause: every plan states the cause anew.
CauseAnew(old, cause) == cause

KeptCause(old, cause) == IF old.status = "planned" THEN old.cause ELSE cause

\* The finding with its plan overwritten and the history appended.
WithPlan(old, plan) ==
    [old EXCEPT !.cause = plan.cause, !.action = plan.action, !.owner = plan.owner,
                !.due = plan.due, !.status = "planned", !.plans = Append(@, plan)]

\* The first plan needs a cause, a later one a reason and keeps the cause.
PlanRemediation(actor, f, cause, action, owner, due, reason) ==
    /\ drill.state = "remediation"
    /\ actor = drill.coordinator
    /\ Plannable(f)
    /\ Len(drill.findings[f].plans) < MaxPlans
    /\ action # Blank /\ owner # Blank
    /\ RetestDue(due)
    /\ LET old      == drill.findings[f]
           isChange == old.status = "planned"
           plan     == [cause |-> KeptCause(old, cause), action |-> action,
                        owner |-> owner, due |-> due, reason |-> reason]
       IN  /\ IF isChange THEN reason # Blank ELSE cause # Blank
           /\ Advance([drill EXCEPT !.findings[f] = WithPlan(old, plan)])

\* Mutated form of Close: the retest is not linked.
CloseUnlinked(finding) == [finding EXCEPT !.status = "closed"]

Close(finding) == [finding EXCEPT !.status = "closed", !.retest = Fresh]

\* A finding of a review has no rule to pass, and may have no checkpoint.
SubmitRetest(actor, f, at, m) ==
    /\ drill.state = "remediation"
    /\ actor = drill.coordinator
    /\ drill.findings[f].status = "planned"
    /\ InWindow(at)
    /\ LET c == drill.findings[f].checkpoint
       IN  /\ f.rule # "REVIEW_RETURN" =>
                 /\ c \in DOMAIN drill.checkpoints
                 /\ ~FailureForRule(drill.checkpoints[c], m, f.rule)
           /\ Advance([drill EXCEPT
                !.observations = @ \cup {Observation("retest", c, at, m)},
                !.findings[f] = Close(@)])

SubmitReview(actor) ==
    /\ actor = drill.coordinator
    /\ drill.state \in {"in_progress", "remediation"}
    /\ AllLiveObservationsSubmitted(drill)
    /\ ~HasOpenCriticalFinding(drill)
    /\ OpenFindings(drill) = {}
    /\ CanMove("pending_review")
    /\ Advance([drill EXCEPT !.state = "pending_review", !.snapshot = MakeSnapshot(drill)])

\* What both decisions of ReviewDecision check: an independent reviewer, a
\* reason, and the digest of this snapshot when one is quoted.
Decidable(actor, reason, quoted) ==
    /\ drill.state = "pending_review"
    /\ drill.snapshot # NoSnapshot
    /\ actor # drill.coordinator
    /\ reason # Blank
    /\ quoted \in {None, drill.snapshot.revision}

ReviewRecord(decision, actor, returned) ==
    [decision |-> decision, reviewer |-> actor, returned |-> returned,
     passed |-> Cardinality(drill.snapshot.checklist \ returned)]

\* Mutated form of Reopened: the snapshot stays.
ReopenedUnderSnapshot(d) == [d EXCEPT !.state = "remediation"]

\* A returned review sends the drill back and discards the snapshot.
Reopened(d) == [d EXCEPT !.state = "remediation", !.snapshot = NoSnapshot]

\* Sets of items a reviewer may mark "returned", the others "passed":
\* validateChecklist wants one result for each item.
Returnable == {r \in SUBSET drill.snapshot.checklist : Cardinality(r) <= MaxReturned}

ReturnReview(actor, reason, quoted, opinions) ==
    /\ Decidable(actor, reason, quoted)
    /\ DOMAIN opinions # {}
    /\ \A i \in DOMAIN opinions : opinions[i] # Blank
    /\ CanMove("remediation")
    /\ Advance(Reopened([drill EXCEPT
          !.findings = WithFindings(@, OpenedByReview(opinions)),
          !.reviews = Append(@, ReviewRecord("returned", actor, DOMAIN opinions))]))

\* The dossier names the head of the event chain: the event of the current
\* revision, the last one before this write's own.
ApproveReview(actor, reason, quoted) ==
    /\ Decidable(actor, reason, quoted)
    /\ CanMove("certified")
    /\ Advance([drill EXCEPT !.state = "certified",
                   !.dossier = [snapshot |-> drill.snapshot.revision,
                                reviewer |-> actor, head |-> drill.revision,
                                passed |-> Cardinality(drill.snapshot.checklist)],
                   !.reviews = Append(@, ReviewRecord("approved", actor, {}))])

Tick == now < MaxTime /\ now' = now + 1 /\ UNCHANGED drill

Next ==
    \/ \E a \in Actors : Freeze(a) \/ Start(a) \/ SubmitReview(a)
    \/ \E a \in Actors, e \in Submissions : RegisterActivation(a, e)
    \/ \E a \in Actors, c \in DOMAIN drill.checkpoints, at \in ObservedTimes,
          m \in Readings : SubmitObservation(a, c, at, m)
    \/ \E a \in Actors, f \in DOMAIN drill.findings, due \in 0..MaxTime :
          \E cause, action, owner, reason \in Texts \cup {Blank} :
             PlanRemediation(a, f, cause, action, owner, due, reason)
    \/ \E a \in Actors, f \in DOMAIN drill.findings, at \in ObservedTimes,
          m \in Readings : SubmitRetest(a, f, at, m)
    \/ \E a \in Actors, reason \in Texts \cup {Blank}, quoted \in {None} \cup 1..MaxRevision :
          \/ ApproveReview(a, reason, quoted)
          \/ /\ Decidable(a, reason, quoted)
             /\ \E returned \in Returnable :
                   \E opinions \in [returned -> Texts \cup {Blank}] :
                      ReturnReview(a, reason, quoted, opinions)
    \/ Tick

Spec == Init /\ [][Next]_vars
=============================================================================
