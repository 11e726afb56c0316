-------------------------- MODULE DrillProperties --------------------------
(* What DrillWorkflow promises of a drill, stated over its two variables.  *)
EXTENDS DrillWorkflow

States == DOMAIN Transitions

Optional(S) == S \cup {None}

DrillFields ==
    {"coordinator", "start", "end", "checkpoints", "state", "revision",
     "baselineVersion", "activation", "observations", "receipts", "findings",
     "snapshot", "reviews", "dossier"}

ObservationType ==
    [id : Nat, checkpoint : Optional(Nat), kind : {"live", "retest"},
     at : Nat, metrics : MetricsType]

PlanType ==
    [cause : Texts \cup {Blank}, action : Texts, owner : Texts, due : Nat,
     reason : Texts \cup {Blank}]

FindingType ==
    [checkpoint : Optional(Nat), severity : Severities,
     status : {"open", "planned", "closed"}, receipt : Optional(Nat),
     category : Optional(Categories), cause : Texts \cup {Blank},
     action : Texts \cup {Blank}, owner : Texts \cup {Blank},
     due : Optional(Nat), retest : Optional(Nat), plans : Seq(PlanType)]

\* A closed finding carries its retest; an open one has never been planned.
FindingOK(f) ==
    LET g == drill.findings[f] IN
    /\ f.opened \in 1..drill.revision
    /\ f.rule \in RuleCodes \cup {"REVIEW_RETURN"}
    /\ g \in FindingType
    /\ g.checkpoint \in Optional(DOMAIN drill.checkpoints)
    /\ g.status = "open" <=> g.plans = << >>
    /\ g.status = "closed" <=> g.retest # None
    /\ \A p \in DOMAIN g.plans : g.plans[p].due \in 0..drill.end

\* Type invariant of the aggregate (domain.DrillCase) and of the clock.
TypeOK ==
    /\ now \in 0..MaxTime
    /\ DOMAIN drill = DrillFields
    /\ drill.coordinator \in Actors
    /\ drill.start \in Nat /\ drill.end \in Nat
    /\ drill.checkpoints \in Seq(CheckpointType)
    /\ drill.state \in States
    /\ drill.revision \in Nat \ {0}
    /\ drill.baselineVersion \in 0..1
    /\ drill.activation \in Optional(Submissions)
    /\ drill.observations \subseteq ObservationType
    /\ \A o \in drill.observations : o.id <= drill.revision
    /\ \A r \in drill.receipts : /\ r.id \in 1..drill.revision
                                 /\ r.checkpoint \in DOMAIN drill.checkpoints
    /\ \A f \in DOMAIN drill.findings : FindingOK(f)

-----------------------------------------------------------------------------

\* SubmitObservation keeps the frozen order: a checkpoint is recorded once,
\* after every earlier one, and has the one receipt of that record.  Retests
\* never count as the record of a checkpoint.
RecordedInOrder ==
    LET live == {o \in drill.observations : o.kind = "live"} IN
    /\ \A o \in live : \A c \in 1..(o.checkpoint - 1) :
          \E p \in live : p.checkpoint = c /\ p.id < o.id
    /\ \A o, p \in live : o.checkpoint = p.checkpoint => o = p
    /\ {<<r.id, r.checkpoint, r.observation>> : r \in drill.receipts}
         = {<<o.id, o.checkpoint, o.id>> : o \in live}

\* The findings opened by Evaluate are the failures the receipts show, which
\* BuildJudgmentReceipt computed on its own: none missing, none extra, with
\* the receipt's severity, linked to that receipt and its checkpoint.
FindingsMatchReceipts ==
    /\ \A r \in drill.receipts, rule \in RuleCodes :
          rule \in FailedItems(r.items)
            <=> FindingId(r.id, rule, None) \in DOMAIN drill.findings
    /\ \A f \in DOMAIN drill.findings : f.rule # "REVIEW_RETURN" =>
          \E r \in drill.receipts :
             /\ r.id = f.opened /\ r.id = drill.findings[f].receipt
             /\ r.checkpoint = drill.findings[f].checkpoint
             /\ r.items[f.rule].severity = drill.findings[f].severity

\* Plans and retests are accepted in remediation only, so a drill in progress
\* must leave it with its last record if anything failed: with every record in
\* and a finding open it could neither be planned nor sent to review.
ActiveCanGoOn ==
    drill.state = "in_progress" /\ AllLiveObservationsSubmitted(drill)
      => OpenFindings(drill) = {}

\* Is x (for a snapshot or the drill itself) the same facts as y?
SameFacts(x, y) ==
    /\ x.baselineVersion = y.baselineVersion
    /\ x.activation = y.activation
    /\ x.observations = y.observations
    /\ x.receipts = y.receipts
    /\ x.findings = y.findings

\* A snapshot exists exactly while a review is pending and after it approved,
\* and what the reviewer decides on is still what the drill holds: every
\* finding closed, and an item for every receipt and finding there is.
ReviewedFactsAreTheFacts ==
    /\ drill.snapshot # NoSnapshot <=> drill.state \in {"pending_review", "certified"}
    /\ drill.snapshot # NoSnapshot =>
         /\ SameFacts(drill.snapshot, drill)
         /\ drill.snapshot.baseline = drill.checkpoints
         /\ drill.snapshot.checklist = ReviewChecklist(drill)
         /\ OpenFindings(drill) = {}

\* A finding is closed only with a complete plan and a later retest of its
\* checkpoint which, for a rule's finding, passes that rule.
ClosedByEvidence ==
    \A f \in DOMAIN drill.findings :
       LET g == drill.findings[f] IN
       g.status = "closed" =>
         /\ Blank \notin {g.cause, g.action, g.owner}
         /\ \E o \in drill.observations :
               /\ o.id = g.retest /\ o.id > f.opened /\ o.kind = "retest"
               /\ o.checkpoint = g.checkpoint
               /\ f.rule # "REVIEW_RETURN" =>
                    f.rule \notin Evaluate(drill.checkpoints[g.checkpoint], o.metrics)

\* The history of a finding's plans is its plan now and how it came about: the
\* last version is the current one, the cause never changed, every version
\* after the first says why.
PlanHistoryExplainsPlan ==
    \A f \in DOMAIN drill.findings :
       LET g == drill.findings[f]
           n == Len(g.plans)
       IN  n > 0 =>
             /\ [cause |-> g.cause, action |-> g.action, owner |-> g.owner,
                 due |-> g.due, reason |-> g.plans[n].reason] = g.plans[n]
             /\ \A v \in 1..n : g.plans[v].cause = g.plans[1].cause
             /\ \A v \in 2..n : g.plans[v].reason # Blank

\* Certification rests on evidence: every checkpoint recorded, every rule a
\* receipt shows failed passed by a later retest there, every item a review
\* returned followed up and closed, and the last word by an independent
\* reviewer on the snapshot the dossier names, the dossier taking the event
\* just before its own as chain head.
CertifiedOnEvidence ==
    drill.state = "certified" =>
      /\ AllLiveObservationsSubmitted(drill)
      /\ \A r \in drill.receipts : \A rule \in FailedItems(r.items) :
            \E o \in drill.observations :
               /\ o.kind = "retest" /\ o.id > r.id /\ o.checkpoint = r.checkpoint
               /\ rule \notin Evaluate(drill.checkpoints[r.checkpoint], o.metrics)
      /\ \A v \in DOMAIN drill.reviews : \A i \in drill.reviews[v].returned :
            \E f \in DOMAIN drill.findings :
               f.item = i /\ drill.findings[f].status = "closed"
      /\ \A v \in DOMAIN drill.reviews : drill.reviews[v].reviewer # drill.coordinator
      /\ drill.dossier.snapshot = drill.snapshot.revision
      /\ drill.dossier.passed = Cardinality(drill.snapshot.checklist)
      /\ drill.dossier.head = drill.revision - 1
      /\ drill.snapshot.revision <= drill.dossier.head

-----------------------------------------------------------------------------

\* The step keeps what is on file.
KeepsFiled ==
    /\ drill.observations \subseteq drill'.observations
    /\ drill.receipts \subseteq drill'.receipts
    /\ \A f \in DOMAIN drill.findings :
          /\ f \in DOMAIN drill'.findings
          /\ drill.findings[f].status = "closed" =>
                drill'.findings[f] = drill.findings[f]
          /\ \A p \in DOMAIN drill.findings[f].plans :
                /\ p \in DOMAIN drill'.findings[f].plans
                /\ drill'.findings[f].plans[p] = drill.findings[f].plans[p]
    /\ \A v \in DOMAIN drill.reviews :
          v \in DOMAIN drill'.reviews /\ drill'.reviews[v] = drill.reviews[v]
    /\ drill.state \notin {"draft", "baseline_frozen"} =>
          /\ drill'.baselineVersion = drill.baselineVersion
          /\ drill'.activation = drill.activation

\* Nothing on file is rewritten: records and receipts stay, findings stay and
\* keep every plan version, a closed finding never changes, reviews stay, and
\* once the drill has started its baseline and evidence stay.
NothingIsRewritten == [][KeepsFiled]_drill

\* Planned too late: the planned end has come and a finding has no plan.
PastPlanning ==
    now >= drill.end /\ \E f \in DOMAIN drill.findings : drill.findings[f].status = "open"

\* ValidateRemediationPlan wants a retest after now and not after the planned
\* end, so a finding without a plan at the planned end, a returned review's
\* included, keeps the drill from review and certification for good.
PastPlanningIsForGood ==
    [](PastPlanning => [](drill.state \notin {"pending_review", "certified"}))

\* README.md:7 says that registration, like start, checks that the evidence is
\* currently valid.  RegisterActivation checks it against the planned start.
RegisteredEvidenceIsCurrent ==
    [][drill'.activation # drill.activation => NotExpired(drill'.activation)]_drill

-----------------------------------------------------------------------------

Closed(d) == {f \in DOMAIN d.findings : d.findings[f].status = "closed"}

Unrecorded(d) == {c \in DOMAIN d.checkpoints : ~HasLive(d, c)}

Gate == INSTANCE ReadinessGate WITH
            phase     <- drill.state,
            remaining <- Unrecorded(drill),
            raised    <- DOMAIN drill.findings,
            resolved  <- Closed(drill)

\* The workflow implements the readiness gate: findings are the issues, a
\* passed retest resolves one, plans and registrations change nothing of it.
ImplementsGate == Gate!Spec
=============================================================================
