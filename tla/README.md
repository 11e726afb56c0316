# A verification development of shelter-drill-gate

shelter-drill-gate is a Go service in which a coordinator plans an emergency-shelter drill,
freezes its baseline, registers activation evidence, records checkpoints in order, remedies and
retests what failed, and has an independent reviewer certify the result.  This directory models
it in TLA+: what a drill may go through (`DrillWorkflow`) and what its view offers (`DrillView`),
how one checkpoint is judged (`DrillRules`), what concurrent handlers, retries and crashes do to
the database (`DrillService`), what the event chain and the dossier are worth when storage fails
(`AuditArchive`), what asynchronous handlers do in the browser (`Workbench`), and the scripted
self check (`SelfCheck`).  TLC checks the models on small instances; TLAPS proves
every safety property that does not speak of `ENABLED` for every value of the constants.

Contents: [the system](#1-the-system) · [modules](#2-modules-and-how-they-correspond-to-the-code)
· [runs](#3-what-the-runs-check) · [fairness](#4-fairness) ·
[disagreements](#5-where-code-and-documentation-disagree) · [proofs](#6-what-is-proved) ·
[not modelled](#7-what-is-not-modelled-and-why) · [plan](#8-plan).

## 1. The system

| component | code | state it keeps | operations |
|---|---|---|---|
| deterministic rules | `internal/domain/rules.go` | none | `Evaluate`, `FailureForRule`, `BuildJudgmentReceipt` |
| drill aggregate | `internal/domain/state.go`, `types.go`, `validation.go` | `DrillCase`: state, revision, baseline, evidence, observations, receipts, findings with plan history, snapshot, reviews, dossier | `Transition`, `NextCheckpoint`, `OpenFindings`, `Validate…` |
| use cases | `internal/workflow/create.go`, `baseline.go`, `observation.go`, `review.go` | none of their own; one aggregate per call | `Create`, `Freeze`, `RegisterActivation`, `Start`, `SubmitObservation`, `PlanRemediation`, `SubmitRetest`, `SubmitReview`, `ReviewDecision` |
| service | `internal/workflow/service.go` | the clock `now` | replay, `ensureRevision`, `commit`, `viewFor` |
| store | `internal/store/*.go` | SQLite tables: drills, facts, dossiers, events, idempotency rows | `Load`, `Timeline`, `LookupIdempotency`, `Commit`, `Open` with verification |
| audit chain | `internal/audit/event.go`, `canonical.go` | none (rows are the store's) | `NewEvent`, `VerifyChain`, canonical JSON |
| dossier | `internal/audit/dossier.go`, `internal/workflow/queries.go` | none | `GenerateDossier`, `VerifyDossier`, metrics |
| view and todos | `viewFor` in `internal/workflow/service.go` | none | evidence status, todos, due classes, their order |
| HTTP adapter | `internal/web/*.go` | none | decode a request, encode an answer |
| workbench | `internal/web/assets/app.js` | `state.current`, rendered case, list, dialogs, `findingID` | load, write, digest, render, verify |
| process | `cmd/shelterd/main.go` | listener, signal channel | start, drain |
| self check | `cmd/shelterd/selfcheck.go` | temporary store, listener, position in the script | run the script, clean up |
| listener configuration | `cmd/shelterd/config.go` | none | parse an address |

**How they interact.**  `net/http` runs every request in a goroutine.  A handler of a write calls
one use case, which looks the `request_id` up (`replay`), loads the aggregate, compares its
revision with `expected_revision`, checks and changes the aggregate in memory, and hands it to
`store.Commit`.  That opens one transaction, looks the `request_id` up again, updates the drill
under a compare-and-set on its revision, writes the fact tables, appends one event to the drill's
digest chain, stores the response under the `request_id`, and commits.  All queries and
transactions share a pool of one connection (`SetMaxOpenConns(1)`), which is the only mutual
exclusion there is: between two queries of one handler any other handler may run.  Only an
approval reads more than the drill: the event chain, whose head it puts in the dossier.  The
chain is verified when the service starts, before an approval and by the verification query.

The browser runs handlers of one tab on one thread, but each `await` lets any other handler run:
answers change `state.current`, the rendered case, the side bar and the open dialog in the order
they arrive.  The next write takes its drill and its `expected_revision` from `state.current`.

**What is hard.**  Everything between a read and the transaction can be overtaken by another
handler; a retry can overtake its own first attempt; a client's cancellation or a crash can fall
between any two statements; a drain must end while calls queue for the connection.  Within one
drill the difficulty is in the long sequences: plans changed over and over, reviews returned
several times, a clock that passes the planned end while findings are unplanned, retests stored
beside the records they must not be taken for, and a judgement computed twice by separate code.
The todo list is computed by conditions of its own, apart from the guards it should agree with.
A damaged row changes what later writes are built on.  In the workbench the difficulty is what
was on the screen when a form was filled in, and what is when its write is sent.

**What makes each part correct.**

* *Rules*: receipt and findings judge every reading alike.
* *Aggregate and use cases*: checkpoints are recorded in frozen order, once; no reachable drill is
  stuck between states; a finding closes only on a plan and a retest that passes its rule; what a reviewer
  decides on is what the drill holds; a certificate rests on evidence for every failure and every
  returned item; nothing on file is rewritten.
* *Service and store*: a request takes effect at most once, at the revision its author saw; the
  tables of a drill tell one story; what was answered as a success survives crashes; the dossier's
  chain head is exact; every call and every drain ends.
* *Audit and dossier*: nothing sound is suspected; a chain that verifies was written so; a broken
  one is never mended by a later write; a dossier found valid vouches for the review; its figures
  are those of the exercise.
* *View and todos*: what is offered is accepted, what is accepted is offered, nobody is left
  without a todo, the list has one order.
* *Workbench*: a form of the case writes on what it showed; a screen at rest shows the service as it is.
* *Self check*: its script is accepted however slow the calls, passing means certified, it ends.

The hazards these properties are for are listed, each at its line, in `PROJECT.json`.

## 2. Modules and how they correspond to the code

| module | what it is |
|---|---|
| `DrillRules` | thresholds, readings and the two judgements, as operators |
| `DrillWorkflow` | one drill: variables `drill` (the aggregate, a record with `DrillCase`'s fields) and `now` (the service clock); one action per use case, `ReturnReview` and `ApproveReview` being the two branches of `ReviewDecision` |
| `DrillProperties` | its type invariant, safety invariants, action properties, and the refinement mapping to `ReadinessGate` |
| `ReadinessGate` | abstract specification: checkpoints to record, issues raised and resolved, and a phase |
| `DrillService` | handlers with a program counter each, the database, the open transaction, the process |
| `ServiceProperties` | its properties and the refinement mapping to `RevisionedLog` |
| `RevisionedLog` | abstract specification: one log of requests per drill, each request at most once |
| `OperatorProofs`, `DrillWorkflowProofs`, `DrillEvidenceProofs`, `ServiceProofs`, `ArchiveProofs`, `WorkbenchProofs`, `AlgorithmProofs`, `SelfCheckProofs` | theorems and proofs, and the inductive invariants they need, see section 6 |
| `DrillView`, `DossierFigures` | what `viewFor` shows and offers of the drill of `DrillWorkflow`; the figures of its dossier |
| `TodoOrder`, `InputChecks` | the comparison `viewFor` sorts todos by; the loops over a checklist and over checkpoint numbers, as operators |
| `AuditChain` | events, their digests and `VerifyChain`, as operators |
| `Dossier` | `GenerateDossier`, its metrics, `VerifyDossier`, as operators |
| `AuditArchive` | chain, snapshot and dossier of one drill on a storage that fails |
| `HttpService` | the service as a client sees it: outcomes, status codes, effects on a drill |
| `Workbench`, `WorkbenchProperties` | one tab of the browser, its handlers cut at each `await`, and what it owes its user |
| `SelfCheck` | the script of `selfcheck.go` over `DrillWorkflow`, with time |
| `MCAlgorithms`, `MCDrillWorkflow`, `MCDrillView`, `MCDrillService`, `MCAuditArchive`, `MCWorkbench`, `MCSelfCheck` | the constants of the runs; `MCAlgorithms` also holds the properties of the pure algorithms |

The composition: `DrillWorkflow` uses `DrillRules`; `DrillView`, `DossierFigures` and `SelfCheck`
are built over `DrillWorkflow`; `DrillService` and `AuditArchive` share `AuditChain`; `Dossier` is
used by `AuditArchive`, `DossierFigures` and `InputChecks`; `Workbench` runs over `HttpService`.

### DrillWorkflow

One action is one accepted write: guards are the handler's early returns, and `Advance` is
`advance`, which raises the revision.  A refused request changes nothing and is not a step.
Accepted writes change the drill one at a time because of the compare-and-set on the revision;
that this is so in the presence of concurrent handlers is what `DrillService` shows, where each
write is a sequence of steps.  The two models meet at the revision: `DrillService` takes the
content of a drill to be the log of requests applied to it, `DrillWorkflow` says what a request
does to the content.

Abstractions:

* Identifiers drawn by `newID` are represented by the revision of the write that drew them, which
  is fresh; a finding is named by that revision, its rule and its review item.
* Time is a small number; only order matters, and equality, which the code allows at the ends of
  every window except that a retest must be planned strictly after now.
* Texts are `Blank` (nothing left after `TrimSpace`) or a text; digests are numbers.
* A review's checklist is the set of items of the snapshot.  `validateChecklist` accepts exactly
  one result per item; a decision is modelled by the accepted results: which items are returned,
  each with an opinion.  Digests a reviewer quotes are the snapshot's revision.
* Findings are a function of their identifiers, since `SubmitObservation` and `ReviewDecision`
  append and the others overwrite one element.

### DrillService

A call goes through `replay → load → (timeline) → begin → tx_replay → tx_drill → tx_facts →
tx_event → tx_idem → tx_commit → reply`, one action for each query or statement; between any two
of them any other call, a failure or a crash may come.  Queries need the connection free
(`tx = NoTx`).  The transaction works on its own copy `tx.db` and `TxCommit` installs it, so
rollback is forgetting the copy.  `Fail` at any point stands for a statement error and for a
client that has gone.  `Drop` loses the answer after the commit, so that a retry follows.
The comparison of records and receipts with those stored already (transaction.go:139) is not
modelled apart from `Fail`: entries of a log do not change.  A use
case may refuse any request (its reasons are `DrillWorkflow`'s subject) and always refuses one on
a certified drill.  A digest is the chain of requests it covers, that is, without collisions.
SQLite's atomic commit is external and trusted.

Clients send any request of a small set any number of times; the set holds a creation, a
registration, a second request that reuses its id with other content, and a write and an approval
that compete for one revision.  The database starts empty, or with a drill created earlier.

### AuditArchive

A write is one step: that it is one transaction is `DrillService`'s subject.  It appends an event
(`appendEvent` builds it on the last row there is), and a submission, return or approval also
changes snapshot and dossier.  Between writes a row of the events may be lost, a field of an
event, of the snapshot or of the dossier changed, or an event renumbered: faults of the storage,
not of the program, which reads and verifies what it finds.  A digest is the data it covers, so
the model assumes that SHA-256 and canonical JSON tell any two inputs apart.  A fault writes a
value the program never writes (`Garbage`, and `BrokenHash` for a digest), or, in a snapshot,
facts of another review; renumbering an event does not bring back the number it was written with.  `written` and
`sealed` are history: what the program stored.

### DrillView, DossierFigures, TodoOrder, InputChecks

`DrillView` and `DossierFigures` add no state: they are what `viewFor` and `metricsFromSnapshot`
compute of the drill in each state of `DrillWorkflow`, and the run `exercise` compares the todos
with the actions that are enabled.  `TodoOrder` keeps of a due time the instant and the
place of its text among all texts, because the code stores what the client wrote and orders that.
Any order of the texts is possible whatever the instants are: offsets differ, and Go reads RFC3339
with fractions of a second and with hours of one digit.  `InputChecks` folds over a list the
way the loops of the code do, remembering what has been seen; `DrillWorkflow` takes what they
accept as given.

### HttpService and Workbench

`HttpService` keeps of a drill what a client tells apart: revision, state, whether evidence is
registered, how many checkpoints have their record, the state of each finding.  Any write may be
refused for its content, as the rules of that are `DrillWorkflow`'s subject; an unknown item is
refused only after the revision has been compared, as in the code.

Each handler of `app.js` runs to its next `await` in one step.  A waiting handler is a record in
`task`: the call it made, the write it carries and the calls it makes after that.  The answer is
made in a step of the service and arrives in another, in any order, or is lost.  Submitting
observation, evidence or retest awaits a digest first: `mutation()` is taken before it, the path
of the request after it (`Digested`).  Dialogs are modal, so input behind one is impossible, but
answers still change the case behind it.  Each write carries (`seen`) the drill and revision its
form showed: for a dialog the case it was opened on, for a form of the case the one rendered
when it was submitted; `accepted` is the history of this tab's writes that the service accepted.
Another user writes through the same service, and a certified dossier may be damaged.

### SelfCheck

The script is a sequence of calls over the actions of `DrillWorkflow`, from health check to
shutdown.  Every call takes any number of seconds up to its limit, is answered with an error, or
is never answered.  Times are seconds after the script reads the clock (`Begun`); the draft,
evidence, readings and times are those of the source.

## 3. What the runs check

| run | instance | what it shows |
|---|---|---|
| `rules` | thresholds, readings and due times up to 3, lists up to 3 | the receipt and `Evaluate` agree at and around each threshold; the order of the todos is strict and its classes follow time; checklists are taken whole; a checkpoint's place is its number |
| `exercise` | two checkpoints, four submissions of evidence, readings that pass and fail, two plan versions, up to 12 revisions, clock to the planned end | order, receipts and findings, plan history, nothing rewritten; todos against what is accepted; figures of the dossier; implements `ReadinessGate` |
| `review` | one checkpoint, up to two returned reviews, up to 15 revisions | the snapshot is the facts, evidence for closing and certification, the planned end is final |
| `registration` | up to registration | violation: expired evidence is registered |
| `service_two` | two calls, five requests, two drill ids, one stop | tables agree, at most once; liveness |
| `service_three` | three calls, four requests, one drill id, one stop | no lost update, durable answers, exact chain head; implements `RevisionedLog` |
| `service_retry` | two calls | violation: a retry is answered with a conflict |
| `service_merge` | two calls | violation: a replayed answer is a mixture |
| `archive` | five writes, two faults, two reviewers, two sets of facts | no false alarm, what verifies was written, a valid dossier vouches, broken stays broken |
| `workbench` | two drills in four pairs of stages, or none, room for a third, two waiting handlers, four inputs and one write of another user, or three, one and one loss | forms of the case are exact, plans keep their drill, buttons act on what is shown, a screen at rest is current |
| `workbench_overwrite` | two frozen drills, three inputs, one write of another user | violation: evidence is replaced on a revision its author never saw |
| `self_check` | the one instance there is | the script is accepted, passing means certified; it ends |

**Bounds, and why they are enough.**  `MaxRevision` ends every behaviour of a drill.  In
`exercise` 12 writes reach a certified drill with several findings, each planned (some twice) and
retested; two checkpoints are the least at which order matters; the readings fail a number, a
flag, or nothing, so a record opens findings of both severities.  In `review` 15 writes are a
full cycle of three reviews, the last approved, which lets a finding of the first review itself
become an item of the second; `MaxReturned = 1` returns one item at a time, of every kind.  The
clock passes start and end of the drill, and the evidence covers both, only the start, or neither.
`MaxPlans` bounds plan versions of a finding, `MaxRegistrations` registrations, `MaxStops`
crashes and shutdowns together.  In the service runs two calls suffice for every race of two
handlers, and three add a winner that overtakes both the first and the second lookup of another;
one stop suffices because nothing in the state distinguishes a second start from the first.

In `archive` five writes leave room for a review that is returned or has events before it, and
for its approval; two faults can hide each other (a lost row and a renumbered one), which one
cannot.  `MaxInt = 3` lets the participants of one set of facts wrap; those of `exercise` do not,
and `FiguresAddUp` for sums that wrap is a theorem only.  In `workbench` two waiting
handlers are what an interleaving needs (one that has begun, one that overtakes it) and are
interchangeable, hence the symmetry; the `Beginnings` put the drills where each form and button
is offered, so that four inputs suffice to open a form, go to another drill or finding, come
back and submit; `inputs`, `others` and `losses` bound the user, the other user and the network.
`CalmScreenIsCurrent` speaks of users who wait for each answer (`left.calm`): handlers of theirs
never overlap, so it says nothing of loads or refreshes that arrive in the other order; those can
leave the screen behind, see section 5.  In `rules` due times on both sides of now, near and far,
with texts in every order (`MaxTexts`), and three todos are what transitivity needs.

Deadlock is not checked: a certified drill accepts nothing, the clock stops at its bound, all
calls may have ended, the user stops, the self check ends.

## 4. Fairness

Safety runs use `Spec`, without fairness.  `EveryCallEnds` and `DrainEnds` are checked under
`FairSpec`: weak fairness of each call's next step, and of the end of a drain.  Weak fairness of
a step is what the Go scheduler and the first-come queue of `database/sql` for its one connection
give a handler whose step stays possible; a transaction in progress always ends, so the
connection keeps coming free and is not hogged by one call, which runs at most one transaction.
`Drained` is `http.Server.Shutdown` noticing that no call runs.  Nothing is assumed of clients
(`Arrive`, `Drop`), failures, crashes, signals, the drain's time limit or a restart: the
properties hold without them.

`Ends` is checked under `CheckSpec`: weak fairness of `OpenAll` (local calls that return), of
`Elapse` (time passes) and of `TimeOut` (timers fire: the client's timeout, the contexts of the
health check and of `Shutdown`).  Nothing is assumed of the server or of `Call`.

## 5. Where code and documentation disagree

1. **Registration accepts expired evidence** (`RegisteredEvidenceIsCurrent`).  README.md:7 says
   registration and start both check current validity; `RegisterActivation` compares the evidence
   with the planned start only.  `Start` refuses it later, so no drill starts on it.
2. **A retry may be answered with a conflict** (`RetryIsReplayed`).  README.md:5 promises
   idempotent retries.  If the first attempt commits between the retry's lookup and its load, the
   retry fails `ensureRevision`.  The request has still taken effect once (`AppliedAtMostOnce`).
3. **A replay found in the transaction is not the original** (`ReplayIsOriginal`).  `commit`
   decodes the stored response over the view this call rendered, so fields which the stored JSON
   omits keep local values.

4. **A dialog writes on a revision its author did not see** (`NoBlindOverwrite`).  README.md:5
   says `expected_revision` prevents concurrent overwriting.  `app.js` takes the revision when a
   dialog is submitted (app.js:348, 372), not when it was filled in; an answer that renders a newer
   case behind the open dialog, or a digest awaited while another drill arrives, makes the write
   go to a drill or revision its form never showed.  A retest's path is built after the await as
   well (app.js:380).  A form of the case itself writes on the case that is on the screen when it
   is submitted (`CaseFormsAreExact`), and a plan goes to the drill of its dialog
   (`PlansKeepTheirDrill`).

Seen while modelling, without a run of their own:

* `VerifyDossier` recomputes the dossier's metrics, baseline version and rule version but compares
  only the payload that repeats them (queries.go:63, dossier.go:122): a change of the fields
  themselves is not found.  `ValidDossierVouches` leaves these three out (`Restated`).
* Events lost from the end of a chain leave a chain that verifies, unless a dossier names one of
  them; `VerifiedChainWasWritten` and `ValidDossierVouches` are stated accordingly.
* Todos of one class and severity are ordered by the text of their due times (service.go:119) as
  the client wrote it (observation.go:140), which need not be their order in time: `ParseTime`
  (types.go:223) takes any offset and, at one offset, fractions of a second and hours of one digit
  ("T9:00:00Z" sorts after "T10:00:00Z", "10:00:00.5Z" before "10:00:00Z").  README.md:13 says the
  list goes by severity and risk of falling due.  `TodosAreOrdered` claims order in time only
  between classes.
* The evidence text of the observation form is emptied only after its own submission (app.js:364)
  and `renderObservation` leaves it alone (app.js:139), as `renderCase` does the reason of a review:
  a text typed for one case or checkpoint is still there when another is rendered, and is then
  submitted with that one.
* Digests may use either letter case (validation.go:104), so one digest may pass as two although
  README.md:7 has repeated digests refused.
* The create form draws a new `request_id` for every submission (app.js:333), so submitting it
  again after a lost answer creates a second drill; and no request of the workbench is ever sent
  twice, so the notice of app.js:215 cannot appear.
* Two loads under way may arrive in the other order and leave the case selected earlier on the
  screen (app.js:70, 210).  What is then written is written to the case on the screen.
* An invalid dossier is answered with 409 (handlers.go:170), which `api()` turns into an exception,
  so the mark of a failed verification (app.js:397) is never set.

## 6. What is proved

The theorems are for every value of the constants: any actors, drafts, evidence, readings, texts
and times; any calls, requests, drills and stops; any facts, reviewers, writes and faults; any
drills, handlers and beginnings of the tab; any bounds.  The properties are those of section 3.

| module | theorem | property |
|---|---|---|
| `OperatorProofs` | `ReceiptAgreesWithEvaluation` | the two judgements of a checkpoint agree on every reading |
| `DrillWorkflowProofs` | `TypeCorrect`, `ActiveGoesOn`, `ReviewIsOfTheFacts` | `TypeOK`, `ActiveCanGoOn`, `ReviewedFactsAreTheFacts` |
| | `WorkflowImplementsGate` | `ImplementsGate` |
| `DrillEvidenceProofs` | `RecordsAreInOrder`, `FindingsAreReceipts`, `PlansAreExplained` | `RecordedInOrder`, `FindingsMatchReceipts`, `PlanHistoryExplainsPlan` |
| | `ClosingHasEvidence`, `CertificateHasEvidence` | `ClosedByEvidence`, `CertifiedOnEvidence` |
| | `HistoryIsKept`, `LateFindingIsFinal` | the action properties `NothingIsRewritten`, `PastPlanningIsForGood` |
| | `SomethingToDo` | `NeverWithoutTodo` |
| | `WorkIsOffered`, `OnlyOfferedWork` | the todos are the work there is; nothing else is accepted |
| | `DossierFiguresAddUp` | `FiguresAddUp` |
| `ServiceProofs` | `ServiceInvariant` | the inductive invariant `ServiceInv` |
| | `OneTransaction`, `TablesStayConsistent`, `RetriesAreIdempotent` | `TypeOK`, `TablesAgree`, `AppliedAtMostOnce` |
| | `NoLostUpdate`, `DossierHead`, `SuccessStays` | `NothingOverwritten`, `DossierHeadIsExact`, `SuccessIsDurable` |
| | `CommittedStays`, `LogIsImplemented` | `CommittedIsForGood`, `ImplementsLog` |
| `ArchiveProofs` | `ArchiveInvariant` | the inductive invariant `ArchiveInv` |
| | `VerifiedIsWritten`, `BrokenForGood` | `VerifiedChainWasWritten`, `BrokenStaysBroken` |
| | `NoAlarmWithoutFault`, `ValidMeansApproved` | `NoFalseAlarm`, `ValidDossierVouches` |
| `WorkbenchProofs` | `FormsInvariant`, `WorkbenchInvariant` | the inductive invariants `FormsInv`, `WorkbenchInv` |
| | `CaseFormsExact`, `PlansExact`, `ButtonsExact` | `CaseFormsAreExact`, `PlansKeepTheirDrill`, `ButtonsActOnTheShown` |
| | `CalmScreenCurrent` | `CalmScreenIsCurrent` |
| `AlgorithmProofs` | `TodosAreStrictlyOrdered` | what `Precedes` is for any todos at any time |
| | `CheckpointsStandAtTheirNumbers`, `ChecklistsTakenWhole` | the same of `SortCheckpoints` and `ValidateChecklist`, for any list |
| | `JudgementsAgree`, `TodosSorted` | `ReceiptMatchesEvaluation`, `TodosAreOrdered` |
| | `PlacesAreNumbers`, `ChecklistsWhole` | `PlaceIsNumber`, `ChecklistTakenWhole` |
| `SelfCheckProofs` | `PassedIsCertified` | `PassedMeansCertified` |
| | `AnswersAreExpected`, `RequestsAreAcceptable` | no answer is unexpected; no request has a reason to be refused |

`OperatorProofs` holds what several proofs need of the operators: the two judgements; sequences
that grow at their end, and that an event appended to a chain that verifies leaves one that
verifies; folds.  The inductive invariant of a component stands at the head of its proof module.
TLC found the invariants of the workflow, the service, the archive and the workbench to hold on
the instances of the runs before they were proved.

**Folds.**  The library's induction theorems take the induction hypothesis as an operator, which
the provers cannot instantiate.  What replaces them is `Least`: if a statement about numbers fails,
it fails for a least number, and the statement holds below it; `EveryNumber` is the induction that
follows, over a set of numbers.  `AddsUp` is the recursive function `MapThenSumSet` evaluates,
over the parts of a finite set, and takes an arbitrary element at a time.  `SumDefined` shows that it has a
solution and `AddsUpIsSum` that any solution is the sum, whichever elements were taken, both by
the size of the part.  `SumsCorrespond` carries a sum along a bijection, and `MaxIsLargest` shows
that `Max` of a finite set of numbers is its largest.

### One drill

None of the workflow's invariants is inductive alone.  That a returned item's finding is well
formed needs the checklist to be that of the facts, which is `ReviewedFactsAreTheFacts`; that a
drill which starts has nothing open needs `NothingBeforeStart`.  `IInv` is the conjunction of
these two with `TypeOK` and `ActiveCanGoOn`.
One lemma per use case states which fields it reads and writes (`FreezeStep` to `ReturnStep`); the
other proofs cite these and rarely the action.  The refinement maps each use case to a step of
`ReadinessGate` or to none (`RegisterActivation`, `PlanRemediation`, the clock); it needs `IInv`
for the identifiers of new findings to be new and for a closed finding to stay closed.

`EvidenceInv` is `IInv` with what is on file.  The properties about evidence support each other
through `FilesOK`: a receipt is found by its id, so ids must tell receipts apart; a finding
that is planned or closed has a complete plan, whose time its retest is compared with; each
item a review returned has its finding; and a drill leaves the exercise only with every record
in.  That a certificate rests on evidence then follows from the approval's guard, that nothing is
open, and from `ClosedByEvidence` for each closed finding.  `NothingIsRewritten` and
`PastPlanningIsForGood` follow from `IInv` and the step lemmas.

`NeverWithoutTodo` has one difficult case, the exercise.  If all records are in,
`ActiveCanGoOn` says nothing is open, so the review is offered; if one is missing, the least
missing checkpoint is the next, by the least element of a set of numbers.  A drill in remediation
has every record in (`FilesOK`), so either a finding is open or planned or the review is offered.

`OfferedIffAccepted`, which TLC checks, compares the todos with the actions that are enabled.  What
can be proved without `ENABLED` is its content in two halves.  `Possible` is, for each kind of
todo, what the handlers ask of the drill itself, leaving aside what a client adds to it.
`WorkIsOffered` says a todo is listed exactly when its work is possible, and `OnlyOfferedWork` that
a step which does the work takes it from the list.  Two of the handlers ask again for what an
earlier one established, a valid draft and evidence that covers the start; `GuardsHeld` says that
this still holds, so the todos may leave it out.

`FiguresAddUp` compares counts that are made of different files.  `CountedOK` says how they
correspond: closed findings are in bijection with the retests that closed them (`RetestsClose`),
and each receipt is the judgement of a record by the frozen threshold (`ReceiptsJudge`).  In a
certified drill every finding is closed and `RecordedInOrder` puts the live records in bijection
with the checkpoints, so the records are as many as the checkpoints and the findings together, and
the participants summed over live records are those summed over checkpoints.  `NothingWraps`: while
the exact sum fits an int, the sum modulo its width is the exact one.

### The service

`ServiceInv` has a part for each place where the code knows something.  `RowsOK` and
`TablesAgree`: what the tables hold of one drill.  `Holds`, per program counter: what a handler
has read is still in the database *or has been overtaken*, in which case the compare-and-set
will refuse it.  `TxSees`, per statement of a transaction: its copy is the database with exactly
the writes this call has made so far, and nothing else has changed since it began, because there
is one connection.  `AnswersOK`: a success shows the response of its own request.  So the lookup
inside the transaction decides for idempotency (the primary key of the idempotency rows, which
`TxIdem` checks as well, is never what refuses) and the compare-and-set for lost updates, and what
the handler read outside it decides nothing; an approval's chain head is exact because a chain
grows only with the revision.  A step of the service maps to `Append` of `RevisionedLog` when it
is a `TxCommit` and to a stutter otherwise.

### The archive

A digest is the data it covers, so a row whose digest is that of a written event can differ from
it only in fields the digest no longer covers: `RowsOK` says what faults leave of it
(`RemainsOf`) and that no two rows have one digest.  `WrittenOK` ties every event to the row it was
written after, which may have been damaged already; `DamageStays` says that it then still is, so
that no later write makes a broken chain verify.  `VerifyChain` checks a row against its
predecessor only; `VerifiedIsWritten` goes along the chain to the first row that would not be
as written.  `SealOK` is what the approval sealed and `FaultFree` what holds before the
first fault, for `NoFalseAlarm`.

### The workbench

`FormsInv` describes one tab under any interleaving: each view that is held is of a drill the
service has (`ScreenOK`), the case on the screen is that of `state.current` unless it is a drill
this tab has just created, and each waiting write (`WriteOK`) names the item it was rendered with,
so that its path, its revision and what its form showed belong together.  The exception is the one
`ButtonsActOnTheShown` allows.  `CalmOK` is for a user who waits for each answer: at most one
handler waits, and `Awaits` says for each call it may be waiting for what the screen still lacks
and that the rest of the handler brings exactly that.  When nothing waits, nothing lacks.

### The algorithms

`Precedes` compares class, severity, the text of the due time and the identifier in turn;
`TodosAreStrictlyOrdered` is that this is one lexicographic order.  A due time that is missing
orders as the empty text.  `EarlierClassFirst` shows that the classes follow time.

`SortCheckpoints` is any rearrangement in which no number precedes a smaller one.  That there is
one is shown by the rank of each place (how many places must come before it), which is a
bijection of the places; that it puts the checkpoint numbered n at place n follows because n
different numbers from 1 to n, sorted, leave no room for another.  `ChecklistsTakenWhole` rests on
`Remembered`: what the loop has seen, counted and returned after each prefix of the results, whose
least prefix that fails there cannot be.

### The self check

`ScriptInv` says for each position in the script where the drill stands (`Stage`): the draft as it
was sent, the one finding its observation opens, by name, with its plan, then its retest, and the
review.  A position is left only by the answer to its request, and each stage follows from the
one before by the step lemmas of the workflow.  `ClockInv` bounds the clock by the limits of
the calls so far.  `Acceptable` is what the handlers ask of the request that is due; it holds at
every position and at every time the clock may have reached, in particular for the evidence at the
start and for the time of the retest.  It is `ScriptIsAccepted` without `ENABLED`.

### Assumptions

Those stated with the constants, and no others; TLC evaluates each on the runs' instances.
Drafts, evidence and readings have the shapes their JSON types give them; times and bounds are
natural numbers (`DraftsAssumption`, `SubmissionsAssumption`,
`ReadingsAssumption`, `TimesAssumption`, `BoundsAssumption`, `NearDueAssumption`,
`MaxIntAssumption`, `InputsAssumption`).  The self check begins at a time from which it can
count ten minutes back (`BegunAssumption`), and its texts are texts (`ScriptAssumption`).  Requests name a drill unless they create one
(`RequestsAssumption`), and the service may stop a natural number of times (`StopsAssumption`).
A checklist is a finite set of items that have an order
(`FactsAssumption`).  The service's drills at a beginning are drills, and one of revision 1 is a
draft (`BeginningsAssumption`).  A drill has a checkpoint (`CheckpointsAssumption`).  The rest
keeps special values apart: `Blank` is no text, `None` no number, drill, evidence, item or button,
`Garbage` nothing a program writes, `Refused` no result (`TextsAssumption`, `NoneAssumption`,
`ButtonsAssumption`, `GarbageAssumption`, `RefusedAssumption`).

### What is model-checked only

* `EveryCallEnds`, `DrainEnds` and `Ends`: liveness under fairness is outside the prover.
* `OfferedIffAccepted`, `PlanIsOfferedInTime`, `ScriptIsAccepted`: they speak of `ENABLED`, which
  is outside it as well.  `WorkIsOffered`, `OnlyOfferedWork` and `RequestsAreAcceptable` prove what
  the guards ask of the drill; that a client then finds an input the action takes is left to TLC.
  Plans have no counterpart among them: a plan may be changed, and registration repeated, without
  a todo.

## 7. What is not modelled, and why

* Listener configuration (`config.go`): parsing of one address, no state.
* HTTP decoding, security headers and static files: one request in, one answer out.
* Wording, labels, markup, canonical JSON as text, parsing of times (a time is a number, with
  the place of its text where texts are compared).
* Hash collisions: a digest is the data it covers.
* SQLite's own crash safety, `net/http`, `database/sql`, the browser's event loop: external, used
  as documented.
* A second tab of the same user is another user to the first.
* Hazards without a property, each with its reason, are in `PROJECT.json`.

## 8. Plan

The components that keep state or interleave are modelled, and the safety properties are proved
but for those that speak of `ENABLED`.  What would add most from here is a composition of
`DrillWorkflow` into `DrillService`, so that one model has both the content of a drill and the
interleaving of its handlers; today they meet at the revision, by the argument of section 2.
