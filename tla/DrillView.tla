----------------------------- MODULE DrillView -----------------------------
(***************************************************************************)
(* What the service shows of a drill and offers to do about it (viewFor),  *)
(* over the drill of DrillWorkflow, and the button the workbench makes of  *)
(* it.  The order of the todos is TodoOrder's subject.                     *)
(***************************************************************************)
EXTENDS DrillProperties

\* None also stands for a button that is hidden.
ASSUME ButtonsAssumption == None \notin {"freeze", "activation", "start", "submit_review"}

\* Why a record of evidence does not count, in the order of the checks.
EvidenceReason(record) ==
    CASE record.collected > record.until  -> "collected after its end"
      [] record.until < drill.start       -> "does not cover the start"
      [] now > record.until               -> "expired"
      [] OTHER                            -> "valid"

ActivationStatuses ==
    [c \in Categories |->
        IF drill.activation = None THEN "missing" ELSE EvidenceReason(drill.activation[c])]

\* Mutated form of AllActivationValid: what was valid once is.
AllActivationRegistered == \A c \in Categories : ActivationStatuses[c] # "missing"

AllActivationValid == \A c \in Categories : ActivationStatuses[c] = "valid"

Todo(kind, resource) == [kind |-> kind, resource |-> resource]

\* Mutated form of ReadyForReview: an exercise without findings forgotten.
ReadyAfterRemediation ==
    /\ drill.state = "remediation"
    /\ AllLiveObservationsSubmitted(drill) /\ OpenFindings(drill) = {}

ReadyForReview ==
    /\ drill.state \in {"in_progress", "remediation"}
    /\ AllLiveObservationsSubmitted(drill) /\ OpenFindings(drill) = {}

\* viewFor: todos of the drill's state, and of its findings in any state.
Todos ==
    {Todo(kind, None) : kind \in
        {k \in {"freeze", "activation", "start", "submit_review", "review"} :
            \/ k = "freeze"        /\ drill.state = "draft"
            \/ k = "activation"    /\ drill.state = "baseline_frozen" /\ ~AllActivationValid
            \/ k = "start"         /\ drill.state = "baseline_frozen" /\ AllActivationValid
            \/ k = "submit_review" /\ ReadyForReview
            \/ k = "review"        /\ drill.state = "pending_review"}}
    \cup {Todo("observation", c) : c \in
            {c \in DOMAIN drill.checkpoints :
                drill.state = "in_progress" /\ NextCheckpoint(drill, c)}}
    \cup {Todo("remediation", f) : f \in
            {f \in DOMAIN drill.findings : drill.findings[f].status = "open"}}
    \cup {Todo("retest", f) : f \in
            {f \in DOMAIN drill.findings : drill.findings[f].status = "planned"}}

Offers(kind) == \E t \in Todos : t.kind = kind

\* renderPrimaryAction: the action of the button, None when it is hidden.
PrimaryAction ==
    CASE drill.state = "draft" -> "freeze"
      [] drill.state = "baseline_frozen" /\ (\E c \in Categories : ActivationStatuses[c] # "valid")
            -> "activation"
      [] drill.state = "baseline_frozen" /\ (\A c \in Categories : ActivationStatuses[c] = "valid")
            -> "start"
      [] drill.state \in {"in_progress", "remediation"} /\ Offers("submit_review") -> "submit_review"
      [] OTHER -> None

-----------------------------------------------------------------------------

\* Is there a request of this kind the workflow accepts now?  Reviews are for
\* someone else than the coordinator.
Accepted(kind, resource) ==
    LET me == drill.coordinator IN
    CASE kind = "freeze"        -> ENABLED Freeze(me)
      [] kind = "start"         -> ENABLED Start(me)
      [] kind = "submit_review" -> ENABLED SubmitReview(me)
      [] kind = "observation"   ->
            ENABLED \E at \in ObservedTimes, m \in Readings :
                       SubmitObservation(me, resource, at, m)
      [] kind = "remediation"   ->
            ENABLED \E due \in 0..MaxTime, t \in Texts :
                       PlanRemediation(me, resource, t, t, t, due, t)
      [] kind = "retest"        ->
            ENABLED \E at \in ObservedTimes, m \in Readings :
                       SubmitRetest(me, resource, at, m)
      [] kind = "review"        ->
            ENABLED \E a \in Actors, t \in Texts : ApproveReview(a, t, None)

\* Requests the workflow could be sent about this drill, todo or not.
Kinds ==
    {Todo(k, None) : k \in {"freeze", "start", "submit_review", "review"}}
    \cup {Todo("observation", c) : c \in DOMAIN drill.checkpoints}
    \cup {Todo("retest", f) : f \in DOMAIN drill.findings}

\* The list of todos is the work there is: what it offers the workflow accepts
\* from the coordinator or a reviewer, although the list is computed with
\* checks of its own (a status per record of evidence, say, against start's
\* validation of all four), and what the workflow accepts it offers.  Plans
\* are apart, see PlanIsOfferedInTime.
OfferedIffAccepted ==
    drill.revision < MaxRevision =>
       \A t \in Kinds : t \in Todos <=> Accepted(t.kind, t.resource)

\* A finding without a plan is on the list as soon as it is opened, but can be
\* planned only once the exercise is over, and only before the planned end.
PlanIsOfferedInTime ==
    drill.revision < MaxRevision =>
       \A f \in DOMAIN drill.findings : drill.findings[f].status = "open" =>
          /\ Todo("remediation", f) \in Todos
          /\ Accepted("remediation", f) <=> drill.state = "remediation" /\ now < drill.end

\* Whoever opens a drill that is not certified finds something to do, and the
\* button of the workbench names one of the todos.
NeverWithoutTodo ==
    /\ drill.state # "certified" <=> Todos # {}
    /\ PrimaryAction # None => Todo(PrimaryAction, None) \in Todos
    /\ PrimaryAction = None => ~\E k \in {"freeze", "activation", "start", "submit_review"} : Offers(k)
=============================================================================
