--------------------------- MODULE ReadinessGate ---------------------------
(***************************************************************************)
(* What the gate promises whoever relies on a certificate (README.md,      *)
(* "state flow"): a drill reaches certification only with every checkpoint *)
(* recorded and every issue anyone raised, by a rule or by a reviewer,     *)
(* resolved; issues are raised by a record or by a returned review and     *)
(* resolved one by one, in remediation only.  DrillWorkflow implements it. *)
(***************************************************************************)
VARIABLES
    phase,      \* where the drill is in the state flow
    remaining,  \* checkpoints without a record
    raised,     \* issues raised so far
    resolved    \* those of them that are resolved

vars == <<phase, remaining, raised, resolved>>

Init ==
    /\ phase = "draft"
    /\ remaining # {}
    /\ raised = {} /\ resolved = {}

Move(from, to) == phase = from /\ phase' = to

Freeze == Move("draft", "baseline_frozen") /\ UNCHANGED <<remaining, raised, resolved>>

Start == Move("baseline_frozen", "in_progress") /\ UNCHANGED <<remaining, raised, resolved>>

\* Recording the last checkpoint ends the exercise when anything is unresolved.
Record ==
    /\ phase = "in_progress"
    /\ \E c \in remaining : remaining' = remaining \ {c}
    /\ raised \subseteq raised'
    /\ phase' = IF remaining' = {} /\ raised' # resolved
                THEN "remediation" ELSE "in_progress"
    /\ UNCHANGED resolved

Resolve ==
    /\ phase = "remediation"
    /\ \E i \in raised \ resolved : resolved' = resolved \cup {i}
    /\ UNCHANGED <<phase, remaining, raised>>

Submit ==
    /\ phase \in {"in_progress", "remediation"}
    /\ remaining = {} /\ raised = resolved
    /\ phase' = "pending_review"
    /\ UNCHANGED <<remaining, raised, resolved>>

\* A review is returned with at least one new issue.
Return ==
    /\ Move("pending_review", "remediation")
    /\ raised \subseteq raised' /\ raised # raised'
    /\ UNCHANGED <<remaining, resolved>>

Approve == Move("pending_review", "certified") /\ UNCHANGED <<remaining, raised, resolved>>

Next == Freeze \/ Start \/ Record \/ Resolve \/ Submit \/ Return \/ Approve

Spec == Init /\ [][Next]_vars
=============================================================================
