----------------------------- MODULE DrillRules -----------------------------
(***************************************************************************)
(* The deterministic judgement of one checkpoint (internal/domain/rules.go)*)
(* A rule is evaluated twice by the program: Evaluate decides which        *)
(* findings are opened, BuildJudgmentReceipt writes the receipt the        *)
(* reviewer reads.  The two are separate computations over the same data.  *)
(***************************************************************************)
EXTENDS Integers

RuleCodes == {"CAPACITY_MIN", "TIME_LIMIT", "COMMUNICATION", "ACCESSIBILITY"}

Severities == {"critical", "major"}

\* Mutated form of Severity: a failed communication counts as major.
SeverityOfCapacityOnly(rule) == IF rule = "CAPACITY_MIN" THEN "critical" ELSE "major"

\* Severity Evaluate gives to a failure of the rule.
Severity(rule) ==
    IF rule \in {"CAPACITY_MIN", "COMMUNICATION"} THEN "critical" ELSE "major"

\* Thresholds of a checkpoint that ValidateDraft accepts.
CheckpointType ==
    [limit : Nat \ {0}, capacity : Nat \ {0}, comm : BOOLEAN, access : BOOLEAN]

\* What an observer measured, as ValidateObservationWindow accepts it.
MetricsType ==
    [participants : Nat, elapsed : Nat, comm : BOOLEAN, access : BOOLEAN]

\* The rules an observation fails.
Evaluate(cp, m) ==
    {r \in RuleCodes :
        \/ r = "CAPACITY_MIN"  /\ m.participants < cp.capacity
        \/ r = "TIME_LIMIT"    /\ m.elapsed > cp.limit
        \/ r = "COMMUNICATION" /\ cp.comm /\ ~m.comm
        \/ r = "ACCESSIBILITY" /\ cp.access /\ ~m.access}

\* Mutated form of FailureForRule: only major failures are seen.
MajorFailureForRule(cp, m, rule) == rule \in Evaluate(cp, m) /\ Severity(rule) = "major"

\* Does a retest still fail the rule its finding was opened for?
FailureForRule(cp, m, rule) == rule \in Evaluate(cp, m)

\* Mutated form of Positive: negative deviations stay.
Signed(n) == n

Positive(n) == IF n > 0 THEN n ELSE 0

\* The receipt's items, one per rule, computed from deviations.
BuildJudgmentReceipt(cp, m) ==
    LET shortfall == Positive(cp.capacity - m.participants)
        overtime  == Positive(m.elapsed - cp.limit)
        item(passed, deviation, severity) ==
            [passed |-> passed, deviation |-> deviation, severity |-> severity]
    IN  [r \in RuleCodes |->
            CASE r = "CAPACITY_MIN"  -> item(shortfall = 0, shortfall, "critical")
              [] r = "TIME_LIMIT"    -> item(overtime = 0, overtime, "major")
              [] r = "COMMUNICATION" -> item(cp.comm => m.comm, 0, "critical")
              [] r = "ACCESSIBILITY" -> item(cp.access => m.access, 0, "major")]

\* The rules a receipt reports as failed.
FailedItems(items) == {r \in DOMAIN items : ~items[r].passed}

\* The receipt shows as failed exactly the rules findings are opened for, with
\* their severity, and a deviation wherever a number failed and nowhere else.
JudgedAlike(cp, m) ==
    LET items == BuildJudgmentReceipt(cp, m) IN
    /\ FailedItems(items) = Evaluate(cp, m)
    /\ \A r \in RuleCodes : items[r].severity = Severity(r)
    /\ \A r \in RuleCodes : items[r].deviation >= 0
    /\ \A r \in {"CAPACITY_MIN", "TIME_LIMIT"} : items[r].deviation > 0 <=> ~items[r].passed
=============================================================================
