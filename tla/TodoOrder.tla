----------------------------- MODULE TodoOrder -----------------------------
(***************************************************************************)
(* How a drill's view classifies and orders what is to be done about its   *)
(* findings (internal/workflow/service.go).  A due time is kept as the     *)
(* client wrote it and ordered as text, which says nothing of its place in *)
(* time: RFC3339 leaves the offset open, and time.Parse also takes         *)
(* fractions of a second and hours of one digit.                           *)
(***************************************************************************)
EXTENDS Integers

CONSTANT NearDue    \* thirty minutes, in the units of the clock

ASSUME NearDueAssumption == NearDue \in Nat

\* A due time: when it is, and the place of its text in the order of all texts.
\* One instant has many texts, a text has one instant.
DueTime(instant, text) == [instant |-> instant, text |-> text]

\* No due time, nothing is planned yet: the empty text, which is before all others.
NoDue == [instant |-> -1, text |-> 0]

\* dueClassification of a plan's retest time.
DueStatus(instant, now) ==
    IF now > instant THEN "overdue"
    ELSE IF instant - now <= NearDue THEN "near_due" ELSE "normal"

\* An open finding has no due time and counts as normal.
StatusOf(todo, now) ==
    IF todo.due = NoDue THEN "normal" ELSE DueStatus(todo.due.instant, now)

DueRank(status) == CASE status = "overdue" -> 0 [] status = "near_due" -> 1 [] status = "normal" -> 2

SeverityRank(severity) == CASE severity = "critical" -> 0 [] severity = "major" -> 1 [] severity = "minor" -> 2

\* Mutated form of Precedes: due times are compared only when both have one.
PrecedesIfDue(l, r, now) ==
    LET left == DueRank(StatusOf(l, now))
        right == DueRank(StatusOf(r, now))
    IN  \/ left < right
        \/ left = right /\ SeverityRank(l.severity) < SeverityRank(r.severity)
        \/ /\ left = right /\ l.severity = r.severity
           /\ IF l.due # NoDue /\ r.due # NoDue /\ l.due.text # r.due.text
              THEN l.due.text < r.due.text
              ELSE l.id < r.id

\* The comparison the findings' todos are sorted by: class, severity, due text,
\* identifier.
Precedes(l, r, now) ==
    LET left == DueRank(StatusOf(l, now))
        right == DueRank(StatusOf(r, now))
    IN  \/ left < right
        \/ left = right /\ SeverityRank(l.severity) < SeverityRank(r.severity)
        \/ /\ left = right /\ l.severity = r.severity
           /\ \/ l.due.text < r.due.text
              \/ l.due.text = r.due.text /\ l.id < r.id
=============================================================================
