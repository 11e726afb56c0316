----------------------------- MODULE HttpService -----------------------------
(***************************************************************************)
(* The service as the JSON handlers of internal/web show it to a client:   *)
(* which answer, with which status, a write on a drill gets and what it    *)
(* does to the drill.  Of a drill only what a client tells apart is kept;  *)
(* the rules a write obeys are DrillWorkflow's subject, so any write may   *)
(* also be refused for its content.                                        *)
(***************************************************************************)
EXTENDS Naturals, Sequences

CONSTANTS
    None,           \* an absent value
    Checkpoints     \* checkpoints of a drill

ASSUME CheckpointsAssumption == Checkpoints \in Nat \ {0}

States == {"draft", "baseline_frozen", "in_progress", "remediation",
           "pending_review", "certified"}

FindingStates == {"open", "planned", "closed"}

\* sound: would the dossier's digests be recomputed as they are stored?
DrillType ==
    [revision : Nat \ {0}, state : States, activation : BOOLEAN, observed : Nat,
     findings : Seq(FindingStates), sound : BOOLEAN]

NewDrill ==
    [revision |-> 1, state |-> "draft", activation |-> FALSE, observed |-> 0,
     findings |-> << >>, sound |-> TRUE]

AllClosed(d) == \A n \in DOMAIN d.findings : d.findings[n] = "closed"

\* observed counts the checkpoints with a record; the next one waits for it.
AwaitsObservation(d) == d.state = "in_progress" /\ d.observed < Checkpoints

AllObserved(d) == d.observed = Checkpoints

\* A checkpoint, finding or checklist item is known by the drill that owns it.
Item(id, n) == [owner |-> id, n |-> n]

\* Mutated form of OwnItem: items known by their number alone.
AnyItem(w) == TRUE

\* The drill the path of a write leads to owns the item the write is about.
OwnItem(w) == w.item # None => w.item.owner = w.drill

\* The state the use case behind each route wants.
Permits(d, w) ==
    CASE w.op = "freeze"      -> d.state = "draft"
      [] w.op = "activation"  -> d.state = "baseline_frozen"
      [] w.op = "start"       -> d.state = "baseline_frozen" /\ d.activation
      [] w.op = "observations"-> AwaitsObservation(d) /\ w.item.n = d.observed
      [] w.op = "plan"        -> /\ d.state = "remediation"
                                 /\ w.item.n \in DOMAIN d.findings
                                 /\ d.findings[w.item.n] # "closed"
      [] w.op = "retest"      -> /\ d.state = "remediation"
                                 /\ w.item.n \in DOMAIN d.findings
                                 /\ d.findings[w.item.n] = "planned"
      [] w.op = "submit-review" -> /\ d.state \in {"in_progress", "remediation"}
                                   /\ AllObserved(d) /\ AllClosed(d)
      [] OTHER                -> d.state = "pending_review"

\* One more record, and the findings it opens.
Observed(d, opened) == [d EXCEPT !.observed = @ + 1, !.findings = @ \o opened]

MustRemediate(d) == AllObserved(d) /\ ~AllClosed(d)

\* The drills a write may leave: an observation opens up to two findings, a
\* decision approves or adds the finding of a returned item.
Effects(d, w) ==
    LET next == [d EXCEPT !.revision = w.expected + 1] IN
    CASE w.op = "freeze"      -> {[next EXCEPT !.state = "baseline_frozen"]}
      [] w.op = "activation"  -> {[next EXCEPT !.activation = TRUE]}
      [] w.op = "start"       -> {[next EXCEPT !.state = "in_progress"]}
      [] w.op = "observations"->
            {IF MustRemediate(o) THEN [o EXCEPT !.state = "remediation"] ELSE o :
                o \in {Observed(next, opened) :
                          opened \in {<< >>, <<"open">>, <<"open", "open">>}}}
      [] w.op = "plan"        -> {[next EXCEPT !.findings[w.item.n] = "planned"]}
      [] w.op = "retest"      -> {[next EXCEPT !.findings[w.item.n] = "closed"]}
      [] w.op = "submit-review" -> {[next EXCEPT !.state = "pending_review"]}
      [] OTHER                ->
            {[next EXCEPT !.state = "certified"],
             [next EXCEPT !.state = "remediation", !.findings = Append(@, "open")]}

\* Mutated form of Current: only a revision that is ahead is refused.
NotAhead(d, w) == w.expected <= d.revision

\* ensureRevision
Current(d, w) == d.revision = w.expected

\* How the use case may end: "done" carries the new aggregate.
Outcomes(drills, w) ==
    IF w.drill \notin DOMAIN drills THEN {"not_found"}
    ELSE IF ~Current(drills[w.drill], w) THEN {"conflict"}
    ELSE {"invalid", "forbidden"}
         \cup (IF ~OwnItem(w) THEN {"not_found"}
               ELSE IF Permits(drills[w.drill], w) THEN {"done"} ELSE {})

\* writeError, writeJSON
Status(outcome) ==
    CASE outcome = "done"      -> 200
      [] outcome = "created"   -> 201
      [] outcome = "invalid"   -> 422
      [] outcome = "conflict"  -> 409
      [] outcome = "not_found" -> 404
      [] outcome = "forbidden" -> 403
      [] OTHER                 -> 500

\* A dossier that exists and recomputes is valid, anything else a conflict.
ValidDossier(drills, id) ==
    /\ id \in DOMAIN drills
    /\ drills[id].state = "certified" /\ drills[id].sound

VerdictStatus(valid) == IF valid THEN 200 ELSE 409

\* response.ok of fetch
Succeeded(status) == status \in 200..299
=============================================================================
