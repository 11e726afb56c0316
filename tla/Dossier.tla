------------------------------ MODULE Dossier ------------------------------
(***************************************************************************)
(* The readiness dossier: how an approval derives it from the snapshot     *)
(* under review, and what its later verification recomputes and compares   *)
(* (internal/audit/dossier.go).  As in AuditChain a digest is the data it  *)
(* covers.                                                                 *)
(***************************************************************************)
EXTENDS Integers, FiniteSets, Sequences, SequencesExt, AuditChain

CONSTANT MaxInt     \* largest value of the int that sums participants

ASSUME MaxIntAssumption == MaxInt \in Nat

\* Two's complement: what an int holds after a sum of n.
Wrapped(n) == ((n + MaxInt + 1) % (2 * (MaxInt + 1))) - (MaxInt + 1)

LiveRecords(snapshot) == {o \in snapshot.observations : o.kind = "live"}

\* Mutated form of Counted: retests are counted as well.
CountedWithRetests(snapshot) == snapshot.observations

\* The records whose participants the dossier adds up.
Counted(snapshot) == LiveRecords(snapshot)

MetricsFromSnapshot(snapshot) ==
    [checkpoints  |-> Len(snapshot.baseline),
     observations |-> Cardinality(snapshot.observations),
     findings     |-> Cardinality(DOMAIN snapshot.findings),
     closed       |-> Cardinality({f \in DOMAIN snapshot.findings :
                                      snapshot.findings[f].status = "closed"}),
     maxElapsed   |-> Max({0} \cup {o.metrics.elapsed : o \in snapshot.observations}),
     participants |-> Wrapped(MapThenSumSet(LAMBDA o : o.metrics.participants,
                                            Counted(snapshot)))]

\* The digest covers the snapshot with its digest field blank.
SnapshotDigest(snapshot) == <<[snapshot EXCEPT !.digest = NoHash]>>

\* The results that are sorted before the i-th: by item, else as they came.
SortedBefore(results, i) ==
    {j \in DOMAIN results : \/ results[j].item < results[i].item
                            \/ results[j].item = results[i].item /\ j < i}

\* The digest covers the results in the order of their items.
ChecklistDigest(results) ==
    [k \in DOMAIN results |->
        results[CHOOSE i \in DOMAIN results : Cardinality(SortedBefore(results, i)) = k - 1]]

\* dossierPayload: what the document digest covers.
PayloadFields ==
    {"drill", "baselineVersion", "snapshot", "decision", "reviewer", "metrics",
     "ruleVersion", "head", "checklistDigest", "passed"}

\* What GenerateDossier takes from the decision, apart from the snapshot.
Decision(reviewer, head, checklistDigest, passed, results) ==
    [reviewer |-> reviewer, head |-> head, checklistDigest |-> checklistDigest,
     passed |-> passed, results |-> results]

\* The payload of a decision on a snapshot.
NewPayload(snapshot, decision) ==
    [drill           |-> snapshot.drill,
     baselineVersion |-> snapshot.baselineVersion,
     snapshot        |-> snapshot.id,
     decision        |-> "approved",
     reviewer        |-> decision.reviewer,
     metrics         |-> MetricsFromSnapshot(snapshot),
     ruleVersion     |-> snapshot.ruleVersion,
     head            |-> decision.head,
     checklistDigest |-> decision.checklistDigest,
     passed          |-> decision.passed]

\* The dossier repeats the payload next to its canonical form and its digest,
\* and keeps the results.
DossierFields == PayloadFields \cup {"results", "canonical", "document"}

\* The dossier of a decision on a snapshot whose digest holds.
GenerateDossier(snapshot, decision) ==
    LET payload == NewPayload(snapshot, decision)
        rest    == [results |-> decision.results, canonical |-> payload,
                    document |-> <<payload>>]
    IN  [f \in DossierFields |-> IF f \in PayloadFields THEN payload[f] ELSE rest[f]]

\* What a stored dossier says the decision was.
DecisionOf(dossier) ==
    Decision(dossier.reviewer, dossier.head, dossier.checklistDigest, dossier.passed,
             dossier.results)

\* Mutated form of HeadFound: the head has to be the last event.
HeadIsLast(dossier, events) == dossier.head = HeadHash(events)

\* The approval's own event follows the head, so any event will do.
HeadFound(dossier, events) ==
    \/ dossier.head = NoHash /\ events = << >>
    \/ \E i \in DOMAIN events : events[i].hash = dossier.head

\* One result for each item of the snapshot's checklist, all of them passed.
ChecklistPassed(dossier, snapshot) ==
    /\ \A i \in DOMAIN dossier.results :
          /\ dossier.results[i].conclusion = "passed"
          /\ dossier.results[i].item \in snapshot.checklist
          /\ \A j \in 1..(i - 1) : dossier.results[j].item # dossier.results[i].item
    /\ Len(dossier.results) = dossier.passed
    /\ Len(dossier.results) = Cardinality(snapshot.checklist)

\* Mutated form of NothingDrifted: only the payload is compared.
PayloadSame(dossier, snapshot) ==
    dossier.canonical = GenerateDossier(snapshot, DecisionOf(dossier)).canonical

\* The dossier generated anew has the stored payload and document digest.
NothingDrifted(dossier, snapshot) ==
    LET expected == GenerateDossier(snapshot, DecisionOf(dossier)) IN
    /\ SnapshotDigest(snapshot) = snapshot.digest
    /\ expected.canonical = dossier.canonical
    /\ expected.document = dossier.document

VerifyDossier(dossier, snapshot, events) ==
    /\ dossier.decision = "approved"
    /\ dossier.drill = snapshot.drill
    /\ dossier.snapshot = snapshot.id
    /\ VerifyChain(events)
    /\ HeadFound(dossier, events)
    /\ ChecklistDigest(dossier.results) = dossier.checklistDigest
    /\ ChecklistPassed(dossier, snapshot)
    /\ NothingDrifted(dossier, snapshot)
=============================================================================
