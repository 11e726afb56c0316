---------------------------- MODULE AuditArchive ----------------------------
(***************************************************************************)
(* What the archive of one drill is worth when storage fails: writes append*)
(* to the event chain and an approval seals a dossier, while rows of the   *)
(* database are lost or changed underneath, by faults the code never sees. *)
(*                                                                         *)
(* A write is one transaction (DrillService), so it is one step here.  The *)
(* chain is the sequence Timeline reads, ordered by number; the snapshot   *)
(* and the dossier are fields of the drill's row.  written and sealed      *)
(* remember what the program stored; no action reads them.                 *)
(***************************************************************************)
EXTENDS Dossier

CONSTANTS
    Facts,      \* what a drill may hold when it is sent to review
    Reviewers,  \* independent reviewers
    Garbage,    \* what a damaged field holds
    MaxWrites,  \* bound: writes to the drill
    MaxFaults   \* bound: rows lost or fields changed

FactsFields == {"baseline", "observations", "findings", "checklist"}

\* An absent value.
None == << >>

\* What a damaged digest holds: the digest of nothing.
BrokenHash == <<Garbage, Garbage>>

ASSUME BoundsAssumption == MaxWrites \in Nat /\ MaxFaults \in Nat

\* What an event says was done.
EventTypes == {"drill.created", "write", "review.submitted", "review.returned", "review.approved"}

\* The items of a checklist have an order.
ASSUME FactsAssumption ==
    \A facts \in Facts : IsFiniteSet(facts.checklist) /\ facts.checklist \subseteq Int

\* Damage does not look like what an event may say.
ASSUME GarbageAssumption == Garbage \notin [type : EventTypes, write : Nat]

VARIABLES
    state,      \* "open" for everything before review, "review", "certified"
    snapshot,   \* current_snapshot
    dossier,    \* the dossier in the drill's row
    events,     \* the drill's event rows, in the order of their numbers
    writes,     \* writes so far
    faults,     \* faults so far
    written,    \* every event ever appended, with the row it followed
    sealed      \* the snapshot, dossier and chain of the approval

vars == <<state, snapshot, dossier, events, writes, faults, written, sealed>>

-----------------------------------------------------------------------------
(* Writes.                                                                 *)

\* The i-th event of a chain and the row before it.
Link(chain, i) == [event |-> chain[i], after |-> IF i = 1 THEN None ELSE chain[i - 1]]

\* appendEvent: the event of the n-th write says what the write did.
RecordEvent(type) ==
    /\ writes < MaxWrites
    /\ writes' = writes + 1
    /\ events' = Append(events, NewEvent(events, [type |-> type, write |-> writes']))
    /\ written' = written \cup {Link(events', Len(events'))}
    /\ UNCHANGED faults

\* Any write that neither submits nor decides a review.
Write ==
    /\ state = "open"
    /\ RecordEvent("write")
    /\ UNCHANGED <<state, snapshot, dossier, sealed>>

\* makeSnapshot: the facts, and a digest over all of it.
MakeSnapshot(facts) ==
    LET blank == [id |-> writes + 1, drill |-> "drill", baselineVersion |-> 1,
                  ruleVersion |-> "rules", digest |-> NoHash,
                  baseline |-> facts.baseline, observations |-> facts.observations,
                  findings |-> facts.findings, checklist |-> facts.checklist]
    IN  [blank EXCEPT !.digest = SnapshotDigest(blank)]

SubmitReview(facts) ==
    /\ state = "open"
    /\ RecordEvent("review.submitted")
    /\ state' = "review"
    /\ snapshot' = MakeSnapshot(facts)
    /\ UNCHANGED <<dossier, sealed>>

\* Both decisions recompute the snapshot's digest first.
Decidable == state = "review" /\ SnapshotDigest(snapshot) = snapshot.digest

ReturnReview ==
    /\ Decidable
    /\ RecordEvent("review.returned")
    /\ state' = "open"
    /\ snapshot' = None
    /\ UNCHANGED <<dossier, sealed>>

\* The results a reviewer may send to approve: every item once, in any order.
Passing(checklist) ==
    {[i \in DOMAIN order |-> [item |-> order[i], conclusion |-> "passed", opinion |-> "fine"]] :
        order \in SetToSeqs(checklist)}

\* The approval verifies the chain and puts its head in the dossier.
ApproveReview(reviewer, results) ==
    /\ Decidable
    /\ VerifyChain(events)
    /\ RecordEvent("review.approved")
    /\ state' = "certified"
    /\ dossier' = GenerateDossier(snapshot, Decision(reviewer, HeadHash(events),
                     ChecklistDigest(results), Len(results), results))
    /\ sealed' = [snapshot |-> snapshot, dossier |-> dossier', events |-> events]
    /\ UNCHANGED snapshot

-----------------------------------------------------------------------------
(* Faults of the storage.                                                  *)

Fault == faults < MaxFaults /\ faults' = faults + 1 /\ UNCHANGED <<state, writes, written, sealed>>

LoseEvent(i) ==
    /\ Fault
    /\ events' = RemoveAt(events, i)
    /\ UNCHANGED <<snapshot, dossier>>

DamageEvent(i) ==
    /\ Fault
    /\ \/ events' = [events EXCEPT ![i].content = Garbage]
       \/ events' = [events EXCEPT ![i].previous = BrokenHash]
       \/ events' = [events EXCEPT ![i].hash = BrokenHash]
    /\ UNCHANGED <<snapshot, dossier>>

\* The key keeps numbers apart, and queries order by them.  A fault does not
\* bring back the number an event was written with.
RenumberEvent(i, n) ==
    /\ EventDigest(events[i].previous, n, events[i].content) # events[i].hash
    /\ \A j \in DOMAIN events : events[j].sequence # n
    /\ Fault
    /\ LET rest  == RemoveAt(events, i)
           place == Cardinality({j \in DOMAIN rest : rest[j].sequence < n}) + 1
       IN  events' = InsertAt(rest, place, [events[i] EXCEPT !.sequence = n])
    /\ UNCHANGED <<snapshot, dossier>>

DamageSnapshot ==
    /\ snapshot # None
    /\ Fault
    /\ \/ snapshot' = [snapshot EXCEPT !.digest = BrokenHash]
       \/ \E f \in {"id", "drill", "baselineVersion", "ruleVersion"} :
             snapshot' = [snapshot EXCEPT ![f] = Garbage]
       \/ \E f \in FactsFields, other \in Facts :
             other[f] # snapshot[f] /\ snapshot' = [snapshot EXCEPT ![f] = other[f]]
    /\ UNCHANGED <<dossier, events>>

DamageDossier ==
    /\ dossier # None
    /\ Fault
    /\ \/ dossier' = [dossier EXCEPT !.document = BrokenHash]
       \/ \E f \in DOMAIN dossier \ {"document", "results", "passed"} :
             dossier' = [dossier EXCEPT ![f] = Garbage]
       \/ dossier' = [dossier EXCEPT !.passed = @ + 1]
       \/ \E i \in DOMAIN dossier.results :
             \/ dossier' = [dossier EXCEPT !.results[i].opinion = Garbage]
             \/ dossier' = [dossier EXCEPT !.results[i].conclusion = "returned"]
             \/ dossier' = [dossier EXCEPT !.results[i].item = @ + 1]
             \/ dossier' = [dossier EXCEPT !.results = RemoveAt(@, i)]
    /\ UNCHANGED <<snapshot, events>>

-----------------------------------------------------------------------------

\* Create has stored the drill with its first event.
Init ==
    /\ state = "open" /\ snapshot = None /\ dossier = None
    /\ writes = 1 /\ faults = 0
    /\ events = <<NewEvent(<< >>, [type |-> "drill.created", write |-> 1])>>
    /\ written = {Link(events, 1)}
    /\ sealed = None

Next ==
    \/ Write \/ ReturnReview \/ DamageSnapshot \/ DamageDossier
    \/ \E facts \in Facts : SubmitReview(facts)
    \/ state = "review" /\ \E r \in Reviewers, results \in Passing(snapshot.checklist) :
          ApproveReview(r, results)
    \/ \E i \in DOMAIN events : LoseEvent(i) \/ DamageEvent(i)
    \/ \E i \in DOMAIN events, n \in 0..(MaxWrites + 1) : RenumberEvent(i, n)

Spec == Init /\ [][Next]_vars

-----------------------------------------------------------------------------

\* The verdict of the verification query (workflow.VerifyDossier).
Valid ==
    dossier # None /\ snapshot # None /\ VerifyDossier(dossier, snapshot, events)

\* Nothing cries wolf: as long as storage keeps what it was given, the chain
\* verifies at every start, approval and query, and a dossier verifies from
\* the moment of its approval on, whatever the order of its results and
\* however its sum of participants came out.
NoFalseAlarm ==
    faults = 0 =>
       /\ VerifyChain(events) /\ Len(events) = writes
       /\ state = "review" => Decidable
       /\ dossier # None => Valid

\* What verifies was written: every event of a chain that VerifyChain accepts
\* is on disk as the program wrote it, and so is the row it was appended to,
\* just before it.  Rows can be missing from the end only.
VerifiedChainWasWritten ==
    VerifyChain(events) => \A i \in DOMAIN events : Link(events, i) \in written

\* Fields of a dossier that its canonical payload repeats and that
\* verification takes from the payload and the snapshot only.
Restated == {"metrics", "baselineVersion", "ruleVersion"}

\* A dossier found valid vouches for the review: the snapshot is the one that
\* was approved, reviewer, decision and every item's result are those of the
\* approval, and all events before the approval are there as the approval saw
\* them.
ValidDossierVouches ==
    Valid =>
       /\ snapshot = sealed.snapshot
       /\ \A f \in DOMAIN dossier \ (Restated \cup {"results"}) : dossier[f] = sealed.dossier[f]
       /\ ToSet(dossier.results) = ToSet(sealed.dossier.results)
       /\ SubSeq(events, 1, Len(sealed.events)) = sealed.events

\* No write mends a broken chain: what one start of the service would have
\* reported, every later start reports.
BrokenStaysBroken ==
    [][faults' = faults /\ ~VerifyChain(events) => ~VerifyChain(events')]_vars

=============================================================================
