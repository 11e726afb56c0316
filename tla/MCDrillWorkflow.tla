-------------------------- MODULE MCDrillWorkflow --------------------------
(* Small instances of DrillWorkflow: drafts of one and two checkpoints with*)
(* different requirements, readings that pass, fail one and fail two rules,*)
(* evidence that lasts, expires, never covers the start or repeats a digest.*)
EXTENDS DrillProperties

mcCheckpoints ==
    <<[limit |-> 1, capacity |-> 1, comm |-> TRUE, access |-> FALSE],
      [limit |-> 1, capacity |-> 1, comm |-> FALSE, access |-> TRUE]>>

mcDraft(start, end, checkpoints) ==
    [coordinator |-> "coordinator", start |-> start, end |-> end,
     checkpoints |-> checkpoints]

mcDrafts == {mcDraft(1, 2, mcCheckpoints), mcDraft(2, 1, mcCheckpoints),
             mcDraft(1, 2, << >>)}

\* One checkpoint only, for runs that go deeper elsewhere.
mcShortDrafts == {mcDraft(1, 2, SubSeq(mcCheckpoints, 1, 1))}

mcNumber == [evacuation_route |-> 1, communication_gear |-> 2,
             accessible_facility |-> 3, personnel_ready |-> 4]

mcEvidence(until) ==
    [c \in Categories |-> [collected |-> 0, until |-> until, digest |-> mcNumber[c]]]

mcSubmissions ==
    {mcEvidence(2), mcEvidence(1),
     [mcEvidence(2) EXCEPT !["personnel_ready"].until = 0],
     [mcEvidence(2) EXCEPT !["personnel_ready"].digest = 1]}

mcReading(participants, elapsed, passed) ==
    [participants |-> participants, elapsed |-> elapsed,
     comm |-> passed, access |-> passed]

mcReadings == {mcReading(1, 1, TRUE), mcReading(1, 2, TRUE), mcReading(1, 1, FALSE)}

mcTwoReadings == {mcReading(1, 1, TRUE), mcReading(0, 1, TRUE)}

mcActors == {"coordinator", "reviewer"}
=============================================================================
