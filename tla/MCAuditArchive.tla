--------------------------- MODULE MCAuditArchive ---------------------------
(* Small instances of AuditArchive: facts that differ in observations,     *)
(* findings and checklist, one of them with more participants than an int  *)
(* of this instance holds.                                                 *)
EXTENDS AuditArchive

mcRecord(id, kind, participants, elapsed) ==
    [id |-> id, kind |-> kind,
     metrics |-> [participants |-> participants, elapsed |-> elapsed]]

mcFacts ==
    {[baseline |-> <<1>>, observations |-> {mcRecord(1, "live", 2, 1)},
      findings |-> << >>, checklist |-> {1}],
     [baseline |-> <<1, 2>>,
      observations |-> {mcRecord(1, "live", 2, 1), mcRecord(2, "live", 3, 2),
                        mcRecord(3, "retest", 1, 4)},
      findings |-> [f \in {7} |-> [status |-> "closed"]], checklist |-> {1, 2}]}
=============================================================================
