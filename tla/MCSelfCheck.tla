----------------------------- MODULE MCSelfCheck -----------------------------
(* The self check has one instance: its script fixes every value.          *)
EXTENDS SelfCheck

mcActors == {Coordinator, Reviewer}
mcDrafts == {SelfDraft}
mcSubmissions == {SelfEvidence}
mcReadings == {Reading(10, 90), Reading(25, 80)}
mcTimes == {Begun, RetestAt}
mcTexts == {"cause", "action", "owner", "reason"}
=============================================================================
