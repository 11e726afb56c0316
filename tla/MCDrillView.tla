---------------------------- MODULE MCDrillView ----------------------------
(* The drill, its view and its dossier's figures together, over the        *)
(* instances of MCDrillWorkflow.                                           *)
EXTENDS MCDrillWorkflow, DrillView, DossierFigures
=============================================================================
