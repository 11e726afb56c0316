--------------------------- MODULE DossierFigures ---------------------------
(* The figures a dossier prints of a drill, derived from the snapshot at   *)
(* its approval, against the history of the drill in DrillWorkflow.        *)
EXTENDS DrillProperties, Dossier

\* What the one live record of a checkpoint reported.
Recorded(c) ==
    (CHOOSE o \in drill.observations : o.kind = "live" /\ o.checkpoint = c).metrics

\* A certified drill's figures add up: every finding is counted as closed, by
\* a record of its own next to the one per checkpoint; the participants are
\* those of the exercise without its retests, as long as an int holds them;
\* and the longest time covers every overtime a receipt shows.
FiguresAddUp ==
    drill.state = "certified" =>
       LET figures == MetricsFromSnapshot(drill.snapshot)
           present == MapThenSumSet(LAMBDA c : Recorded(c).participants, DOMAIN drill.checkpoints)
       IN  /\ figures.closed = figures.findings
           /\ figures.observations = figures.checkpoints + figures.findings
           /\ figures.participants = present \/ present > MaxInt
           /\ \A r \in drill.receipts :
                 LET overtime == r.items["TIME_LIMIT"].deviation IN
                 overtime > 0 =>
                    figures.maxElapsed >= drill.checkpoints[r.checkpoint].limit + overtime
=============================================================================
