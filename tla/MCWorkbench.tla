----------------------------- MODULE MCWorkbench -----------------------------
(* Two drills in stages where the tab has something to do, and room for a  *)
(* third.                                                                  *)
EXTENDS WorkbenchProperties, TLC

CONSTANTS A, B, C, t1, t2, none

mcDrills == {A, B, C}
mcTasks  == {t1, t2}

mcSymmetry == Permutations(mcTasks)

mcAt(revision, state, activation, observed, findings) ==
    [revision |-> revision, state |-> state, activation |-> activation,
     observed |-> observed, findings |-> findings, sound |-> TRUE]

mcFrozen   == mcAt(2, "baseline_frozen", FALSE, 0, << >>)
mcReady    == mcAt(3, "baseline_frozen", TRUE, 0, << >>)
mcActive   == mcAt(4, "in_progress", TRUE, 0, << >>)
mcPlanned  == mcAt(7, "remediation", TRUE, 2, <<"planned">>)
mcReview   == mcAt(7, "pending_review", TRUE, 2, << >>)
mcSealed   == mcAt(8, "certified", TRUE, 2, << >>)

mcBoth(x, y) == (A :> x) @@ (B :> y)

mcBegin(found, inputs, others, losses) ==
    [drills |-> found, inputs |-> inputs, others |-> others, losses |-> losses]

\* Long sequences of inputs, and shorter ones with losses.
mcBeginnings ==
    {mcBegin(found, 4, 1, 0) :
        found \in {mcBoth(mcActive, mcActive), mcBoth(mcPlanned, mcPlanned),
                   mcBoth(mcReview, mcReady)}}
    \cup {mcBegin(found, 3, 1, 1) :
        found \in {mcBoth(mcActive, mcSealed), << >>}}

mcFrozenBeginnings == {mcBegin(mcBoth(mcFrozen, mcFrozen), 3, 1, 0)}
=============================================================================
