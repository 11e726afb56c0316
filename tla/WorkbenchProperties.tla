------------------------- MODULE WorkbenchProperties -------------------------
(* What the workbench owes its user and the other users of the service.    *)
EXTENDS Workbench

Accepted(ops) == {a \in accepted : a.op \in ops}

\* The drill and revision a write was accepted on are those its form showed.
AcceptedAsSeen(a) == a.seen = [id |-> a.drill, revision |-> a.at]

\* A record of the site and a review decision are forms of the case itself,
\* rendered with it: whatever answers arrive while the evidence is digested,
\* the service accepts one only on the drill and revision that were on the
\* screen when it was submitted.  When its free texts were typed is not said.
CaseFormsAreExact ==
    \A a \in Accepted({"observations", "review-decision"}) : AcceptedAsSeen(a)

\* A plan is accepted only for the drill its form was opened on, whatever
\* case has come to the screen behind the dialog.
PlansKeepTheirDrill ==
    \A a \in Accepted({"plan"}) : a.seen.id = a.drill

\* A button acts on the drill and revision on the screen.  Between the answer
\* of a create form and the loading of the new drill it acts on the new one,
\* but then it can only freeze it.
ButtonsActOnTheShown ==
    \A a \in Accepted({"freeze", "start", "submit-review"}) :
        \/ AcceptedAsSeen(a)
        \/ a.op = "freeze" /\ \E c \in Accepted({"create"}) : c.drill = a.drill

\* expected_revision prevents blind overwriting (README.md): every accepted
\* write was composed on the drill and revision it is applied to.
NoBlindOverwrite ==
    \A a \in accepted : a.op # "create" => AcceptedAsSeen(a)

\* The screen shows the service as it is.
UpToDate ==
    /\ listed = DOMAIN drills
    /\ current = panel
    /\ panel # None <=> listed # {}
    /\ panel # None => panel = View(panel.id) /\ timeline = panel.id
    /\ selected # None => panel.id = selected

\* A tab whose user waits for every answer, while nobody else writes and
\* nothing is lost, shows the service as it is: once every answer has come,
\* whatever was selected, created, written or refused, the case on the screen
\* is the one state.current holds and the service stores, of the drill the
\* user selected last, with its events and beside the list of all drills.
CalmScreenIsCurrent ==
    left.calm /\ Settled => UpToDate
=============================================================================
