------------------------------ MODULE Workbench ------------------------------
(***************************************************************************)
(* One tab of the workbench (assets/app.js).  Handlers are asynchronous:   *)
(* each runs to its next await in one step, and any number of them wait at *)
(* the same time for answers that come in any order or not at all.  What   *)
(* they share is the state object, the rendered case and the dialogs.      *)
(* Other users write through the same service.                             *)
(***************************************************************************)
EXTENDS HttpService, FiniteSets

CONSTANTS
    Drills,         \* identifiers of drills
    Tasks,          \* bound: handlers waiting at one time
    Beginnings      \* the drills a tab may find, and how often the user acts,
                    \* others write or storage fails, and messages are lost

\* A drill that was written since its creation shows it by its revision.
ASSUME BeginningsAssumption ==
    \A b \in Beginnings :
       /\ DOMAIN b.drills \subseteq Drills
       /\ b.drills \in [DOMAIN b.drills -> DrillType]
       /\ \A id \in DOMAIN b.drills :
             b.drills[id].revision = 1 => b.drills[id].state = "draft"
       /\ {b.inputs, b.others, b.losses} \subseteq Nat

ViewType == [id : Drills, drill : DrillType]
ItemType == [owner : Drills, n : Nat]

ASSUME NoneAssumption == None \notin Drills \cup ViewType \cup ItemType

VARIABLES
    drills,     \* the service's drills
    current,    \* state.current: a view of a drill, or None
    panel,      \* the view renderCase rendered last
    listed,     \* the drills in the side bar
    timeline,   \* the drill whose events the timeline shows
    mark,       \* the verdict appended to the dossier
    dialog,     \* the modal dialog that is open
    picked,     \* state.findingID
    task,       \* the handlers waiting for an answer
    selected,   \* the drill the user selected or created last
    accepted,   \* history: this tab's writes the service accepted
    left        \* bound: inputs, writes of others and losses to come; calm as
                \* long as the user has waited for every answer and nobody else
                \* has written or got in the way

tab  == <<current, panel, listed, timeline, mark, dialog, picked>>
vars == <<tab, drills, task, selected, accepted, left>>

View(id) == [id |-> id, drill |-> drills[id]]

\* What a form shows: a dialog the case it was opened on, a form of the case
\* the case rendered around it.
Stamp(view) == IF view = None THEN None
               ELSE [id |-> view.id, revision |-> view.drill.revision]

NoDialog == [kind |-> "none", form |-> 0, seen |-> None]
NoTask   == [call |-> "none"]
Waiting  == [kind |-> "waiting"]
Failed   == [kind |-> "failed"]
Reply(value) == [kind |-> "ok", value |-> value]

\* A handler waiting for a call, and the calls it makes after it.
Await(call, drill, write, rest) ==
    [call |-> call, drill |-> drill, write |-> write, rest |-> rest, reply |-> Waiting]

Idle(t) == task[t] = NoTask

Begin(t, call, drill, write, rest) ==
    /\ Idle(t)
    /\ task' = [task EXCEPT ![t] = Await(call, drill, write, rest)]

Settled == \A t \in Tasks : Idle(t)

Spend(what) ==
    /\ left[what] > 0
    /\ left' = [left EXCEPT ![what] = @ - 1, !.calm = @ /\ Settled /\ what = "inputs"]

Input == Spend("inputs")

\* A number for the form this input opens.
FormNo == left.inputs

\* mutation(): the revision of state.current as it is now.
Mutation(op, item, form, seen) ==
    [op |-> op, drill |-> current.id, expected |-> current.drill.revision,
     item |-> item, form |-> form, seen |-> seen]

-----------------------------------------------------------------------------
(* What the user does.  A dialog is modal: while one is open only its own  *)
(* form and its close button answer.                                       *)

NoModal == dialog = NoDialog

Select(t, id) ==
    /\ Input /\ NoModal
    /\ \/ id \in listed
       \/ current # None /\ id = current.id
    /\ Begin(t, "load", id, None, <<"timeline">>)
    /\ selected' = id
    /\ UNCHANGED <<tab, drills, accepted>>

\* renderPrimaryAction: the button of the case on the screen.
PrimaryOp(d) ==
    CASE d.state = "draft" -> "freeze"
      [] d.state = "baseline_frozen" /\ ~d.activation -> "activation"
      [] d.state = "baseline_frozen" /\ d.activation -> "start"
      [] d.state \in {"in_progress", "remediation"} /\ AllObserved(d) /\ AllClosed(d)
            -> "submit-review"
      [] OTHER -> None

\* primaryAction: the button's action on state.current.
PrimaryAction(t) ==
    /\ Input /\ NoModal /\ panel # None
    /\ LET op == PrimaryOp(panel.drill) IN
       /\ op \notin {None, "activation"}
       /\ Begin(t, "post", current.id, Mutation(op, None, 0, Stamp(panel)),
                <<"timeline", "list">>)
    /\ UNCHANGED <<tab, drills, selected, accepted>>

Open(kind) ==
    /\ Input /\ NoModal
    /\ dialog' = [kind |-> kind, form |-> FormNo, seen |-> Stamp(current)]

OpenCreate ==
    /\ Open("create")
    /\ UNCHANGED <<current, panel, listed, timeline, mark, picked, drills, task,
                   selected, accepted>>

\* By the primary button, or to replace evidence there is.
OpenActivation ==
    /\ panel # None /\ panel.drill.state = "baseline_frozen"
    /\ Open("activation")
    /\ UNCHANGED <<current, panel, listed, timeline, mark, picked, drills, task,
                   selected, accepted>>

\* openFinding notes the finding, and then fails if state.current does not
\* have it, which a new drill not rendered yet does not.
OpenFinding ==
    /\ panel # None
    /\ \E n \in DOMAIN panel.drill.findings :
          /\ picked' = Item(panel.id, n)
          /\ IF current.id = panel.id
             THEN \/ panel.drill.findings[n] \in {"open", "planned"} /\ Open("plan")
                  \/ panel.drill.findings[n] = "planned" /\ Open("retest")
             ELSE panel.drill.findings[n] # "closed" /\ Input /\ NoModal /\ UNCHANGED dialog
    /\ UNCHANGED <<current, panel, listed, timeline, mark, drills, task, selected,
                   accepted>>

CloseDialog ==
    /\ ~NoModal /\ dialog' = NoDialog
    /\ UNCHANGED <<current, panel, listed, timeline, mark, picked, drills, task,
                   selected, accepted, left>>

\* The create form stays open until its answer comes.
SubmitCreate(t) ==
    /\ Input /\ dialog.kind = "create"
    /\ Begin(t, "create", None, [op |-> "create", form |-> dialog.form],
             <<"list", "load", "timeline">>)
    /\ UNCHANGED <<tab, drills, selected, accepted>>

\* The evidence form takes mutation() first and then digests its texts; the
\* path is built, and the dialog closed, after that.
SubmitActivation(t) ==
    /\ Input /\ dialog.kind = "activation"
    /\ Begin(t, "digest", None, Mutation("activation", None, dialog.form, dialog.seen), << >>)
    /\ UNCHANGED <<tab, drills, selected, accepted>>

SubmitRetest(t) ==
    /\ Input /\ dialog.kind = "retest"
    /\ Begin(t, "digest", None, Mutation("retest", None, dialog.form, dialog.seen), << >>)
    /\ UNCHANGED <<tab, drills, selected, accepted>>

\* The observation form is part of the case; it throws unless state.current
\* waits for an observation.  What it shows is the case rendered when it is
\* submitted: renderCase fills it anew but for the evidence text, which may be
\* older.
SubmitObservation(t) ==
    /\ Input /\ NoModal
    /\ panel # None /\ AwaitsObservation(panel.drill) /\ AwaitsObservation(current.drill)
    /\ Begin(t, "digest", None,
             Mutation("observations", Item(current.id, current.drill.observed), 0,
                      Stamp(panel)), << >>)
    /\ UNCHANGED <<tab, drills, selected, accepted>>

\* A plan has nothing to digest: it is posted when it is submitted.
SubmitPlan(t) ==
    /\ Input /\ dialog.kind = "plan"
    /\ Begin(t, "post", current.id, Mutation("plan", picked, dialog.form, dialog.seen),
             <<"timeline", "list">>)
    /\ dialog' = NoDialog
    /\ UNCHANGED <<current, panel, listed, timeline, mark, picked, drills, selected,
                   accepted>>

\* The checklist is read from the rendered case, the rest from state.current.
SubmitReview(t) ==
    /\ Input /\ NoModal
    /\ panel # None /\ panel.drill.state = "pending_review"
    /\ current.drill.state = "pending_review"
    /\ Begin(t, "post", current.id,
             Mutation("review-decision", Item(panel.id, 0), 0, Stamp(panel)),
             <<"timeline", "list">>)
    /\ UNCHANGED <<tab, drills, selected, accepted>>

Verify(t) ==
    /\ Input /\ NoModal /\ panel # None /\ panel.drill.state = "certified"
    /\ Begin(t, "verify", current.id, None, << >>)
    /\ UNCHANGED <<tab, drills, selected, accepted>>

ReloadTimeline(t) ==
    /\ Input /\ NoModal /\ current # None
    /\ Begin(t, "timeline", current.id, None, << >>)
    /\ UNCHANGED <<tab, drills, selected, accepted>>

\* The digest is there: the dialog closes, and the write goes to the drill
\* that is current now, a retest to the finding picked last.
Digested(t) ==
    /\ ~Idle(t) /\ task[t].call = "digest"
    /\ LET w == task[t].write
           post == [w EXCEPT !.drill = current.id,
                             !.item = IF w.op = "retest" THEN picked ELSE w.item]
       IN  /\ task' = [task EXCEPT ![t] =
                         Await("post", current.id, post, <<"timeline", "list">>)]
           /\ dialog' = IF w.form # 0 /\ dialog.kind \in
                              IF w.op = "retest" THEN {"plan", "retest"} ELSE {w.op}
                        THEN NoDialog ELSE dialog
    /\ UNCHANGED <<current, panel, listed, timeline, mark, picked, drills, selected,
                   accepted, left>>

-----------------------------------------------------------------------------
(* The network and the service.                                            *)

Requested(t) == ~Idle(t) /\ task[t].call # "digest" /\ task[t].reply = Waiting

Answer(t, reply) == task' = [task EXCEPT ![t].reply = reply]

\* api(): an answer with an error status is an exception.
AnswerWith(t, status, value) ==
    Answer(t, IF Succeeded(status) THEN Reply(value) ELSE Failed)

ServeRead(t) ==
    /\ Requested(t)
    /\ LET id == task[t].drill IN
       \/ task[t].call = "list" /\ Answer(t, Reply(DOMAIN drills))
       \/ task[t].call = "load" /\ Answer(t, Reply(View(id)))
       \/ task[t].call = "timeline" /\ Answer(t, Reply(id))
       \/ /\ task[t].call = "verify"
          /\ AnswerWith(t, VerdictStatus(ValidDossier(drills, id)), ValidDossier(drills, id))
    /\ UNCHANGED <<tab, drills, selected, accepted, left>>

\* A draft that is valid gets an identifier of its own.
ServeCreate(t) ==
    /\ Requested(t) /\ task[t].call = "create"
    /\ \/ AnswerWith(t, Status("invalid"), None) /\ UNCHANGED <<drills, accepted>>
       \/ \E id \in Drills \ DOMAIN drills :
             /\ drills' = [i \in DOMAIN drills \cup {id} |->
                              IF i = id THEN NewDrill ELSE drills[i]]
             /\ AnswerWith(t, Status("created"), [id |-> id, drill |-> NewDrill])
             /\ accepted' = accepted \cup
                   {[op |-> "create", drill |-> id, at |-> 0,
                     form |-> task[t].write.form, seen |-> None]}
    /\ UNCHANGED <<tab, selected, left>>

ServePost(t) ==
    /\ Requested(t) /\ task[t].call = "post"
    /\ LET w == task[t].write IN
       \E outcome \in Outcomes(drills, w) :
          IF outcome = "done"
          THEN \E d \in Effects(drills[w.drill], w) :
                 /\ drills' = [drills EXCEPT ![w.drill] = d]
                 /\ AnswerWith(t, Status(outcome), [id |-> w.drill, drill |-> d])
                 /\ accepted' = accepted \cup
                       {[op |-> w.op, drill |-> w.drill, at |-> drills[w.drill].revision,
                         form |-> w.form, seen |-> w.seen]}
          ELSE AnswerWith(t, Status(outcome), None) /\ UNCHANGED <<drills, accepted>>
    /\ UNCHANGED <<tab, selected, left>>

\* The request or its answer is lost: fetch rejects.
Lose(t) ==
    /\ Spend("losses")
    /\ ~Idle(t) /\ task[t].call # "digest" /\ task[t].reply # Failed
    /\ Answer(t, Failed)
    /\ UNCHANGED <<tab, drills, selected, accepted>>

\* Another user's write, on the revision there is.
OtherWrite(id) ==
    /\ Spend("others")
    /\ \E op \in {"freeze", "activation", "start", "observations", "plan", "retest",
                  "submit-review", "review-decision"},
          n \in DOMAIN drills[id].findings \cup {0, drills[id].observed} :
          LET w == [op |-> op, drill |-> id, expected |-> drills[id].revision,
                    item |-> Item(id, n)]
          IN  /\ "done" \in Outcomes(drills, w)
              /\ \E d \in Effects(drills[id], w) : drills' = [drills EXCEPT ![id] = d]
    /\ UNCHANGED <<tab, task, selected, accepted>>

\* A stored dossier is damaged.
Damage(id) ==
    /\ Spend("others")
    /\ drills[id].state = "certified" /\ drills[id].sound
    /\ drills' = [drills EXCEPT ![id].sound = FALSE]
    /\ UNCHANGED <<tab, task, selected, accepted>>

-----------------------------------------------------------------------------
(* The answers arrive.                                                     *)

Answered(t, call) == ~Idle(t) /\ task[t].call = call /\ task[t].reply.kind = "ok"

\* The handler goes on with its next call, or ends.
Proceed(t, id) ==
    LET rest == task[t].rest IN
    task' = [task EXCEPT ![t] = IF rest = << >> THEN NoTask
                                ELSE Await(Head(rest), id, None, Tail(rest))]

\* Mutated form of ShowCase: only another drill is rendered.
ShowOther(view) ==
    /\ current' = view
    /\ IF panel # None /\ panel.id = view.id THEN UNCHANGED <<panel, mark>>
       ELSE panel' = view /\ mark' = None

\* Mutated form of ShowCase: rendered before it is assigned.
ShowPrevious(view) == current' = view /\ panel' = current /\ mark' = None

\* state.current = view; renderCase().  The dossier is rendered anew, unmarked.
ShowCase(view) == current' = view /\ panel' = view /\ mark' = None

\* The answer of loadDrill or mutate, whatever was selected since.
CaseArrives(t) ==
    /\ \E call \in {"load", "post"} : Answered(t, call)
    /\ ShowCase(task[t].reply.value)
    /\ Proceed(t, task[t].reply.value.id)
    /\ UNCHANGED <<listed, timeline, dialog, picked, drills, selected, accepted, left>>

\* The answer of the create form: current, not rendered before it is loaded.
CreatedArrives(t) ==
    /\ Answered(t, "create")
    /\ current' = task[t].reply.value
    /\ dialog' = IF dialog.kind = "create" THEN NoDialog ELSE dialog
    /\ selected' = current'.id
    /\ Proceed(t, selected')
    /\ UNCHANGED <<panel, listed, timeline, mark, picked, drills, accepted, left>>

\* loadList goes on to the drill asked for, else the current, else the first.
ListArrives(t) ==
    /\ Answered(t, "list") /\ task[t].rest # << >>
    /\ listed' = task[t].reply.value
    /\ LET targets == IF task[t].drill # None THEN {task[t].drill}
                      ELSE IF current # None THEN {current.id} ELSE listed'
       IN  \/ \E id \in targets : Proceed(t, id) /\ UNCHANGED <<current, panel>>
           \/ /\ targets = {} /\ task' = [task EXCEPT ![t] = NoTask]
              /\ current' = None /\ panel' = None
    /\ UNCHANGED <<timeline, mark, dialog, picked, drills, selected, accepted, left>>

\* refreshListOnly
ListRefreshed(t) ==
    /\ Answered(t, "list") /\ task[t].rest = << >>
    /\ listed' = task[t].reply.value
    /\ Proceed(t, None)
    /\ UNCHANGED <<current, panel, timeline, mark, dialog, picked, drills, selected,
                   accepted, left>>

TimelineArrives(t) ==
    /\ Answered(t, "timeline")
    /\ timeline' = task[t].reply.value
    /\ Proceed(t, task[t].drill)
    /\ UNCHANGED <<current, panel, listed, mark, dialog, picked, drills, selected,
                   accepted, left>>

\* The verdict is appended to the dossier on the screen.
VerdictArrives(t) ==
    /\ Answered(t, "verify")
    /\ mark' = IF task[t].reply.value THEN "verified" ELSE "failed"
    /\ Proceed(t, None)
    /\ UNCHANGED <<current, panel, listed, timeline, dialog, picked, drills, selected,
                   accepted, left>>

\* An exception ends the handler with a notice, except in loadTimeline, which
\* handles its own.
FailureArrives(t) ==
    /\ ~Idle(t) /\ task[t].reply = Failed
    /\ IF task[t].call = "timeline" THEN Proceed(t, task[t].drill)
       ELSE task' = [task EXCEPT ![t] = NoTask]
    /\ UNCHANGED <<tab, drills, selected, accepted, left>>

-----------------------------------------------------------------------------
\* The page has been loaded and asks for the list.
Init ==
    /\ current = None /\ panel = None /\ listed = {} /\ timeline = None /\ mark = None
    /\ dialog = NoDialog /\ picked = None /\ selected = None /\ accepted = {}
    /\ \E b \in Beginnings :
          /\ drills = b.drills
          /\ left = [inputs |-> b.inputs, others |-> b.others, losses |-> b.losses, calm |-> TRUE]
    /\ \E t \in Tasks :
          task = [x \in Tasks |-> IF x = t THEN Await("list", None, None, <<"load", "timeline">>)
                                  ELSE NoTask]

User(t) ==
    \/ \E id \in Drills : Select(t, id)
    \/ PrimaryAction(t) \/ SubmitCreate(t) \/ SubmitActivation(t) \/ SubmitRetest(t)
    \/ SubmitObservation(t) \/ SubmitPlan(t) \/ SubmitReview(t) \/ Verify(t)
    \/ ReloadTimeline(t)

Dialogs ==
    \/ OpenCreate \/ OpenActivation \/ OpenFinding \/ CloseDialog

Service(t) == ServeRead(t) \/ ServeCreate(t) \/ ServePost(t)

Arrival(t) ==
    \/ CaseArrives(t) \/ CreatedArrives(t) \/ ListArrives(t) \/ ListRefreshed(t)
    \/ TimelineArrives(t) \/ VerdictArrives(t) \/ FailureArrives(t)

Next ==
    \/ \E t \in Tasks : User(t) \/ Digested(t) \/ Service(t) \/ Lose(t) \/ Arrival(t)
    \/ Dialogs
    \/ \E id \in DOMAIN drills : OtherWrite(id) \/ Damage(id)

Spec == Init /\ [][Next]_vars
=============================================================================
