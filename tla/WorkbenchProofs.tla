--------------------------- MODULE WorkbenchProofs ---------------------------
(* Proofs about the workbench, for any drills, handlers and beginnings:    *)
(* forms and buttons act on what they showed, and a tab at rest that nobody*)
(* disturbs shows the service as it is.                                    *)
EXTENDS WorkbenchProperties, SequenceTheorems, TLAPS

CreatedHere(id) == \E c \in Accepted({"create"}) : c.drill = id

Stored(view) == view \in ViewType /\ view.id \in DOMAIN drills

\* The drills the service holds, and what the bounds leave.
ServiceOK ==
    /\ DOMAIN drills \subseteq Drills /\ drills \in [DOMAIN drills -> DrillType]
    /\ \A id \in DOMAIN drills : drills[id].revision = 1 => drills[id].state = "draft"
    /\ left \in [inputs : Nat, others : Nat, losses : Nat, calm : BOOLEAN]

\* The case on the screen is the one state.current holds, unless that is a
\* drill this tab has just created.
ScreenOK ==
    /\ listed \subseteq DOMAIN drills
    /\ current # None => Stored(current)
    /\ panel # None => Stored(panel)
    /\ current # panel =>
          current # None /\ current.drill = NewDrill /\ CreatedHere(current.id)
    /\ dialog.kind \in {"activation", "plan", "retest"} => current # None
    /\ dialog.kind = "plan" => picked \in ItemType /\ picked.owner = dialog.seen.id

\* A form of the case names the item it was rendered with, a plan the finding
\* its dialog was opened on, a button the case on the screen or a new drill.
WriteOK(w) ==
    /\ w.op \in {"observations", "review-decision"} =>
          w.item \in ItemType /\ w.seen = [id |-> w.item.owner, revision |-> w.expected]
    /\ w.op = "plan" => w.item \in ItemType /\ w.item.owner = w.seen.id
    /\ w.op \in {"freeze", "start", "submit-review"} =>
          \/ w.seen = [id |-> w.drill, revision |-> w.expected]
          \/ w.expected = 1 /\ CreatedHere(w.drill)

WriteFields == {"op", "drill", "expected", "item", "form", "seen"}

IsWrite(w) == w = [f \in WriteFields |-> w[f]]

TaskFields == {"call", "drill", "write", "rest", "reply"}

IsTask(k) == k = [f \in TaskFields |-> k[f]]

\* The calls a handler may still have to make.
Reads == {"list", "load", "timeline"}

TaskOK(k) ==
    /\ IsTask(k)
    /\ k.drill \in DOMAIN drills \cup {None}
    /\ k.rest \in Seq(Reads)
    /\ k.call \in {"load", "post", "timeline", "verify"} => k.drill # None
    /\ k.call = "verify" => k.rest = << >>
    /\ k.call \in {"digest", "post"} => IsWrite(k.write) /\ WriteOK(k.write)
    /\ k.call = "digest" =>
          current # None /\ k.write.op \in {"activation", "observations", "retest"}
    /\ k.reply.kind = "ok" =>
          /\ k.call = "list" => k.reply.value \subseteq DOMAIN drills
          /\ k.call \in {"load", "post", "create"} => Stored(k.reply.value)
          /\ k.call = "create" =>
                k.reply.value.drill = NewDrill /\ CreatedHere(k.reply.value.id)

TasksOK == DOMAIN task = Tasks /\ \A t \in Tasks : ~Idle(t) => TaskOK(task[t])

\* The inductive invariant of the forms and buttons.
FormsInv ==
    /\ ServiceOK /\ ScreenOK /\ TasksOK
    /\ CaseFormsAreExact /\ PlansKeepTheirDrill /\ ButtonsActOnTheShown

\* What a handler of a calm tab has shown already, and what it is going to.
Awaits(k) ==
    /\ k.call \in {"digest", "verify"} => UpToDate
    /\ IF k.call \in {"list", "load", "timeline"} THEN k.reply.kind # "failed"
       ELSE k.reply.kind # "ok" => UpToDate
    /\ k.call = "create" =>
          /\ k.rest = <<"list", "load", "timeline">>
          /\ k.reply.kind = "ok" => k.reply.value = View(k.reply.value.id)
    /\ k.call = "post" =>
          /\ k.rest = <<"timeline", "list">>
          /\ k.write.drill = current.id /\ listed = DOMAIN drills
          /\ selected # None => current.id = selected
          /\ k.reply.kind = "ok" => k.reply.value = View(current.id)
    /\ k.call = "list" =>
          /\ k.rest = << >> => UpToDate
          /\ k.rest # << >> =>
                /\ k.rest = <<"load", "timeline">>
                /\ IF k.drill = None THEN current = None /\ panel = None /\ selected = None
                   ELSE selected = k.drill
          /\ k.reply.kind = "ok" => k.reply.value = DOMAIN drills
    /\ k.call = "load" =>
          /\ k.rest = <<"timeline">> /\ listed = DOMAIN drills
          /\ selected # None => k.drill = selected
          /\ k.reply.kind = "ok" => k.reply.value = View(k.drill)
    /\ k.call = "timeline" =>
          /\ k.rest \in {<< >>, <<"list">>} /\ listed = DOMAIN drills
          /\ current = panel /\ panel = View(k.drill)
          /\ selected # None => k.drill = selected
          /\ k.reply.kind = "ok" => k.reply.value = k.drill

\* In a calm tab at most one handler waits, and it is on its way to a screen
\* that is up to date.
CalmOK ==
    left.calm =>
       /\ Settled => UpToDate
       /\ \A t \in Tasks : ~Idle(t) =>
             Awaits(task[t]) /\ \A u \in Tasks : ~Idle(u) => u = t

\* The inductive invariant of the whole tab.
WorkbenchInv == FormsInv /\ CalmOK

Calm == [inputs : Nat, others : Nat, losses : Nat, calm : BOOLEAN]

\* What an input, a write of others or a loss takes from the bounds.
LEMMA Spending ==
    ASSUME left \in Calm, NEW what \in {"inputs", "others", "losses"}, Spend(what)
    PROVE  left' \in Calm /\ (left'.calm => left.calm /\ Settled /\ what = "inputs")
<1>1. left' = [[left EXCEPT ![what] = left[what] - 1]
                    EXCEPT !.calm = left.calm /\ Settled /\ what = "inputs"]
  BY DEF Spend
<1>2. left[what] - 1 \in Nat
  <2>1. left[what] \in Nat
    <3>1. left["inputs"] \in Nat /\ left["others"] \in Nat /\ left["losses"] \in Nat
      BY DEF Calm
    <3> QED
      BY <3>1
  <2>2. left[what] > 0
    BY Zenon DEF Spend
  <2> QED
    BY <2>1, <2>2
<1>3. DOMAIN left = {"inputs", "others", "losses", "calm"}
  BY DEF Calm
<1>4. left'.calm = (left.calm /\ Settled /\ what = "inputs")
  BY <1>1, <1>3
<1>5. left' \in Calm
  BY <1>1, <1>2 DEF Calm
<1> QED
  BY <1>4, <1>5

\* A task stays in order while drills and accepted writes only grow.
LEMMA TaskGrows ==
    ASSUME NEW k, TaskOK(k), accepted \subseteq accepted',
           DOMAIN drills \subseteq DOMAIN drills', current # None => current' # None
    PROVE  TaskOK(k)'
<1>1. \A id : CreatedHere(id) => CreatedHere(id)'
  BY DEF CreatedHere, Accepted
<1>2. \A v : Stored(v) => Stored(v)'
  BY DEF Stored
<1>3. ASSUME NEW w, WriteOK(w) PROVE WriteOK(w)'
  BY <1>1, <1>3 DEF WriteOK
<1> QED
  BY <1>1, <1>2, <1>3 DEF TaskOK

\* A step that changes one task.
LEMMA TaskStep ==
    ASSUME TasksOK, NEW t \in Tasks, NEW k, task' = [task EXCEPT ![t] = k],
           k # NoTask => TaskOK(k)', accepted \subseteq accepted',
           DOMAIN drills \subseteq DOMAIN drills', current # None => current' # None
    PROVE  TasksOK'
<1>1. DOMAIN task' = Tasks
  BY DEF TasksOK
<1>2. ASSUME NEW u \in Tasks, task'[u] # NoTask PROVE TaskOK(task[u])'
  <2>1. CASE u = t
    <3>1. task'[u] = k
      BY <2>1 DEF TasksOK
    <3>2. TaskOK(k)'
      BY <1>2, <3>1
    <3> QED
      BY <3>1, <3>2 DEF TaskOK
  <2>2. CASE u # t
    <3>1. task'[u] = task[u]
      BY <2>2 DEF TasksOK
    <3>2. TaskOK(task[u])
      BY <1>2, <3>1 DEF TasksOK, Idle
    <3>3. TaskOK(task[u]) => (\A k1 : k1 = task[u] => TaskOK(k1)')
      BY TaskGrows
    <3> QED
      BY <3>1, <3>2, <3>3 DEF TaskOK
  <2> QED
    BY <2>1, <2>2
<1> QED
  BY <1>1, <1>2 DEF TasksOK, Idle

\* A new drill is a drill.
LEMMA NewDrillIsDrill == NewDrill \in DrillType /\ NewDrill.revision = 1 /\ NewDrill.state = "draft"
<1>1. NewDrill.findings = << >>
  BY DEF NewDrill
<1> QED
  BY <1>1 DEF NewDrill, DrillType, States

\* A write that is done leaves a drill, one revision further.
LEMMA EffectIsDrill ==
    ASSUME NEW d \in DrillType, NEW w, Permits(d, w), w.expected = d.revision,
           NEW e \in Effects(d, w)
    PROVE  e \in DrillType /\ e.revision = d.revision + 1
<1> DEFINE next == [d EXCEPT !.revision = w.expected + 1]
<1>1. /\ next \in DrillType /\ next.revision = d.revision + 1
      /\ next.state = d.state /\ next.observed = d.observed /\ next.findings = d.findings
  BY DEF DrillType
<1>2. \A s \in States : LET n == [next EXCEPT !.state = s] IN
         n \in DrillType /\ n.revision = next.revision
  BY <1>1 DEF DrillType
<1>3. LET n == [next EXCEPT !.activation = TRUE] IN
         n \in DrillType /\ n.revision = next.revision
  BY <1>1 DEF DrillType
<1>4. \A f \in Seq(FindingStates) : LET n == [next EXCEPT !.findings = f] IN
         n \in DrillType /\ n.revision = next.revision
  BY <1>1 DEF DrillType
<1>5. d.findings \in Seq(FindingStates)
  BY DEF DrillType
<1>6. /\ "baseline_frozen" \in States /\ "in_progress" \in States /\ "remediation" \in States
      /\ "pending_review" \in States /\ "certified" \in States
      /\ "open" \in FindingStates /\ "planned" \in FindingStates /\ "closed" \in FindingStates
  BY DEF States, FindingStates
<1> HIDE DEF next
<1>7. CASE w.op = "freeze"
  BY <1>1, <1>2, <1>6, <1>7 DEF Effects, next
<1>8. CASE w.op = "activation"
  BY <1>1, <1>3, <1>8 DEF Effects, next
<1>9. CASE w.op = "start"
  BY <1>1, <1>2, <1>6, <1>9 DEF Effects, next
<1>10. CASE w.op = "submit-review"
  BY <1>1, <1>2, <1>6, <1>10 DEF Effects, next
<1>11. CASE w.op = "observations"
  <2> PICK opened \in {<< >>, <<"open">>, <<"open", "open">>} :
             e = IF MustRemediate(Observed(next, opened))
                 THEN [Observed(next, opened) EXCEPT !.state = "remediation"]
                 ELSE Observed(next, opened)
    BY <1>11 DEF Effects, next
  <2> DEFINE o == Observed(next, opened)
  <2>1. next.findings \o opened \in Seq(FindingStates)
    <3>1. opened \in Seq(FindingStates)
      <4>1. CASE opened = << >>
        BY <4>1
      <4>2. CASE opened = <<"open">>
        BY <1>6, <4>2
      <4>3. CASE opened = <<"open", "open">>
        BY <1>6, <4>3
      <4> QED
        BY <4>1, <4>2, <4>3
    <3> QED
      BY <1>1, <1>5, <3>1
  <2>2. next.observed + 1 \in Nat
    BY <1>1 DEF DrillType
  <2>3. o = [[next EXCEPT !.observed = next.observed + 1]
                EXCEPT !.findings = next.findings \o opened]
    BY <1>1 DEF Observed, DrillType
  <2>4. o \in DrillType /\ o.revision = next.revision
    BY <1>1, <2>1, <2>2, <2>3 DEF DrillType
  <2>5. e = o \/ e = [o EXCEPT !.state = "remediation"]
    OBVIOUS
  <2> HIDE DEF o
  <2>6. e \in DrillType /\ e.revision = o.revision
    BY <1>6, <2>4, <2>5 DEF DrillType
  <2> QED
    BY <1>1, <2>4, <2>6
<1>12. ASSUME w.op \in {"plan", "retest"} PROVE e \in DrillType /\ e.revision = d.revision + 1
  <2> DEFINE n == w.item.n
             changed(s) == [next.findings EXCEPT ![n] = s]
  <2>1. n \in DOMAIN d.findings
    BY <1>12 DEF Permits
  <2>2. \E s \in FindingStates : e = [next EXCEPT !.findings = changed(s)]
    BY <1>6, <1>12 DEF Effects, next
  <2>3. \A s \in FindingStates : changed(s) \in Seq(FindingStates)
    BY <1>1, <1>5, <2>1
  <2> HIDE DEF changed, n
  <2> QED
    BY <1>1, <1>4, <2>2, <2>3
<1>13. ASSUME w.op \notin {"freeze", "activation", "start", "submit-review", "observations",
                          "plan", "retest"}
       PROVE  e \in DrillType /\ e.revision = d.revision + 1
  <2>1. e \in {[next EXCEPT !.state = "certified"],
               [[next EXCEPT !.state = "remediation"]
                    EXCEPT !.findings = Append(next.findings, "open")]}
    BY <1>1, <1>13 DEF Effects, next, DrillType
  <2>2. Append(next.findings, "open") \in Seq(FindingStates)
    BY <1>1, <1>5, <1>6
  <2>3. [next EXCEPT !.state = "remediation"] \in DrillType
    BY <1>1, <1>6 DEF DrillType
  <2>4. CASE e = [next EXCEPT !.state = "certified"]
    BY <1>1, <1>2, <1>6, <2>4
  <2>5. CASE e = [[next EXCEPT !.state = "remediation"]
                     EXCEPT !.findings = Append(next.findings, "open")]
    BY <1>1, <2>2, <2>3, <2>5 DEF DrillType
  <2> QED
    BY <2>1, <2>4, <2>5
<1> QED
  BY <1>7, <1>8, <1>9, <1>10, <1>11, <1>12, <1>13

\* The page's first handler, over the drills there are.
LEMMA FormsInit == Init => FormsInv
<1> SUFFICES ASSUME Init PROVE FormsInv
  OBVIOUS
<1>1. PICK b \in Beginnings :
         /\ drills = b.drills
         /\ left = [inputs |-> b.inputs, others |-> b.others, losses |-> b.losses, calm |-> TRUE]
  BY DEF Init
<1>2. ServiceOK
  BY <1>1, BeginningsAssumption DEF ServiceOK
<1>3. ScreenOK
  BY DEF Init, ScreenOK, NoDialog
<1>4. TasksOK
  <2>1. PICK t \in Tasks :
           task = [x \in Tasks |->
                     IF x = t THEN Await("list", None, None, <<"load", "timeline">>) ELSE NoTask]
    BY DEF Init
  <2>2. <<"load", "timeline">> \in Seq(Reads)
    BY DEF Reads
  <2>3. TaskOK(Await("list", None, None, <<"load", "timeline">>))
    BY <2>2 DEF TaskOK, Await, Waiting, IsTask, TaskFields
  <2> QED
    BY <2>1, <2>3 DEF TasksOK, Idle
<1>5. CaseFormsAreExact /\ PlansKeepTheirDrill /\ ButtonsActOnTheShown
  BY DEF Init, CaseFormsAreExact, PlansKeepTheirDrill, ButtonsActOnTheShown, Accepted
<1> QED
  BY <1>2, <1>3, <1>4, <1>5 DEF FormsInv

\* What a handler may be waiting for.
LEMMA NewTask ==
    ASSUME NEW call, NEW drill \in DOMAIN drills \cup {None}, NEW write,
           NEW rest \in Seq(Reads),
           call \in {"load", "post", "timeline", "verify"} => drill # None,
           call = "verify" => rest = << >>,
           call \in {"digest", "post"} => IsWrite(write) /\ WriteOK(write),
           call = "digest" =>
              current # None /\ write.op \in {"activation", "observations", "retest"}
    PROVE  TaskOK(Await(call, drill, write, rest))
  BY DEF TaskOK, Await, Waiting, IsTask, TaskFields

\* The screen while nothing is shown.
LEMMA ScreenKept ==
    ASSUME ScreenOK, DOMAIN drills \subseteq DOMAIN drills', accepted \subseteq accepted',
           UNCHANGED <<current, panel, listed, picked>>, dialog' \in {dialog, NoDialog}
    PROVE  ScreenOK'
<1>1. \A id : CreatedHere(id) => CreatedHere(id)'
  BY DEF CreatedHere, Accepted
<1>2. dialog'.kind \in {"activation", "plan", "retest"} => dialog' = dialog
  BY DEF NoDialog
<1> QED
  BY <1>1, <1>2 DEF ScreenOK, Stored

\* An input that starts a handler.
LEMMA Handler ==
    ASSUME FormsInv, NEW t \in Tasks, NEW k, task' = [task EXCEPT ![t] = k],
           k # NoTask => TaskOK(k), left' \in Calm, UNCHANGED <<drills, accepted>>,
           UNCHANGED <<current, panel, listed, picked>>, dialog' \in {dialog, NoDialog}
    PROVE  FormsInv'
<1>1. ServiceOK'
  BY DEF FormsInv, ServiceOK, Calm
<1>2. ScreenOK'
  BY ScreenKept DEF FormsInv
<1>3. TasksOK'
  <2>1. TaskOK(k) => TaskOK(k)'
    BY TaskGrows
  <2> QED
    BY <2>1, TaskStep DEF FormsInv
<1>4. CaseFormsAreExact' /\ PlansKeepTheirDrill' /\ ButtonsActOnTheShown'
  BY DEF FormsInv, CaseFormsAreExact, PlansKeepTheirDrill, ButtonsActOnTheShown, Accepted,
         AcceptedAsSeen
<1> QED
  BY <1>1, <1>2, <1>3, <1>4 DEF FormsInv

\* What is on the screen belongs to stored drills.
LEMMA Shown ==
    ASSUME ServiceOK, ScreenOK
    PROVE  /\ panel # None => current # None
           /\ current # None => /\ current.id \in DOMAIN drills /\ current.id \in Drills
                                /\ current.id # None /\ current.drill \in DrillType
           /\ panel # None => panel.id \in DOMAIN drills /\ panel.drill \in DrillType
           /\ \A id \in DOMAIN drills : id \in Drills /\ id # None
<1>1. current # None => current \in ViewType /\ current.id \in DOMAIN drills
  BY DEF ScreenOK, Stored
<1>2. panel # None => panel \in ViewType /\ panel.id \in DOMAIN drills
  BY DEF ScreenOK, Stored
<1>3. \A id \in DOMAIN drills : id \in Drills /\ id # None
  BY NoneAssumption DEF ServiceOK
<1>4. panel # None => current # None
  BY DEF ScreenOK
<1> QED
  BY <1>1, <1>2, <1>3, <1>4 DEF ViewType

\* An input leaves the bounds in order.
LEMMA InputKeeps == ASSUME FormsInv, Input PROVE left' \in Calm
  BY Spending DEF FormsInv, ServiceOK, Calm, Input

\* Selecting a drill loads it.
LEMMA SelectKeepsForms ==
    ASSUME FormsInv, NEW t \in Tasks, NEW id \in Drills, Select(t, id)
    PROVE  FormsInv'
<1>1. id \in DOMAIN drills /\ id # None
  BY Shown DEF FormsInv, Select, ScreenOK
<1>2. <<"timeline">> \in Seq(Reads)
  BY DEF Reads
<1>3. TaskOK(Await("load", id, None, <<"timeline">>))
  BY <1>1, <1>2, NewTask
<1> QED
  BY <1>3, InputKeeps, Handler DEF Select, Begin, tab

\* Is w what a call with this body may be?
LEMMA MutationIsWrite ==
    ASSUME NEW op, NEW item, NEW form, NEW seen
    PROVE  /\ IsWrite(Mutation(op, item, form, seen))
           /\ Mutation(op, item, form, seen).op = op
           /\ Mutation(op, item, form, seen).drill = current.id
           /\ Mutation(op, item, form, seen).expected = current.drill.revision
           /\ Mutation(op, item, form, seen).item = item
           /\ Mutation(op, item, form, seen).seen = seen
  BY DEF Mutation, IsWrite, WriteFields

LEMMA PostRests == <<"timeline", "list">> \in Seq(Reads) /\ << >> \in Seq(Reads)
  BY DEF Reads

\* A button writes on the case it is shown with, or on a new drill.
LEMMA PrimaryKeepsForms ==
    ASSUME FormsInv, NEW t \in Tasks, PrimaryAction(t)
    PROVE  FormsInv'
<1> DEFINE op == PrimaryOp(panel.drill)
           w  == Mutation(op, None, 0, Stamp(panel))
<1>1. op \in {"freeze", "start", "submit-review"}
  BY DEF PrimaryAction, PrimaryOp
<1>2. panel # None
  BY DEF PrimaryAction
<1>3. Stamp(panel) = [id |-> panel.id, revision |-> panel.drill.revision]
  BY <1>2 DEF Stamp
<1>4. /\ IsWrite(w) /\ w.op = op /\ w.drill = current.id
      /\ w.expected = current.drill.revision /\ w.seen = Stamp(panel)
  BY MutationIsWrite
<1> HIDE DEF w, op
<1>5. WriteOK(w)
  <2>1. \/ w.seen = [id |-> w.drill, revision |-> w.expected]
        \/ w.expected = 1 /\ CreatedHere(w.drill)
    <3>1. CASE current = panel
      BY <1>3, <1>4, <3>1
    <3>2. CASE current # panel
      BY <1>4, <3>2, NewDrillIsDrill DEF FormsInv, ScreenOK
    <3> QED
      BY <3>1, <3>2
  <2> QED
    BY <1>1, <1>4, <2>1 DEF WriteOK
<1>6. TaskOK(Await("post", current.id, w, <<"timeline", "list">>))
  BY <1>2, <1>4, <1>5, NewTask, PostRests, Shown DEF FormsInv
<1>7. Input /\ Begin(t, "post", current.id, w, <<"timeline", "list">>)
  BY DEF PrimaryAction, w, op
<1> QED
  BY <1>6, <1>7, InputKeeps, Handler DEF PrimaryAction, Begin, tab

\* The create form names no drill.
LEMMA CreateKeepsForms ==
    ASSUME FormsInv, NEW t \in Tasks, SubmitCreate(t)
    PROVE  FormsInv'
<1>1. <<"list", "load", "timeline">> \in Seq(Reads)
  BY DEF Reads
<1>2. TaskOK(Await("create", None, [op |-> "create", form |-> dialog.form],
                   <<"list", "load", "timeline">>))
  BY <1>1, NewTask
<1> QED
  BY <1>2, InputKeeps, Handler DEF SubmitCreate, Begin, tab

\* Evidence and retests are digested before they are sent.
LEMMA DigestKeepsForms ==
    ASSUME FormsInv, NEW t \in Tasks, SubmitActivation(t) \/ SubmitRetest(t)
    PROVE  FormsInv'
<1>1. PICK op \in {"activation", "retest"} :
         /\ Input /\ dialog.kind = op
         /\ Begin(t, "digest", None, Mutation(op, None, dialog.form, dialog.seen), << >>)
         /\ UNCHANGED <<tab, drills, selected, accepted>>
  BY Zenon DEF SubmitActivation, SubmitRetest
<1> DEFINE w == Mutation(op, None, dialog.form, dialog.seen)
<1>2. IsWrite(w) /\ w.op = op
  BY MutationIsWrite
<1> HIDE DEF w
<1>3. WriteOK(w)
  BY <1>2 DEF WriteOK
<1>4. TaskOK(Await("digest", None, w, << >>))
  BY <1>1, <1>2, <1>3, NewTask, PostRests DEF FormsInv, ScreenOK
<1> QED
  BY <1>1, <1>4, InputKeeps, Handler DEF Begin, tab, w

\* A record is of the case it is rendered with.
LEMMA ObservationKeepsForms ==
    ASSUME FormsInv, NEW t \in Tasks, SubmitObservation(t)
    PROVE  FormsInv'
<1> DEFINE item == Item(current.id, current.drill.observed)
           w == Mutation("observations", item, 0, Stamp(panel))
<1>1. current = panel /\ current # None
  BY NewDrillIsDrill DEF SubmitObservation, AwaitsObservation, FormsInv, ScreenOK
<1>2. Stamp(panel) = [id |-> current.id, revision |-> current.drill.revision]
  BY <1>1 DEF Stamp
<1>3. item \in ItemType /\ item.owner = current.id
  BY <1>1, Shown DEF FormsInv, Item, ItemType, DrillType
<1>4. /\ IsWrite(w) /\ w.op = "observations" /\ w.expected = current.drill.revision
      /\ w.item = item /\ w.seen = Stamp(panel)
  BY MutationIsWrite
<1> HIDE DEF w, item
<1>5. WriteOK(w)
  BY <1>2, <1>3, <1>4 DEF WriteOK
<1>6. TaskOK(Await("digest", None, w, << >>))
  BY <1>1, <1>4, <1>5, NewTask, PostRests
<1> QED
  BY <1>6, InputKeeps, Handler DEF SubmitObservation, Begin, tab, w, item

\* A plan is for the finding its dialog was opened on.
LEMMA PlanKeepsForms ==
    ASSUME FormsInv, NEW t \in Tasks, SubmitPlan(t)
    PROVE  FormsInv'
<1> DEFINE w == Mutation("plan", picked, dialog.form, dialog.seen)
<1>1. /\ IsWrite(w) /\ w.op = "plan" /\ w.item = picked /\ w.seen = dialog.seen
  BY MutationIsWrite
<1> HIDE DEF w
<1>2. WriteOK(w) /\ current # None
  BY <1>1 DEF WriteOK, SubmitPlan, FormsInv, ScreenOK
<1>3. TaskOK(Await("post", current.id, w, <<"timeline", "list">>))
  BY <1>1, <1>2, NewTask, PostRests, Shown DEF FormsInv
<1> QED
  BY <1>3, InputKeeps, Handler DEF SubmitPlan, Begin, w

\* A decision is on the case its checklist was rendered with.
LEMMA ReviewKeepsForms ==
    ASSUME FormsInv, NEW t \in Tasks, SubmitReview(t)
    PROVE  FormsInv'
<1> DEFINE item == Item(panel.id, 0)
           w == Mutation("review-decision", item, 0, Stamp(panel))
<1>1. current = panel /\ current # None
  BY NewDrillIsDrill DEF SubmitReview, FormsInv, ScreenOK
<1>2. Stamp(panel) = [id |-> current.id, revision |-> current.drill.revision]
  BY <1>1 DEF Stamp
<1>3. item \in ItemType /\ item.owner = current.id
  BY <1>1, Shown DEF FormsInv, Item, ItemType
<1>4. /\ IsWrite(w) /\ w.op = "review-decision" /\ w.expected = current.drill.revision
      /\ w.item = item /\ w.seen = Stamp(panel)
  BY MutationIsWrite
<1> HIDE DEF w, item
<1>5. WriteOK(w)
  BY <1>2, <1>3, <1>4 DEF WriteOK
<1>6. TaskOK(Await("post", current.id, w, <<"timeline", "list">>))
  BY <1>1, <1>4, <1>5, NewTask, PostRests, Shown DEF FormsInv
<1> QED
  BY <1>6, InputKeeps, Handler DEF SubmitReview, Begin, tab, w, item

\* Verification and the timeline read the current drill.
LEMMA QueryKeepsForms ==
    ASSUME FormsInv, NEW t \in Tasks, Verify(t) \/ ReloadTimeline(t)
    PROVE  FormsInv'
<1>1. PICK call \in {"verify", "timeline"} :
         /\ Input /\ current # None
         /\ Begin(t, call, current.id, None, << >>)
         /\ UNCHANGED <<tab, drills, selected, accepted>>
  BY Shown, Zenon DEF Verify, ReloadTimeline, FormsInv
<1>2. TaskOK(Await(call, current.id, None, << >>))
  BY <1>1, NewTask, PostRests, Shown DEF FormsInv
<1> QED
  BY <1>1, <1>2, InputKeeps, Handler DEF Begin, tab

\* No input of the user parts a form from what it shows.
LEMMA UserKeepsForms ==
    ASSUME FormsInv, NEW t \in Tasks, User(t)
    PROVE  FormsInv'
  BY SelectKeepsForms, PrimaryKeepsForms, CreateKeepsForms, DigestKeepsForms,
     ObservationKeepsForms, PlanKeepsForms, ReviewKeepsForms, QueryKeepsForms DEF User

-----------------------------------------------------------------------------
(* Dialogs and digests.                                                    *)

\* A dialog that opens or closes, and the finding noted for it.
LEMMA DialogStep ==
    ASSUME FormsInv, left' \in Calm, UNCHANGED <<drills, accepted, task>>,
           UNCHANGED <<current, panel, listed>>,
           dialog'.kind \in {"activation", "plan", "retest"} => current # None,
           dialog'.kind = "plan" => picked' \in ItemType /\ picked'.owner = dialog'.seen.id
    PROVE  FormsInv'
<1>1. ServiceOK'
  BY DEF FormsInv, ServiceOK, Calm
<1>2. ScreenOK'
  BY DEF FormsInv, ScreenOK, Stored, CreatedHere, Accepted
<1>3. TasksOK'
  <2>1. \A k : TaskOK(k) => TaskOK(k)'
    BY TaskGrows
  <2> QED
    BY <2>1 DEF FormsInv, TasksOK, Idle, TaskOK
<1>4. CaseFormsAreExact' /\ PlansKeepTheirDrill' /\ ButtonsActOnTheShown'
  BY DEF FormsInv, CaseFormsAreExact, PlansKeepTheirDrill, ButtonsActOnTheShown, Accepted,
         AcceptedAsSeen
<1> QED
  BY <1>1, <1>2, <1>3, <1>4 DEF FormsInv

\* A dialog is opened on the current case.
LEMMA DialogsKeepForms ==
    ASSUME FormsInv, Dialogs PROVE FormsInv'
<1>1. CASE OpenCreate
  BY <1>1, InputKeeps, DialogStep DEF OpenCreate, Open
<1>2. CASE OpenActivation
  BY <1>2, InputKeeps, DialogStep, Shown DEF OpenActivation, Open, FormsInv
<1>3. CASE CloseDialog
  BY <1>3, DialogStep DEF CloseDialog, NoDialog, FormsInv, ServiceOK, Calm
<1>4. CASE OpenFinding
  <2>1. PICK n \in DOMAIN panel.drill.findings :
           /\ picked' = Item(panel.id, n)
           /\ IF current.id = panel.id
              THEN Open("plan") \/ Open("retest")
              ELSE Input /\ NoModal /\ UNCHANGED dialog
    BY <1>4 DEF OpenFinding
  <2>2. panel # None /\ current # None
    BY <1>4, Shown DEF OpenFinding, FormsInv
  <2>3. picked' \in ItemType /\ picked'.owner = panel.id
    BY <2>1, <2>2, Shown DEF FormsInv, Item, ItemType, DrillType
  <2>4. Input
    BY <2>1 DEF Open
  <2>5. CASE current.id = panel.id
    <3>1. dialog'.seen = Stamp(current) /\ Stamp(current).id = current.id
      BY <2>1, <2>2, <2>5 DEF Open, Stamp
    <3> QED
      BY <1>4, <2>2, <2>3, <2>4, <2>5, <3>1, InputKeeps, DialogStep DEF OpenFinding
  <2>6. CASE current.id # panel.id
    <3>1. dialog' = NoDialog
      BY <2>1, <2>6 DEF NoModal
    <3> QED
      BY <1>4, <2>4, <3>1, InputKeeps, DialogStep DEF OpenFinding, NoDialog
  <2> QED
    BY <2>5, <2>6
<1> QED
  BY <1>1, <1>2, <1>3, <1>4 DEF Dialogs

\* After its digest a write goes to the drill that is current now; a record
\* still names the item it was made for.
LEMMA DigestedKeepsForms ==
    ASSUME FormsInv, NEW t \in Tasks, Digested(t)
    PROVE  FormsInv'
<1> DEFINE w == task[t].write
           item == IF w.op = "retest" THEN picked ELSE w.item
           moved == [w EXCEPT !.drill = current.id]
           post == [moved EXCEPT !.item = item]
<1>1. TaskOK(task[t]) /\ task[t].call = "digest"
  BY DEF Digested, FormsInv, TasksOK
<1>2. IsWrite(w) /\ WriteOK(w) /\ current # None /\ w.op \in {"activation", "observations", "retest"}
  BY <1>1 DEF TaskOK
<1>3. /\ IsWrite(post) /\ post.op = w.op /\ post.expected = w.expected
      /\ post.item = item /\ post.seen = w.seen
  <2>1. moved = [w EXCEPT !.drill = current.id] /\ post = [moved EXCEPT !.item = item]
    OBVIOUS
  <2> HIDE DEF w, item, moved, post
  <2>2. /\ IsWrite(moved) /\ moved.op = w.op /\ moved.expected = w.expected
        /\ moved.item = w.item /\ moved.seen = w.seen
    BY <1>2, <2>1 DEF IsWrite, WriteFields
  <2>3. /\ IsWrite(post) /\ post.op = moved.op /\ post.expected = moved.expected
        /\ post.item = item /\ post.seen = moved.seen
    BY <2>1, <2>2 DEF IsWrite, WriteFields
  <2> QED
    BY <2>2, <2>3
<1>4. task' = [task EXCEPT ![t] = Await("post", current.id, post, <<"timeline", "list">>)]
  <2>1. [w EXCEPT !.drill = current.id, !.item = IF w.op = "retest" THEN picked ELSE w.item] = post
    OBVIOUS
  <2> QED
    BY <2>1 DEF Digested
<1>5. dialog' \in {dialog, NoDialog}
  BY DEF Digested
<1> HIDE DEF post
<1>6. WriteOK(post)
  BY <1>2, <1>3 DEF WriteOK
<1>7. TaskOK(Await("post", current.id, post, <<"timeline", "list">>))
  BY <1>2, <1>3, <1>6, NewTask, PostRests, Shown DEF FormsInv
<1> QED
  BY <1>4, <1>5, <1>7, Handler DEF Digested, FormsInv, ServiceOK, Calm

-----------------------------------------------------------------------------
(* Answers of the service.                                                 *)

\* May the service answer a call so, over the drills and writes there are now?
Answers(call, reply, ids, done) ==
    reply.kind = "ok" =>
       /\ call = "list" => reply.value \subseteq ids
       /\ call \in {"load", "post", "create"} =>
             reply.value \in ViewType /\ reply.value.id \in ids
       /\ call = "create" =>
             /\ reply.value.drill = NewDrill
             /\ \E c \in done : c.op = "create" /\ c.drill = reply.value.id

\* An answer for a waiting handler.
LEMMA AnswerStep ==
    ASSUME TasksOK, NEW t \in Tasks, ~Idle(t), NEW reply, Answer(t, reply),
           accepted \subseteq accepted', DOMAIN drills \subseteq DOMAIN drills',
           current' = current, Answers(task[t].call, reply, DOMAIN drills', accepted')
    PROVE  TasksOK'
<1>1. PICK old : old = task[t]
  OBVIOUS
<1>2. TaskOK(old)
  BY <1>1 DEF TasksOK
<1>3. PICK k : k = [old EXCEPT !.reply = reply]
  OBVIOUS
<1>4. task' = [task EXCEPT ![t] = k]
  BY <1>1, <1>3 DEF Answer
<1>5. /\ IsTask(k) /\ k.call = old.call /\ k.drill = old.drill /\ k.write = old.write
      /\ k.rest = old.rest /\ k.reply = reply
  BY <1>2, <1>3 DEF TaskOK, IsTask, TaskFields
<1>6. TaskOK(old)'
  BY <1>2, TaskGrows
<1>7. Answers(old.call, reply, DOMAIN drills', accepted')
  BY <1>1
<1>8. TaskOK(k)'
  BY <1>5, <1>6, <1>7 DEF TaskOK, Answers, Stored, CreatedHere, Accepted
<1> QED
  BY <1>4, <1>8, TaskStep

\* The properties speak of accepted writes only.
LEMMA FormsKept ==
    ASSUME FormsInv, accepted' = accepted
    PROVE  CaseFormsAreExact' /\ PlansKeepTheirDrill' /\ ButtonsActOnTheShown'
  BY DEF FormsInv, CaseFormsAreExact, PlansKeepTheirDrill, ButtonsActOnTheShown, Accepted,
         AcceptedAsSeen

\* Reading changes nothing.
LEMMA ReadKeepsForms ==
    ASSUME FormsInv, NEW t \in Tasks, ServeRead(t)
    PROVE  FormsInv'
<1>1. TaskOK(task[t])
  BY DEF ServeRead, Requested, FormsInv, TasksOK
<1>2. PICK reply : Answer(t, reply) /\ Answers(task[t].call, reply, DOMAIN drills', accepted')
  <2>1. CASE task[t].call = "list" /\ Answer(t, Reply(DOMAIN drills))
    BY <2>1 DEF Answers, Reply, ServeRead
  <2>2. CASE task[t].call = "load" /\ Answer(t, Reply(View(task[t].drill)))
    <3>1. task[t].drill \in DOMAIN drills
      BY <1>1, <2>2 DEF TaskOK
    <3>2. View(task[t].drill) \in ViewType /\ View(task[t].drill).id = task[t].drill
      BY <3>1 DEF FormsInv, ServiceOK, View, ViewType
    <3> QED
      BY <2>2, <3>1, <3>2 DEF Answers, Reply, ServeRead
  <2>3. CASE task[t].call = "timeline" /\ Answer(t, Reply(task[t].drill))
    BY <2>3 DEF Answers, Reply
  <2>4. CASE task[t].call = "verify" /\ \E reply : Answer(t, reply)
    BY <2>4 DEF Answers
  <2> QED
    BY <2>1, <2>2, <2>3, <2>4 DEF ServeRead, AnswerWith
<1>3. TasksOK'
  BY <1>2, AnswerStep DEF FormsInv, ServeRead, Requested, tab
<1>4. ScreenOK'
  BY ScreenKept DEF FormsInv, ServeRead, tab
<1>5. ServiceOK'
  BY DEF FormsInv, ServiceOK, ServeRead
<1> QED
  BY <1>3, <1>4, <1>5, FormsKept DEF FormsInv, ServeRead

\* A handler fails.
LEMMA LoseKeepsForms ==
    ASSUME FormsInv, NEW t \in Tasks, Lose(t)
    PROVE  FormsInv'
<1>1. TasksOK'
  BY AnswerStep DEF FormsInv, Lose, Failed, Answers, tab
<1>2. ScreenOK'
  BY ScreenKept DEF FormsInv, Lose, tab
<1>3. ServiceOK'
  BY Spending DEF FormsInv, ServiceOK, Lose, Calm
<1> QED
  BY <1>1, <1>2, <1>3, FormsKept DEF FormsInv, Lose

\* An answer that is not a success is an exception.
LEMMA Statuses ==
    /\ Succeeded(Status("done")) /\ Succeeded(Status("created"))
    /\ \A outcome \in {"invalid", "conflict", "not_found", "forbidden"} :
          ~Succeeded(Status(outcome))
  BY DEF Status, Succeeded

\* A new drill gets an identifier no other has.
LEMMA ServeCreateKeepsForms ==
    ASSUME FormsInv, NEW t \in Tasks, ServeCreate(t)
    PROVE  FormsInv'
<1>1. CASE Answer(t, Failed) /\ UNCHANGED <<drills, accepted>>
  <2>1. TasksOK'
    BY <1>1, AnswerStep DEF FormsInv, ServeCreate, Requested, Failed, Answers, tab
  <2>2. ScreenOK'
    BY <1>1, ScreenKept DEF FormsInv, ServeCreate, tab
  <2>3. ServiceOK'
    BY <1>1 DEF FormsInv, ServiceOK, ServeCreate
  <2> QED
    BY <1>1, <2>1, <2>2, <2>3, FormsKept DEF FormsInv
<1>2. ASSUME NEW id \in Drills \ DOMAIN drills,
             drills' = [i \in DOMAIN drills \cup {id} |-> IF i = id THEN NewDrill ELSE drills[i]],
             Answer(t, Reply([id |-> id, drill |-> NewDrill])),
             accepted' = accepted \cup {[op |-> "create", drill |-> id, at |-> 0,
                                         form |-> task[t].write.form, seen |-> None]}
      PROVE  FormsInv'
  <2> DEFINE new == [op |-> "create", drill |-> id, at |-> 0,
                     form |-> task[t].write.form, seen |-> None]
             reply == Reply([id |-> id, drill |-> NewDrill])
  <2>1. new.op = "create" /\ new.drill = id /\ accepted' = accepted \cup {new}
    BY <1>2
  <2>2. reply.value = [id |-> id, drill |-> NewDrill]
    BY DEF Reply
  <2>3. DOMAIN drills' = DOMAIN drills \cup {id}
    BY <1>2
  <2>4. Answers(task[t].call, reply, DOMAIN drills', accepted')
    <3> HIDE DEF new
    <3>1. [id |-> id, drill |-> NewDrill] \in ViewType
      BY NewDrillIsDrill DEF ViewType
    <3>2. task[t].call = "create"
      BY DEF ServeCreate
    <3> QED
      BY <2>1, <2>2, <2>3, <3>1, <3>2 DEF Answers
  <2> HIDE DEF new
  <2>5. TasksOK'
    BY <1>2, <2>1, <2>3, <2>4, AnswerStep DEF FormsInv, ServeCreate, Requested, tab
  <2>6. ScreenOK'
    BY <2>1, <2>3, ScreenKept DEF FormsInv, ServeCreate, tab
  <2>7. ServiceOK'
    <3>1. \A i \in DOMAIN drills' : drills'[i] = IF i = id THEN NewDrill ELSE drills[i]
      BY <1>2
    <3>2. drills' \in [DOMAIN drills' -> DrillType]
      BY <1>2, NewDrillIsDrill DEF FormsInv, ServiceOK
    <3> QED
      BY <2>3, <3>1, <3>2, NewDrillIsDrill DEF FormsInv, ServiceOK, ServeCreate
  <2>8. CaseFormsAreExact' /\ PlansKeepTheirDrill'
    BY <2>1 DEF FormsInv, CaseFormsAreExact, PlansKeepTheirDrill, Accepted, AcceptedAsSeen
  <2>9. ButtonsActOnTheShown'
    BY <2>1 DEF FormsInv, ButtonsActOnTheShown, Accepted, AcceptedAsSeen
  <2> QED
    BY <2>5, <2>6, <2>7, <2>8, <2>9 DEF FormsInv
<1> QED
  BY <1>1, <1>2, Statuses DEF ServeCreate, AnswerWith

\* What it takes for a write to be done.
LEMMA Done ==
    ASSUME NEW w, "done" \in Outcomes(drills, w)
    PROVE  /\ w.drill \in DOMAIN drills /\ drills[w.drill].revision = w.expected
           /\ OwnItem(w) /\ Permits(drills[w.drill], w)
  BY DEF Outcomes, Current

\* A drill one write further.
LEMMA WriteStep ==
    ASSUME ServiceOK, NEW id \in DOMAIN drills, NEW w, Permits(drills[id], w),
           w.expected = drills[id].revision, NEW d \in Effects(drills[id], w),
           drills' = [drills EXCEPT ![id] = d], left' \in Calm
    PROVE  /\ ServiceOK' /\ DOMAIN drills' = DOMAIN drills /\ d \in DrillType
<1>1. drills[id] \in DrillType
  BY DEF ServiceOK
<1>2. d \in DrillType /\ d.revision = drills[id].revision + 1
  BY <1>1, EffectIsDrill
<1>3. d.revision # 1
  BY <1>1, <1>2 DEF DrillType
<1>4. DOMAIN drills' = DOMAIN drills
  OBVIOUS
<1>5. \A i \in DOMAIN drills : drills'[i] = IF i = id THEN d ELSE drills[i]
  OBVIOUS
<1> QED
  BY <1>1, <1>2, <1>3, <1>4, <1>5 DEF ServiceOK, Calm

\* A write the service accepts is one its form was for.
LEMMA AcceptedAsMeant ==
    ASSUME FormsInv, NEW w, WriteOK(w), "done" \in Outcomes(drills, w),
           NEW new, new.op = w.op, new.drill = w.drill, new.at = drills[w.drill].revision,
           new.seen = w.seen, accepted' = accepted \cup {new}
    PROVE  CaseFormsAreExact' /\ PlansKeepTheirDrill' /\ ButtonsActOnTheShown'
<1>1. /\ w.drill \in DOMAIN drills /\ new.at = w.expected
      /\ OwnItem(w) /\ Permits(drills[w.drill], w)
  BY Done
<1>2. w.item \in ItemType => w.item.owner = w.drill
  BY <1>1, NoneAssumption DEF OwnItem
<1>3. new.op \in {"observations", "review-decision"} => AcceptedAsSeen(new)
  BY <1>1, <1>2 DEF WriteOK, AcceptedAsSeen
<1>4. new.op = "plan" => new.seen.id = new.drill
  BY <1>1, <1>2 DEF WriteOK
<1>5. ASSUME new.op \in {"freeze", "start", "submit-review"}
      PROVE  AcceptedAsSeen(new) \/ (new.op = "freeze" /\ CreatedHere(new.drill))
  <2>1. CASE w.seen = [id |-> w.drill, revision |-> w.expected]
    BY <1>1, <2>1 DEF AcceptedAsSeen
  <2>2. CASE w.expected = 1 /\ CreatedHere(w.drill)
    <3>1. drills[w.drill].state = "draft"
      BY <1>1, <2>2 DEF FormsInv, ServiceOK
    <3>2. w.op \notin {"start", "submit-review"}
      BY <1>1, <3>1 DEF Permits
    <3> QED
      BY <1>5, <2>2, <3>2
  <2> QED
    BY <1>5, <2>1, <2>2 DEF WriteOK
<1>6. CaseFormsAreExact'
  BY <1>3 DEF FormsInv, CaseFormsAreExact, Accepted, AcceptedAsSeen
<1>7. PlansKeepTheirDrill'
  BY <1>4 DEF FormsInv, PlansKeepTheirDrill, Accepted
<1>8. ButtonsActOnTheShown'
  BY <1>5 DEF FormsInv, ButtonsActOnTheShown, Accepted, AcceptedAsSeen, CreatedHere
<1> QED
  BY <1>6, <1>7, <1>8

\* The service answers a write.
LEMMA PostKeepsForms ==
    ASSUME FormsInv, NEW t \in Tasks, ServePost(t)
    PROVE  FormsInv'
<1>1. PICK w : w = task[t].write
  OBVIOUS
<1>2. ~Idle(t) /\ TaskOK(task[t]) /\ task[t].call = "post" /\ WriteOK(w)
  BY <1>1 DEF ServePost, Requested, FormsInv, TasksOK, TaskOK
<1>3. CASE Answer(t, Failed) /\ UNCHANGED <<drills, accepted>>
  <2>1. TasksOK'
    BY <1>2, <1>3, AnswerStep DEF FormsInv, ServePost, Failed, Answers, tab
  <2>2. ScreenOK'
    BY <1>3, ScreenKept DEF FormsInv, ServePost, tab
  <2>3. ServiceOK'
    BY <1>3 DEF FormsInv, ServiceOK, ServePost
  <2> QED
    BY <1>3, <2>1, <2>2, <2>3, FormsKept DEF FormsInv
<1>4. ASSUME "done" \in Outcomes(drills, w), NEW d \in Effects(drills[w.drill], w),
             drills' = [drills EXCEPT ![w.drill] = d],
             Answer(t, Reply([id |-> w.drill, drill |-> d])),
             NEW new, new = [op |-> w.op, drill |-> w.drill, at |-> drills[w.drill].revision,
                             form |-> w.form, seen |-> w.seen],
             accepted' = accepted \cup {new}
      PROVE  FormsInv'
  <2>1. /\ w.drill \in DOMAIN drills /\ drills[w.drill].revision = w.expected
        /\ Permits(drills[w.drill], w)
    BY <1>4, Done
  <2>2. left' \in Calm
    BY DEF FormsInv, ServiceOK, Calm, ServePost
  <2>3. ServiceOK' /\ DOMAIN drills' = DOMAIN drills /\ d \in DrillType
    BY <1>4, <2>1, <2>2, WriteStep DEF FormsInv
  <2>4. PICK reply : reply = Reply([id |-> w.drill, drill |-> d])
    OBVIOUS
  <2>5. Answers(task[t].call, reply, DOMAIN drills', accepted')
    <3>1. reply.value = [id |-> w.drill, drill |-> d]
      BY <2>4 DEF Reply
    <3>2. [id |-> w.drill, drill |-> d] \in ViewType
      BY <2>1, <2>3 DEF FormsInv, ServiceOK, ViewType
    <3> QED
      BY <1>2, <2>1, <2>3, <3>1, <3>2 DEF Answers
  <2>6. TasksOK'
    BY <1>2, <1>4, <2>3, <2>4, <2>5, AnswerStep DEF FormsInv, ServePost, tab
  <2>7. ScreenOK'
    BY <1>4, <2>3, ScreenKept DEF FormsInv, ServePost, tab
  <2>8. new.op = w.op /\ new.drill = w.drill /\ new.at = drills[w.drill].revision
        /\ new.seen = w.seen
    BY <1>4
  <2>9. CaseFormsAreExact' /\ PlansKeepTheirDrill' /\ ButtonsActOnTheShown'
    BY <1>2, <1>4, <2>8, AcceptedAsMeant
  <2> QED
    BY <2>3, <2>6, <2>7, <2>9 DEF FormsInv
<1>5. PICK outcome \in Outcomes(drills, w) :
         IF outcome = "done"
         THEN \E d \in Effects(drills[w.drill], w) :
                /\ drills' = [drills EXCEPT ![w.drill] = d]
                /\ AnswerWith(t, Status(outcome), [id |-> w.drill, drill |-> d])
                /\ accepted' = accepted \cup
                      {[op |-> w.op, drill |-> w.drill, at |-> drills[w.drill].revision,
                        form |-> w.form, seen |-> w.seen]}
         ELSE AnswerWith(t, Status(outcome), None) /\ UNCHANGED <<drills, accepted>>
  BY <1>1, Zenon DEF ServePost
<1>6. CASE outcome = "done"
  BY <1>4, <1>5, <1>6, Statuses DEF AnswerWith
<1>7. CASE outcome # "done"
  <2>1. outcome \in {"invalid", "conflict", "not_found", "forbidden"}
    BY <1>5, <1>7 DEF Outcomes
  <2> QED
    BY <1>3, <1>5, <1>7, <2>1, Statuses DEF AnswerWith
<1> QED
  BY <1>6, <1>7

\* Another user's write, or a damaged dossier.
LEMMA OthersKeepForms ==
    ASSUME FormsInv, NEW id \in DOMAIN drills, OtherWrite(id) \/ Damage(id)
    PROVE  FormsInv'
<1>1. left' \in Calm
  BY Spending DEF FormsInv, ServiceOK, OtherWrite, Damage, Calm
<1>2. ServiceOK' /\ DOMAIN drills' = DOMAIN drills
  <2>1. CASE OtherWrite(id)
    <3>1. PICK op, n : LET w == [op |-> op, drill |-> id, expected |-> drills[id].revision,
                                 item |-> Item(id, n)]
                       IN  /\ "done" \in Outcomes(drills, w)
                           /\ \E d \in Effects(drills[id], w) :
                                 drills' = [drills EXCEPT ![id] = d]
      BY <2>1 DEF OtherWrite
    <3>2. PICK w : /\ w.drill = id /\ w.expected = drills[id].revision
                   /\ "done" \in Outcomes(drills, w)
                   /\ \E d \in Effects(drills[id], w) : drills' = [drills EXCEPT ![id] = d]
      BY <3>1
    <3> QED
      BY <1>1, <3>2, Done, WriteStep DEF FormsInv
  <2>2. CASE Damage(id)
    <3> DEFINE d == [drills[id] EXCEPT !.sound = FALSE]
    <3>1. drills' = [drills EXCEPT ![id] = d]
      <4>1. drills' = [drills EXCEPT ![id] = [drills[id] EXCEPT !.sound = FALSE]]
        BY <2>2 DEF Damage
      <4> QED
        BY <4>1
    <3>2. d \in DrillType /\ d.revision = drills[id].revision /\ d.state = drills[id].state
      <4>1. drills[id] \in DrillType
        BY DEF FormsInv, ServiceOK
      <4> QED
        BY <4>1 DEF DrillType
    <3> HIDE DEF d
    <3>3. DOMAIN drills' = DOMAIN drills
      BY <3>1
    <3>4. \A i \in DOMAIN drills : drills'[i] = IF i = id THEN d ELSE drills[i]
      BY <3>1
    <3> QED
      BY <1>1, <3>1, <3>2, <3>3, <3>4 DEF FormsInv, ServiceOK, Calm
  <2> QED
    BY <2>1, <2>2
<1>3. UNCHANGED <<tab, task, accepted>>
  BY DEF OtherWrite, Damage
<1>4. ScreenOK'
  BY <1>2, <1>3, ScreenKept DEF FormsInv, tab
<1>5. TasksOK'
  <2>1. ASSUME NEW k, TaskOK(k) PROVE TaskOK(k)'
    BY <1>2, <1>3, <2>1, TaskGrows DEF tab
  <2> QED
    BY <1>3, <2>1 DEF FormsInv, TasksOK, Idle, TaskOK
<1> QED
  BY <1>2, <1>3, <1>4, <1>5, FormsKept DEF FormsInv

-----------------------------------------------------------------------------
(* Arrivals.                                                               *)

\* The next call of a handler is one it can make.
LEMMA ProceedStep ==
    ASSUME TasksOK, NEW t \in Tasks, ~Idle(t), NEW id \in DOMAIN drills \cup {None},
           Proceed(t, id), task[t].rest # << >> => id # None,
           UNCHANGED <<drills, accepted>>, current # None => current' # None
    PROVE  TasksOK'
<1>1. PICK old : old = task[t]
  OBVIOUS
<1>2. TaskOK(old)
  BY <1>1 DEF TasksOK
<1>3. old.rest \in Seq(Reads)
  BY <1>2 DEF TaskOK
<1>4. CASE old.rest = << >>
  <2>1. task' = [task EXCEPT ![t] = NoTask]
    BY <1>1, <1>4 DEF Proceed
  <2> QED
    BY <2>1, TaskStep
<1>5. CASE old.rest # << >>
  <2>1. PICK k : k = Await(Head(old.rest), id, None, Tail(old.rest))
    OBVIOUS
  <2>2. task' = [task EXCEPT ![t] = k]
    BY <1>1, <1>5, <2>1 DEF Proceed
  <2>3. Head(old.rest) \in Reads /\ Tail(old.rest) \in Seq(Reads)
    BY <1>3, <1>5
  <2>4. Head(old.rest) \notin {"verify", "digest", "post"}
    BY <2>3 DEF Reads
  <2>5. TaskOK(k)
    BY <1>1, <1>5, <2>1, <2>3, <2>4, NewTask
  <2>6. TaskOK(k)'
    BY <2>5, TaskGrows
  <2> QED
    BY <2>2, <2>6, TaskStep
<1> QED
  BY <1>4, <1>5

\* What arrives changes the screen and the handlers only.
LEMMA ArrivalStep ==
    ASSUME FormsInv, UNCHANGED <<drills, accepted, left>>, TasksOK', ScreenOK'
    PROVE  FormsInv'
<1>1. ServiceOK'
  BY DEF FormsInv, ServiceOK
<1> QED
  BY <1>1, FormsKept DEF FormsInv

\* A view that has arrived is one of a drill there is.
LEMMA ArrivedView ==
    ASSUME FormsInv, NEW t \in Tasks, NEW call \in {"load", "post", "create"}, Answered(t, call)
    PROVE  /\ Stored(task[t].reply.value) /\ task[t].reply.value # None
           /\ task[t].reply.value.id \in DOMAIN drills /\ task[t].reply.value.id # None
           /\ call = "create" => /\ task[t].reply.value.drill = NewDrill
                                 /\ CreatedHere(task[t].reply.value.id)
<1>1. TaskOK(task[t]) /\ task[t].call = call /\ task[t].reply.kind = "ok"
  BY DEF FormsInv, TasksOK, Answered
<1>2. Stored(task[t].reply.value)
  BY <1>1 DEF TaskOK
<1>3. task[t].reply.value # None
  BY <1>2, NoneAssumption DEF Stored
<1> QED
  BY <1>1, <1>2, <1>3, Shown DEF TaskOK, Stored, FormsInv

\* A case that arrives is rendered as it is assigned.
LEMMA CaseKeepsForms ==
    ASSUME FormsInv, NEW t \in Tasks, CaseArrives(t)
    PROVE  FormsInv'
<1>1. PICK call \in {"load", "post"} : Answered(t, call)
  BY DEF CaseArrives
<1>2. PICK view : view = task[t].reply.value
  OBVIOUS
<1>3. Stored(view) /\ view # None /\ view.id \in DOMAIN drills /\ view.id # None
  BY <1>1, <1>2, ArrivedView
<1>4. current' = view /\ panel' = view
  BY <1>2 DEF CaseArrives, ShowCase
<1>5. ScreenOK'
  BY <1>3, <1>4 DEF FormsInv, ScreenOK, Stored, CaseArrives
<1>6. TasksOK'
  BY <1>1, <1>2, <1>3, <1>4, ProceedStep DEF FormsInv, CaseArrives, Answered
<1> QED
  BY <1>5, <1>6, ArrivalStep DEF CaseArrives

\* A drill just created is current before it is rendered.
LEMMA CreatedKeepsForms ==
    ASSUME FormsInv, NEW t \in Tasks, CreatedArrives(t)
    PROVE  FormsInv'
<1>1. PICK view : view = task[t].reply.value
  OBVIOUS
<1>2. /\ Stored(view) /\ view # None /\ view.id \in DOMAIN drills /\ view.id # None
      /\ view.drill = NewDrill /\ CreatedHere(view.id)
  BY <1>1, ArrivedView DEF CreatedArrives
<1>3. current' = view /\ dialog' \in {dialog, NoDialog}
  BY <1>1 DEF CreatedArrives
<1>4. ScreenOK'
  BY <1>2, <1>3 DEF FormsInv, ScreenOK, Stored, CreatedArrives, NoDialog, CreatedHere, Accepted
<1>5. Proceed(t, view.id)
  BY <1>1 DEF CreatedArrives
<1>6. TasksOK'
  BY <1>2, <1>3, <1>5, ProceedStep DEF FormsInv, CreatedArrives, Answered
<1> QED
  BY <1>4, <1>6, ArrivalStep DEF CreatedArrives

\* The list goes on to a drill there is.
LEMMA ListKeepsForms ==
    ASSUME FormsInv, NEW t \in Tasks, ListArrives(t) \/ ListRefreshed(t)
    PROVE  FormsInv'
<1>1. TaskOK(task[t]) /\ task[t].call = "list" /\ task[t].reply.kind = "ok" /\ ~Idle(t)
  BY DEF FormsInv, TasksOK, Answered, ListArrives, ListRefreshed
<1>2. listed' \subseteq DOMAIN drills
  BY <1>1 DEF TaskOK, ListArrives, ListRefreshed
<1>3. UNCHANGED <<drills, accepted, left, picked, dialog>>
  BY DEF ListArrives, ListRefreshed
<1>4. ASSUME UNCHANGED <<current, panel>>, NEW id \in DOMAIN drills \cup {None},
             Proceed(t, id), task[t].rest # << >> => id # None
      PROVE  FormsInv'
  <2>1. ScreenOK'
    BY <1>2, <1>3, <1>4 DEF FormsInv, ScreenOK, Stored, CreatedHere, Accepted
  <2>2. TasksOK'
    BY <1>1, <1>3, <1>4, ProceedStep DEF FormsInv
  <2> QED
    BY <1>3, <2>1, <2>2, ArrivalStep
<1>5. CASE ListRefreshed(t)
  BY <1>4, <1>5 DEF ListRefreshed
<1>6. CASE ListArrives(t)
  <2> DEFINE targets == IF task[t].drill # None THEN {task[t].drill}
                        ELSE IF current # None THEN {current.id} ELSE listed'
  <2>1. \A id \in targets : id \in DOMAIN drills /\ id # None
    BY <1>1, <1>2, Shown DEF FormsInv, TaskOK
  <2>2. CASE \E id \in targets : Proceed(t, id) /\ UNCHANGED <<current, panel>>
    BY <1>4, <2>1, <2>2
  <2>3. CASE targets = {} /\ task' = [task EXCEPT ![t] = NoTask] /\ current' = None /\ panel' = None
    <3>1. current = None /\ panel = None
      BY <2>3, Shown DEF FormsInv
    <3>2. ScreenOK'
      BY <1>2, <1>3, <2>3, <3>1 DEF FormsInv, ScreenOK, Stored, CreatedHere, Accepted
    <3>3. TasksOK'
      BY <1>3, <2>3, <3>1, TaskStep DEF FormsInv
    <3> QED
      BY <1>3, <3>2, <3>3, ArrivalStep
  <2> QED
    BY <1>6, <2>2, <2>3 DEF ListArrives
<1> QED
  BY <1>5, <1>6

\* Events, a verdict or an exception.
LEMMA RestKeepsForms ==
    ASSUME FormsInv, NEW t \in Tasks,
           TimelineArrives(t) \/ VerdictArrives(t) \/ FailureArrives(t)
    PROVE  FormsInv'
<1>1. TaskOK(task[t]) /\ ~Idle(t)
  BY DEF FormsInv, TasksOK, Answered, TimelineArrives, VerdictArrives, FailureArrives
<1>2. /\ UNCHANGED <<drills, accepted, left, current, panel, listed, picked, dialog>>
      /\ task[t].call \in {"timeline", "verify"} \/ task' = [task EXCEPT ![t] = NoTask]
  BY DEF Answered, TimelineArrives, VerdictArrives, FailureArrives, tab
<1>3. ScreenOK'
  BY <1>2, ScreenKept DEF FormsInv
<1>4. CASE task[t].call = "timeline" /\ Proceed(t, task[t].drill)
  BY <1>1, <1>2, <1>3, <1>4, ProceedStep, ArrivalStep DEF FormsInv, TaskOK
<1>5. CASE task[t].call = "verify" /\ Proceed(t, None)
  BY <1>1, <1>2, <1>3, <1>5, ProceedStep, ArrivalStep DEF FormsInv, TaskOK
<1>6. CASE task' = [task EXCEPT ![t] = NoTask]
  BY <1>2, <1>3, <1>6, TaskStep, ArrivalStep DEF FormsInv
<1> QED
  BY <1>4, <1>5, <1>6 DEF Answered, TimelineArrives, VerdictArrives, FailureArrives

LEMMA NextKeepsForms == ASSUME FormsInv, Next PROVE FormsInv'
<1>1. ASSUME NEW t \in Tasks, Service(t) PROVE FormsInv'
  BY <1>1, ReadKeepsForms, ServeCreateKeepsForms, PostKeepsForms DEF Service
<1>2. ASSUME NEW t \in Tasks, Arrival(t) PROVE FormsInv'
  BY <1>2, CaseKeepsForms, CreatedKeepsForms, ListKeepsForms, RestKeepsForms DEF Arrival
<1> QED
  BY <1>1, <1>2, UserKeepsForms, DigestedKeepsForms, LoseKeepsForms, DialogsKeepForms,
     OthersKeepForms DEF Next

LEMMA StutterKeepsForms == FormsInv /\ UNCHANGED vars => FormsInv'
  BY DEF vars, tab, FormsInv, ServiceOK, ScreenOK, Stored, CreatedHere, Accepted, TasksOK, Idle,
         TaskOK, WriteOK, CaseFormsAreExact, PlansKeepTheirDrill, ButtonsActOnTheShown,
         AcceptedAsSeen

\* The inductive invariant of the forms and buttons.
THEOREM FormsInvariant == Spec => []FormsInv
  BY StutterKeepsForms, FormsInit, NextKeepsForms, PTL DEF Spec

\* A record of the site or a review decision is accepted only on the drill
\* and revision its form showed, whatever arrived while it was digested.
THEOREM CaseFormsExact == Spec => []CaseFormsAreExact
<1>1. FormsInv => CaseFormsAreExact
  BY DEF FormsInv
<1> QED
  BY <1>1, FormsInvariant, PTL

\* A plan is accepted only for the drill its dialog was opened on.
THEOREM PlansExact == Spec => []PlansKeepTheirDrill
<1>1. FormsInv => PlansKeepTheirDrill
  BY DEF FormsInv
<1> QED
  BY <1>1, FormsInvariant, PTL

\* A button is accepted on the case on the screen, or freezes a new drill.
THEOREM ButtonsExact == Spec => []ButtonsActOnTheShown
<1>1. FormsInv => ButtonsActOnTheShown
  BY DEF FormsInv
<1> QED
  BY <1>1, FormsInvariant, PTL

-----------------------------------------------------------------------------
(* A calm tab.  Its only handler carries what the screen still lacks.      *)

\* The invariant after a step, task by task.
LEMMA CalmNext ==
    ASSUME left'.calm => /\ Settled' => UpToDate'
                         /\ \A u \in Tasks : task'[u] # NoTask =>
                               /\ \A k : k = task'[u] => Awaits(k)'
                               /\ \A v \in Tasks : task'[v] # NoTask => v = u
    PROVE  CalmOK'
<1> SUFFICES ASSUME left'.calm, NEW u \in Tasks, task'[u] # NoTask PROVE Awaits(task[u])'
  BY DEF CalmOK, Idle
<1>1. PICK k : k = task'[u]
  OBVIOUS
<1>2. Awaits(k)'
  BY <1>1
<1> QED
  BY <1>1, <1>2 DEF Awaits

\* A step of one handler, the others idle if the tab stays calm.
LEMMA CalmStep ==
    ASSUME TasksOK, NEW t \in Tasks, NEW k, task' = [task EXCEPT ![t] = k],
           left'.calm => \A u \in Tasks \ {t} : Idle(u),
           left'.calm /\ k # NoTask => Awaits(k)', left'.calm /\ k = NoTask => UpToDate'
    PROVE  CalmOK'
<1> SUFFICES ASSUME left'.calm
             PROVE  /\ Settled' => UpToDate'
                    /\ \A u \in Tasks : task'[u] # NoTask =>
                          /\ \A k1 : k1 = task'[u] => Awaits(k1)'
                          /\ \A v \in Tasks : task'[v] # NoTask => v = u
  BY CalmNext
<1>1. task'[t] = k /\ \A u \in Tasks \ {t} : task'[u] = NoTask
  BY DEF TasksOK, Idle
<1>2. Settled' => UpToDate'
  BY <1>1 DEF Settled, Idle
<1> QED
  BY <1>1, <1>2

\* In a calm tab a waiting handler is alone.
LEMMA CalmAlone ==
    ASSUME CalmOK, left.calm, NEW t \in Tasks, ~Idle(t)
    PROVE  Awaits(task[t]) /\ \A u \in Tasks \ {t} : Idle(u)
  BY DEF CalmOK

\* A calm user acts on a screen that is up to date.
LEMMA CalmInput ==
    ASSUME FormsInv, CalmOK, Input, left'.calm
    PROVE  left.calm /\ Settled /\ UpToDate
  BY Spending DEF FormsInv, ServiceOK, Calm, Input, CalmOK

Screen == <<drills, current, panel, listed, timeline>>

\* The screen stays up to date while it stays as it is.
LEMMA ScreenStill ==
    ASSUME UpToDate, UNCHANGED Screen, selected' = selected
    PROVE  UpToDate'
  BY DEF UpToDate, Screen, View

\* An input that starts a handler.
LEMMA CalmHandler ==
    ASSUME FormsInv, CalmOK, Input, NEW t \in Tasks, NEW k, k # NoTask,
           task' = [task EXCEPT ![t] = k], UpToDate => Awaits(k)'
    PROVE  CalmOK'
  BY CalmInput, CalmStep DEF FormsInv, Settled

\* The case on an up-to-date screen.
LEMMA CurrentCase ==
    ASSUME FormsInv, UpToDate, current # None
    PROVE  /\ current = panel /\ panel = View(current.id) /\ listed = DOMAIN drills
           /\ selected # None => current.id = selected
  BY DEF UpToDate

\* A handler a call has just started for.
LEMMA AwaitFields ==
    ASSUME NEW call, NEW drill, NEW write, NEW rest
    PROVE  LET k == Await(call, drill, write, rest) IN
           /\ k.call = call /\ k.drill = drill /\ k.write = write /\ k.rest = rest
           /\ k.reply.kind = "waiting" /\ (call # "none" => k # NoTask)
  BY DEF Await, Waiting, NoTask

\* No input leads away from a screen that is going to be up to date.
LEMMA UserKeepsCalm ==
    ASSUME FormsInv, CalmOK, NEW t \in Tasks, User(t)
    PROVE  CalmOK'
<1>1. ASSUME NEW id \in Drills, Select(t, id) PROVE CalmOK'
  <2>1. PICK k : k = Await("load", id, None, <<"timeline">>)
    OBVIOUS
  <2>2. UpToDate => Awaits(k)'
    BY <1>1, <2>1, AwaitFields DEF Select, UpToDate, Awaits, tab
  <2>3. k # NoTask
    BY <2>1, AwaitFields
  <2> QED
    BY <1>1, <2>1, <2>2, <2>3, CalmHandler DEF Select, Begin
<1>2. ASSUME NEW w, w.drill = current.id, current # None, Input,
             Begin(t, "post", current.id, w, <<"timeline", "list">>), UNCHANGED Screen,
             selected' = selected
      PROVE  CalmOK'
  <2>1. PICK k : k = Await("post", current.id, w, <<"timeline", "list">>)
    OBVIOUS
  <2>2. UpToDate => Awaits(k)'
    BY <1>2, <2>1, AwaitFields, ScreenStill, CurrentCase DEF Awaits, Screen
  <2>3. k # NoTask
    BY <2>1, AwaitFields
  <2> QED
    BY <1>2, <2>1, <2>2, <2>3, CalmHandler DEF Begin
<1>3. CASE PrimaryAction(t)
  BY <1>2, <1>3, MutationIsWrite, Shown DEF PrimaryAction, FormsInv, tab, Screen
<1>4. CASE SubmitPlan(t)
  BY <1>2, <1>4, MutationIsWrite DEF SubmitPlan, FormsInv, ScreenOK, Screen
<1>5. CASE SubmitReview(t)
  BY <1>2, <1>5, MutationIsWrite, Shown DEF SubmitReview, FormsInv, tab, Screen
<1>6. ASSUME NEW w, NEW call \in {"digest", "verify"}, NEW id, Input,
             Begin(t, call, id, w, << >>), UNCHANGED Screen, selected' = selected
      PROVE  CalmOK'
  <2>1. PICK k : k = Await(call, id, w, << >>)
    OBVIOUS
  <2>2. UpToDate => Awaits(k)'
    BY <1>6, <2>1, AwaitFields, ScreenStill DEF Awaits
  <2>3. k # NoTask
    BY <2>1, AwaitFields
  <2> QED
    BY <1>6, <2>1, <2>2, <2>3, CalmHandler DEF Begin
<1>7. CASE SubmitActivation(t) \/ SubmitRetest(t) \/ SubmitObservation(t) \/ Verify(t)
  BY <1>6, <1>7 DEF SubmitActivation, SubmitRetest, SubmitObservation, Verify, tab, Screen
<1>8. CASE SubmitCreate(t)
  <2>1. PICK k : k = Await("create", None, [op |-> "create", form |-> dialog.form],
                           <<"list", "load", "timeline">>)
    OBVIOUS
  <2>2. UNCHANGED Screen /\ selected' = selected
    BY <1>8 DEF SubmitCreate, tab, Screen
  <2>3. UpToDate => Awaits(k)'
    BY <2>1, <2>2, AwaitFields, ScreenStill DEF Awaits
  <2>4. k # NoTask
    BY <2>1, AwaitFields
  <2> QED
    BY <1>8, <2>1, <2>3, <2>4, CalmHandler DEF SubmitCreate, Begin
<1>9. CASE ReloadTimeline(t)
  <2>1. PICK k : k = Await("timeline", current.id, None, << >>)
    OBVIOUS
  <2>2. UpToDate => Awaits(k)'
    BY <1>9, <2>1, AwaitFields, CurrentCase DEF ReloadTimeline, Awaits, View, tab
  <2>3. k # NoTask
    BY <2>1, AwaitFields
  <2> QED
    BY <1>9, <2>1, <2>2, <2>3, CalmHandler DEF ReloadTimeline, Begin
<1> QED
  BY <1>1, <1>3, <1>4, <1>5, <1>7, <1>8, <1>9 DEF User

\* What only the dialogs and the bounds see.
LEMMA StillKeepsCalm ==
    ASSUME CalmOK, left'.calm => left.calm, UNCHANGED Screen, UNCHANGED <<task, selected>>
    PROVE  CalmOK'
<1>1. UpToDate => UpToDate'
  BY ScreenStill
<1>2. ASSUME NEW k, Awaits(k) PROVE Awaits(k)'
  BY <1>1, <1>2 DEF Awaits, Screen, View
<1>3. \A u \in Tasks : Idle(u)' <=> Idle(u)
  BY DEF Idle
<1> SUFFICES ASSUME left'.calm
             PROVE  /\ Settled' => UpToDate'
                    /\ \A u \in Tasks : task'[u] # NoTask =>
                          /\ \A k1 : k1 = task'[u] => Awaits(k1)'
                          /\ \A v \in Tasks : task'[v] # NoTask => v = u
  BY CalmNext
<1> QED
  BY <1>1, <1>2, <1>3 DEF CalmOK, Settled, Idle

LEMMA DialogsKeepCalm ==
    ASSUME FormsInv, CalmOK, Dialogs PROVE CalmOK'
<1>1. left'.calm => left.calm
  BY CalmInput DEF Dialogs, OpenCreate, OpenActivation, OpenFinding, CloseDialog, Open
<1> QED
  BY <1>1, StillKeepsCalm DEF Dialogs, OpenCreate, OpenActivation, OpenFinding, CloseDialog, Screen

\* A lost message, another user's write or a damaged dossier ends the calm.
LEMMA OthersEndCalm ==
    ASSUME FormsInv, \/ \E t \in Tasks : Lose(t)
                     \/ \E id \in DOMAIN drills : OtherWrite(id) \/ Damage(id)
    PROVE  CalmOK'
  BY Spending DEF FormsInv, ServiceOK, Calm, Lose, OtherWrite, Damage, CalmOK

\* The digest is there: the write goes to the case on the screen.
LEMMA DigestedKeepsCalm ==
    ASSUME FormsInv, CalmOK, NEW t \in Tasks, Digested(t)
    PROVE  CalmOK'
<1>1. TaskOK(task[t]) /\ task[t].call = "digest" /\ ~Idle(t)
  BY DEF Digested, FormsInv, TasksOK
<1>2. IsWrite(task[t].write) /\ current # None
  BY <1>1 DEF TaskOK
<1>3. PICK w : w = task[t].write
  OBVIOUS
<1>4. PICK post : post = [w EXCEPT !.drill = current.id,
                                   !.item = IF w.op = "retest" THEN picked ELSE w.item]
  OBVIOUS
<1>5. post.drill = current.id
  BY <1>2, <1>3, <1>4 DEF IsWrite, WriteFields
<1>6. PICK k : k = Await("post", current.id, post, <<"timeline", "list">>)
  OBVIOUS
<1>7. k # NoTask
  BY <1>6, AwaitFields
<1>8. task' = [task EXCEPT ![t] = k]
  BY <1>3, <1>4, <1>6 DEF Digested
<1>9. UNCHANGED Screen /\ selected' = selected /\ left' = left
  BY DEF Digested, Screen
<1>10. ASSUME left'.calm PROVE Awaits(k)' /\ \A u \in Tasks \ {t} : Idle(u)
  <2>1. UpToDate /\ \A u \in Tasks \ {t} : Idle(u)
    <3>1. left.calm
      BY <1>9, <1>10
    <3>2. Awaits(task[t]) /\ \A u \in Tasks \ {t} : Idle(u)
      BY <1>1, <3>1, CalmAlone
    <3> QED
      BY <1>1, <3>2 DEF Awaits
  <2> QED
    BY <1>2, <1>5, <1>6, <1>9, <2>1, AwaitFields, ScreenStill, CurrentCase DEF Awaits, Screen
<1> QED
  BY <1>7, <1>8, <1>10, CalmStep DEF FormsInv

\* A handler whose call has been answered.
LEMMA AnsweredTask ==
    ASSUME TasksOK, NEW t \in Tasks, ~Idle(t), NEW reply, Answer(t, reply)
    PROVE  \E k : /\ task' = [task EXCEPT ![t] = k] /\ k # NoTask
                  /\ k.call = task[t].call /\ k.drill = task[t].drill
                  /\ k.write = task[t].write /\ k.rest = task[t].rest /\ k.reply = reply
<1>1. PICK old : old = task[t]
  OBVIOUS
<1>2. IsTask(old)
  BY <1>1 DEF TasksOK, TaskOK
<1>3. PICK k : k = [old EXCEPT !.reply = reply]
  OBVIOUS
<1>4. /\ k.call = old.call /\ k.drill = old.drill /\ k.write = old.write
      /\ k.rest = old.rest /\ k.reply = reply
  BY <1>2, <1>3 DEF IsTask, TaskFields
<1>5. "reply" \in DOMAIN k
  BY <1>2, <1>3 DEF IsTask, TaskFields
<1>6. k # NoTask
  BY <1>5 DEF NoTask
<1>7. task' = [task EXCEPT ![t] = k]
  BY <1>1, <1>3 DEF Answer
<1> QED
  BY <1>1, <1>4, <1>6, <1>7

\* An answer leaves the screen as it is and brings what it still lacks.
LEMMA CalmAnswer ==
    ASSUME FormsInv, CalmOK, NEW t \in Tasks, ~Idle(t), NEW reply, Answer(t, reply),
           left' = left,
           \A k : /\ left.calm /\ Awaits(task[t])
                  /\ k.call = task[t].call /\ k.drill = task[t].drill
                  /\ k.write = task[t].write /\ k.rest = task[t].rest /\ k.reply = reply
                  => Awaits(k)'
    PROVE  CalmOK'
<1>1. PICK k : /\ task' = [task EXCEPT ![t] = k] /\ k # NoTask
               /\ k.call = task[t].call /\ k.drill = task[t].drill
               /\ k.write = task[t].write /\ k.rest = task[t].rest /\ k.reply = reply
  BY AnsweredTask DEF FormsInv
<1>2. ASSUME left'.calm PROVE Awaits(k)' /\ \A u \in Tasks \ {t} : Idle(u)
  BY <1>1, <1>2, CalmAlone
<1> QED
  BY <1>1, <1>2, CalmStep DEF FormsInv

\* What a read finds is what the service stores.
LEMMA ReadKeepsCalm ==
    ASSUME FormsInv, CalmOK, NEW t \in Tasks, ServeRead(t)
    PROVE  CalmOK'
<1>1. PICK old : old = task[t]
  OBVIOUS
<1>2. ~Idle(t) /\ UNCHANGED Screen /\ selected' = selected /\ left' = left
  BY DEF ServeRead, Requested, Screen, tab
<1>3. PICK reply : /\ Answer(t, reply)
                   /\ old.call \in {"list", "load", "timeline", "verify"}
                   /\ old.call # "verify" => reply.kind = "ok"
                   /\ old.call = "list" => reply.value = DOMAIN drills
                   /\ old.call = "load" => reply.value = View(old.drill)
                   /\ old.call = "timeline" => reply.value = old.drill
  <2>1. \A value : Reply(value).kind = "ok" /\ Reply(value).value = value
    BY DEF Reply
  <2> QED
    BY <1>1, <2>1 DEF ServeRead, AnswerWith
<1>4. ASSUME NEW k, left.calm, Awaits(old), k.call = old.call, k.drill = old.drill,
             k.write = old.write, k.rest = old.rest, k.reply = reply
      PROVE  Awaits(k)'
  <2>1. UpToDate => UpToDate'
    BY <1>2, ScreenStill
  <2> QED
    BY <1>2, <1>3, <1>4, <2>1 DEF Awaits, Screen, View
<1> QED
  BY <1>1, <1>2, <1>3, <1>4, CalmAnswer

\* The answer of the create form is the drill as it is stored.
LEMMA ServeCreateKeepsCalm ==
    ASSUME FormsInv, CalmOK, NEW t \in Tasks, ServeCreate(t)
    PROVE  CalmOK'
<1>1. PICK old : old = task[t]
  OBVIOUS
<1>2. /\ ~Idle(t) /\ left' = left /\ selected' = selected /\ old.call = "create"
      /\ old.reply.kind # "ok"
      /\ UNCHANGED <<current, panel, listed, timeline>>
  BY <1>1 DEF ServeCreate, Requested, tab, Waiting
<1>3. PICK reply : /\ Answer(t, reply)
                   /\ reply.kind # "ok" => drills' = drills
                   /\ reply.kind = "ok" => reply.value = View(reply.value.id)'
  <2>1. CASE Answer(t, Failed) /\ drills' = drills
    BY <2>1 DEF Failed
  <2>2. CASE \E id \in Drills \ DOMAIN drills :
                /\ drills' = [i \in DOMAIN drills \cup {id} |->
                                 IF i = id THEN NewDrill ELSE drills[i]]
                /\ Answer(t, Reply([id |-> id, drill |-> NewDrill]))
    <3>1. PICK id \in Drills : /\ drills'[id] = NewDrill
                               /\ Answer(t, Reply([id |-> id, drill |-> NewDrill]))
      BY <2>2
    <3>2. PICK reply : reply = Reply([id |-> id, drill |-> NewDrill])
      OBVIOUS
    <3>3. reply.kind = "ok" /\ reply.value = [id |-> id, drill |-> NewDrill]
      BY <3>2 DEF Reply
    <3>4. reply.value = View(reply.value.id)'
      BY <3>1, <3>3 DEF View
    <3> QED
      BY <3>1, <3>2, <3>3, <3>4
  <2> QED
    BY <2>1, <2>2, Statuses DEF ServeCreate, AnswerWith
<1>4. ASSUME NEW k, left.calm, Awaits(old), k.call = old.call, k.drill = old.drill,
             k.write = old.write, k.rest = old.rest, k.reply = reply
      PROVE  Awaits(k)'
  <2>1. UpToDate /\ old.rest = <<"list", "load", "timeline">>
    BY <1>2, <1>4 DEF Awaits
  <2>2. reply.kind # "ok" => UpToDate'
    BY <1>2, <1>3, <2>1, ScreenStill DEF Screen
  <2> QED
    BY <1>2, <1>3, <1>4, <2>1, <2>2 DEF Awaits, View
<1> QED
  BY <1>1, <1>2, <1>3, <1>4, CalmAnswer

\* The answer of a write is the drill as the write left it.
LEMMA PostKeepsCalm ==
    ASSUME FormsInv, CalmOK, NEW t \in Tasks, ServePost(t)
    PROVE  CalmOK'
<1>1. PICK old : old = task[t]
  OBVIOUS
<1>2. /\ ~Idle(t) /\ left' = left /\ selected' = selected /\ old.call = "post"
      /\ old.reply.kind # "ok"
      /\ UNCHANGED <<current, panel, listed, timeline>>
  BY <1>1 DEF ServePost, Requested, tab, Waiting
<1>3. PICK reply : /\ Answer(t, reply)
                   /\ reply.kind # "ok" => drills' = drills
                   /\ DOMAIN drills' = DOMAIN drills
                   /\ reply.kind = "ok" => reply.value = View(old.write.drill)'
  <2>1. CASE Answer(t, Failed) /\ drills' = drills
    BY <2>1 DEF Failed
  <2>2. ASSUME NEW w, w = task[t].write, w.drill \in DOMAIN drills, NEW d,
               drills' = [drills EXCEPT ![w.drill] = d],
               Answer(t, Reply([id |-> w.drill, drill |-> d]))
        PROVE  \E reply : /\ Answer(t, reply)
                          /\ reply.kind # "ok" => drills' = drills
                          /\ DOMAIN drills' = DOMAIN drills
                          /\ reply.kind = "ok" => reply.value = View(old.write.drill)'
    <3>1. PICK reply : reply = Reply([id |-> w.drill, drill |-> d])
      OBVIOUS
    <3>2. reply.kind = "ok" /\ reply.value = [id |-> w.drill, drill |-> d]
      BY <3>1 DEF Reply
    <3>3. drills'[w.drill] = d /\ DOMAIN drills' = DOMAIN drills
      BY <2>2
    <3>4. reply.value = View(old.write.drill)'
      BY <1>1, <2>2, <3>2, <3>3 DEF View
    <3> QED
      BY <2>2, <3>1, <3>2, <3>3, <3>4
  <2>3. PICK w : w = task[t].write
    OBVIOUS
  <2>4. PICK outcome \in Outcomes(drills, w) :
           IF outcome = "done"
           THEN \E d \in Effects(drills[w.drill], w) :
                  /\ drills' = [drills EXCEPT ![w.drill] = d]
                  /\ AnswerWith(t, Status(outcome), [id |-> w.drill, drill |-> d])
           ELSE AnswerWith(t, Status(outcome), None) /\ drills' = drills
    BY <2>3, Zenon DEF ServePost
  <2>5. CASE outcome = "done"
    <3>1. w.drill \in DOMAIN drills
      BY <2>4, <2>5, Done
    <3> QED
      BY <2>2, <2>3, <2>4, <2>5, <3>1, Statuses DEF AnswerWith
  <2>6. CASE outcome # "done"
    <3>1. outcome \in {"invalid", "conflict", "not_found", "forbidden"}
      BY <2>4, <2>6 DEF Outcomes
    <3> QED
      BY <2>1, <2>4, <2>6, <3>1, Statuses DEF AnswerWith
  <2> QED
    BY <2>5, <2>6
<1>4. ASSUME NEW k, left.calm, Awaits(old), k.call = old.call, k.drill = old.drill,
             k.write = old.write, k.rest = old.rest, k.reply = reply
      PROVE  Awaits(k)'
  <2>1. /\ UpToDate /\ old.rest = <<"timeline", "list">> /\ old.write.drill = current.id
        /\ listed = DOMAIN drills /\ (selected # None => current.id = selected)
    BY <1>2, <1>4 DEF Awaits
  <2>2. reply.kind # "ok" => UpToDate'
    BY <1>2, <1>3, <2>1, ScreenStill DEF Screen
  <2> QED
    BY <1>2, <1>3, <1>4, <2>1, <2>2 DEF Awaits, View
<1> QED
  BY <1>1, <1>2, <1>3, <1>4, CalmAnswer

\* A handler goes on: its next call awaits what it shall, or the screen is
\* up to date.
LEMMA CalmProceed ==
    ASSUME FormsInv, CalmOK, NEW t \in Tasks, ~Idle(t), NEW id, Proceed(t, id), left' = left,
           left.calm /\ Awaits(task[t]) /\ task[t].rest = << >> => UpToDate',
           \A k : /\ left.calm /\ Awaits(task[t]) /\ task[t].rest # << >>
                  /\ k.call = Head(task[t].rest) /\ k.rest = Tail(task[t].rest)
                  /\ k.drill = id /\ k.reply.kind = "waiting"
                  => Awaits(k)'
    PROVE  CalmOK'
<1>1. PICK old : old = task[t]
  OBVIOUS
<1>2. old.rest \in Seq(Reads)
  BY <1>1 DEF FormsInv, TasksOK, TaskOK
<1>3. ASSUME left.calm PROVE Awaits(old) /\ \A u \in Tasks \ {t} : Idle(u)
  BY <1>1, <1>3, CalmAlone
<1>4. CASE old.rest = << >>
  <2>1. task' = [task EXCEPT ![t] = NoTask]
    BY <1>1, <1>4 DEF Proceed
  <2> QED
    BY <1>1, <1>3, <1>4, <2>1, CalmStep DEF FormsInv
<1>5. CASE old.rest # << >>
  <2>1. PICK k : k = Await(Head(old.rest), id, None, Tail(old.rest))
    OBVIOUS
  <2>2. task' = [task EXCEPT ![t] = k]
    BY <1>1, <1>5, <2>1 DEF Proceed
  <2>3. Head(old.rest) # "none"
    BY <1>2, <1>5 DEF Reads
  <2>4. /\ k.call = Head(old.rest) /\ k.rest = Tail(old.rest) /\ k.drill = id
        /\ k.reply.kind = "waiting" /\ k # NoTask
    BY <2>1, <2>3, AwaitFields
  <2>5. left'.calm => Awaits(k)' /\ \A u \in Tasks \ {t} : Idle(u)
    BY <1>1, <1>3, <1>5, <2>4
  <2> QED
    BY <2>2, <2>4, <2>5, CalmStep DEF FormsInv
<1> QED
  BY <1>4, <1>5

\* What is left of the calls of a handler.
LEMMA Rests ==
    /\ <<"timeline">> # << >> /\ Head(<<"timeline">>) = "timeline" /\ Tail(<<"timeline">>) = << >>
    /\ <<"list">> # << >> /\ Head(<<"list">>) = "list" /\ Tail(<<"list">>) = << >>
    /\ <<"timeline", "list">> # << >>
    /\ Head(<<"timeline", "list">>) = "timeline" /\ Tail(<<"timeline", "list">>) = <<"list">>
    /\ <<"load", "timeline">> # << >>
    /\ Head(<<"load", "timeline">>) = "load" /\ Tail(<<"load", "timeline">>) = <<"timeline">>
    /\ <<"list", "load", "timeline">> # << >>
    /\ Head(<<"list", "load", "timeline">>) = "list"
    /\ Tail(<<"list", "load", "timeline">>) = <<"load", "timeline">>
  OBVIOUS

\* A case that arrives is the stored one; its events are asked for next.
LEMMA CaseKeepsCalm ==
    ASSUME FormsInv, CalmOK, NEW t \in Tasks, CaseArrives(t)
    PROVE  CalmOK'
<1>1. PICK old : old = task[t]
  OBVIOUS
<1>2. PICK view : view = old.reply.value
  OBVIOUS
<1>3. /\ ~Idle(t) /\ old.call \in {"load", "post"} /\ old.reply.kind = "ok"
      /\ Proceed(t, view.id) /\ current' = view /\ panel' = view
      /\ UNCHANGED <<listed, drills, selected, left>>
  BY <1>1, <1>2 DEF CaseArrives, Answered, ShowCase
<1>4. ASSUME left.calm, Awaits(old)
      PROVE  /\ old.rest \in {<<"timeline">>, <<"timeline", "list">>}
             /\ view = View(view.id) /\ listed = DOMAIN drills
             /\ selected # None => view.id = selected
  <2>1. \A id : View(id).id = id
    BY DEF View
  <2>2. CASE old.call = "load"
    <3>1. /\ old.rest = <<"timeline">> /\ view = View(old.drill) /\ listed = DOMAIN drills
          /\ selected # None => old.drill = selected
      BY <1>2, <1>3, <1>4, <2>2 DEF Awaits
    <3> QED
      BY <2>1, <3>1
  <2>3. CASE old.call = "post"
    <3>1. /\ old.rest = <<"timeline", "list">> /\ view = View(current.id)
          /\ listed = DOMAIN drills /\ (selected # None => current.id = selected)
      BY <1>2, <1>3, <1>4, <2>3 DEF Awaits
    <3> QED
      BY <2>1, <3>1
  <2> QED
    BY <1>3, <2>2, <2>3
<1>5. ASSUME NEW k, left.calm, Awaits(old), old.rest # << >>, k.call = Head(old.rest),
             k.rest = Tail(old.rest), k.drill = view.id, k.reply.kind = "waiting"
      PROVE  Awaits(k)'
  <2>1. k.call = "timeline" /\ k.rest \in {<< >>, <<"list">>}
    BY <1>4, <1>5, Rests
  <2> QED
    BY <1>3, <1>4, <1>5, <2>1 DEF Awaits, View
<1>6. ~(left.calm /\ Awaits(old) /\ old.rest = << >>)
  BY <1>4, Rests
<1> QED
  BY <1>1, <1>3, <1>5, <1>6, CalmProceed

\* A drill just created is selected; the list is asked for next.
LEMMA CreatedKeepsCalm ==
    ASSUME FormsInv, CalmOK, NEW t \in Tasks, CreatedArrives(t)
    PROVE  CalmOK'
<1>1. PICK old : old = task[t]
  OBVIOUS
<1>2. PICK id : id = old.reply.value.id
  OBVIOUS
<1>3. /\ ~Idle(t) /\ old.call = "create" /\ old.reply.kind = "ok" /\ Proceed(t, id)
      /\ selected' = id /\ left' = left
  BY <1>1, <1>2 DEF CreatedArrives, Answered
<1>4. id # None
  BY <1>1, <1>2, ArrivedView DEF CreatedArrives
<1>5. Awaits(old) => old.rest = <<"list", "load", "timeline">>
  BY <1>3 DEF Awaits
<1>6. ASSUME NEW k, Awaits(old), k.call = Head(old.rest),
             k.rest = Tail(old.rest), k.drill = id, k.reply.kind = "waiting"
      PROVE  Awaits(k)'
  <2>1. k.call = "list" /\ k.rest = <<"load", "timeline">> /\ k.rest # << >>
    BY <1>5, <1>6, Rests
  <2> QED
    BY <1>3, <1>4, <1>6, <2>1 DEF Awaits
<1> QED
  BY <1>1, <1>3, <1>5, <1>6, Rests, CalmProceed

\* The list names every drill; the drill asked for, or any, is loaded next.
LEMMA ListKeepsCalm ==
    ASSUME FormsInv, CalmOK, NEW t \in Tasks, ListArrives(t)
    PROVE  CalmOK'
<1>1. PICK old : old = task[t]
  OBVIOUS
<1>2. /\ ~Idle(t) /\ old.call = "list" /\ old.reply.kind = "ok" /\ old.rest # << >>
      /\ listed' = old.reply.value /\ UNCHANGED <<drills, selected, left>>
  BY <1>1 DEF ListArrives, Answered
<1>3. ASSUME Awaits(old)
      PROVE  /\ old.rest = <<"load", "timeline">> /\ listed' = DOMAIN drills
             /\ IF old.drill = None THEN current = None /\ panel = None /\ selected = None
                ELSE selected = old.drill
  BY <1>2, <1>3 DEF Awaits
<1> DEFINE targets == IF old.drill # None THEN {old.drill}
                      ELSE IF current # None THEN {current.id} ELSE listed'
<1>4. ASSUME NEW id \in targets, Proceed(t, id), UNCHANGED <<current, panel>>
      PROVE  CalmOK'
  <2>1. ASSUME NEW k, left.calm, Awaits(old), k.call = Head(old.rest),
               k.rest = Tail(old.rest), k.drill = id, k.reply.kind = "waiting"
        PROVE  Awaits(k)'
    <3>1. k.call = "load" /\ k.rest = <<"timeline">>
      BY <1>3, <2>1, Rests
    <3>2. selected # None => id = selected
      BY <1>3, <1>4, <2>1
    <3> QED
      BY <1>2, <1>3, <2>1, <3>1, <3>2 DEF Awaits
  <2> QED
    BY <1>1, <1>2, <1>4, <2>1, CalmProceed
<1>5. CASE targets = {} /\ task' = [task EXCEPT ![t] = NoTask] /\ current' = None /\ panel' = None
  <2>1. ASSUME left.calm PROVE UpToDate' /\ \A u \in Tasks \ {t} : Idle(u)
    <3>1. Awaits(old) /\ \A u \in Tasks \ {t} : Idle(u)
      BY <1>1, <1>2, <2>1, CalmAlone
    <3>2. old.drill = None /\ current = None /\ listed' = {}
      BY <1>3, <1>5, <3>1
    <3> QED
      BY <1>2, <1>3, <1>5, <3>1, <3>2 DEF UpToDate
  <2> QED
    BY <1>2, <1>5, <2>1, CalmStep DEF FormsInv
<1> QED
  BY <1>1, <1>4, <1>5 DEF ListArrives

\* After a write only the list is left to renew.
LEMMA RefreshKeepsCalm ==
    ASSUME FormsInv, CalmOK, NEW t \in Tasks, ListRefreshed(t)
    PROVE  CalmOK'
<1>1. PICK old : old = task[t]
  OBVIOUS
<1>2. /\ ~Idle(t) /\ old.call = "list" /\ old.reply.kind = "ok" /\ old.rest = << >>
      /\ listed' = old.reply.value /\ Proceed(t, None)
      /\ UNCHANGED <<current, panel, timeline, drills, selected, left>>
  BY <1>1 DEF ListRefreshed, Answered
<1>3. Awaits(old) => UpToDate'
  BY <1>2, ScreenStill DEF Awaits, UpToDate, View
<1> QED
  BY <1>1, <1>2, <1>3, CalmProceed

\* The events of the case on the screen complete it.
LEMMA TimelineKeepsCalm ==
    ASSUME FormsInv, CalmOK, NEW t \in Tasks, TimelineArrives(t)
    PROVE  CalmOK'
<1>1. PICK old : old = task[t]
  OBVIOUS
<1>2. /\ ~Idle(t) /\ old.call = "timeline" /\ old.reply.kind = "ok"
      /\ timeline' = old.reply.value /\ Proceed(t, old.drill)
      /\ UNCHANGED <<current, panel, listed, drills, selected, left>>
  BY <1>1 DEF TimelineArrives, Answered
<1>3. old.drill \in DOMAIN drills /\ old.drill # None
  BY <1>1, <1>2 DEF FormsInv, TasksOK, TaskOK
<1>4. ASSUME Awaits(old) PROVE UpToDate' /\ old.rest \in {<< >>, <<"list">>}
  <2>1. /\ listed = DOMAIN drills /\ current = panel /\ panel = View(old.drill)
        /\ selected # None => old.drill = selected
        /\ old.reply.value = old.drill /\ old.rest \in {<< >>, <<"list">>}
    BY <1>2, <1>4 DEF Awaits
  <2>2. panel # None /\ panel.id = old.drill
    <3>1. panel \in ViewType
      BY <1>3, <2>1 DEF FormsInv, ServiceOK, View, ViewType
    <3> QED
      BY <2>1, <3>1, NoneAssumption DEF View
  <2> QED
    BY <1>2, <1>3, <2>1, <2>2 DEF UpToDate, View
<1>5. ASSUME NEW k, Awaits(old), old.rest # << >>, k.call = Head(old.rest),
             k.rest = Tail(old.rest), k.drill = old.drill, k.reply.kind = "waiting"
      PROVE  Awaits(k)'
  <2>1. k.call = "list" /\ k.rest = << >>
    BY <1>4, <1>5, Rests
  <2> QED
    BY <1>4, <1>5, <2>1 DEF Awaits
<1> QED
  BY <1>1, <1>2, <1>4, <1>5, CalmProceed

\* A verdict and an exception leave the case as it is.
LEMMA RestKeepsCalm ==
    ASSUME FormsInv, CalmOK, NEW t \in Tasks, VerdictArrives(t) \/ FailureArrives(t)
    PROVE  CalmOK'
<1>1. PICK old : old = task[t]
  OBVIOUS
<1>2. TaskOK(old) /\ ~Idle(t) /\ UNCHANGED Screen /\ selected' = selected /\ left' = left
  BY <1>1 DEF FormsInv, TasksOK, Answered, VerdictArrives, FailureArrives, tab, Screen
<1>3. ASSUME left.calm
      PROVE  /\ UpToDate' /\ task' = [task EXCEPT ![t] = NoTask]
             /\ \A u \in Tasks \ {t} : Idle(u)
  <2>1. Awaits(old) /\ \A u \in Tasks \ {t} : Idle(u)
    BY <1>1, <1>2, <1>3, CalmAlone
  <2>2. CASE VerdictArrives(t)
    <3>1. old.call = "verify" /\ old.rest = << >> /\ Proceed(t, None)
      BY <1>1, <1>2, <2>2 DEF VerdictArrives, Answered, TaskOK
    <3> QED
      BY <1>1, <1>2, <2>1, <3>1, ScreenStill DEF Proceed, Awaits
  <2>3. CASE FailureArrives(t)
    <3>1. old.reply.kind = "failed"
      BY <1>1, <2>3 DEF FailureArrives, Failed
    <3>2. old.call \notin {"list", "load", "timeline"}
      BY <2>1, <3>1 DEF Awaits
    <3> QED
      BY <1>1, <1>2, <2>1, <2>3, <3>1, <3>2, ScreenStill DEF FailureArrives, Awaits
  <2> QED
    BY <2>2, <2>3
<1>4. PICK k : task' = [task EXCEPT ![t] = k] /\ (left.calm => k = NoTask)
  <2>1. CASE left.calm
    BY <1>3, <2>1
  <2>2. CASE ~left.calm
    BY <2>2 DEF VerdictArrives, FailureArrives, Proceed
  <2> QED
    BY <2>1, <2>2
<1> QED
  BY <1>2, <1>3, <1>4, CalmStep DEF FormsInv

LEMMA NextKeepsCalm == ASSUME FormsInv, CalmOK, Next PROVE CalmOK'
<1>1. ASSUME NEW t \in Tasks, Service(t) PROVE CalmOK'
  BY <1>1, ReadKeepsCalm, ServeCreateKeepsCalm, PostKeepsCalm DEF Service
<1>2. ASSUME NEW t \in Tasks, Arrival(t) PROVE CalmOK'
  BY <1>2, CaseKeepsCalm, CreatedKeepsCalm, ListKeepsCalm, RefreshKeepsCalm,
     TimelineKeepsCalm, RestKeepsCalm DEF Arrival
<1>3. ASSUME NEW t \in Tasks, User(t) PROVE CalmOK'
  BY <1>3, UserKeepsCalm
<1>4. ASSUME NEW t \in Tasks, Digested(t) PROVE CalmOK'
  BY <1>4, DigestedKeepsCalm
<1>5. ASSUME NEW t \in Tasks, Lose(t) PROVE CalmOK'
  BY <1>5, OthersEndCalm
<1>6. ASSUME NEW id \in DOMAIN drills, OtherWrite(id) \/ Damage(id) PROVE CalmOK'
  BY <1>6, OthersEndCalm
<1> QED
  BY <1>1, <1>2, <1>3, <1>4, <1>5, <1>6, DialogsKeepCalm DEF Next

\* The page's first handler asks for the list; nothing is on the screen yet.
LEMMA CalmInit == Init => CalmOK
<1> SUFFICES ASSUME Init PROVE CalmOK
  OBVIOUS
<1>1. PICK t \in Tasks :
         task = [x \in Tasks |->
                   IF x = t THEN Await("list", None, None, <<"load", "timeline">>) ELSE NoTask]
  BY DEF Init
<1>2. PICK k : k = Await("list", None, None, <<"load", "timeline">>)
  OBVIOUS
<1>3. /\ k.call = "list" /\ k.drill = None /\ k.rest = <<"load", "timeline">>
      /\ k.reply.kind = "waiting" /\ k # NoTask
  BY <1>2, AwaitFields
<1>4. Awaits(k)
  BY <1>3, Rests DEF Awaits, Init
<1>5. task[t] = k /\ \A u \in Tasks \ {t} : Idle(u)
  BY <1>1, <1>2 DEF Idle
<1>6. ~Settled
  BY <1>3, <1>5 DEF Settled, Idle
<1> QED
  BY <1>4, <1>5, <1>6 DEF CalmOK

\* The inductive invariant of the whole tab.
THEOREM WorkbenchInvariant == Spec => []WorkbenchInv
<1>1. Init => WorkbenchInv
  BY FormsInit, CalmInit DEF WorkbenchInv
<1>2. WorkbenchInv /\ Next => WorkbenchInv'
  BY NextKeepsForms, NextKeepsCalm DEF WorkbenchInv
<1>3. WorkbenchInv /\ UNCHANGED vars => WorkbenchInv'
  <2>1. FormsInv /\ UNCHANGED vars => FormsInv'
    BY StutterKeepsForms
  <2>2. CalmOK /\ UNCHANGED vars => CalmOK'
    BY StillKeepsCalm DEF vars, tab, Screen
  <2> QED
    BY <2>1, <2>2 DEF WorkbenchInv
<1> QED
  BY <1>1, <1>2, <1>3, PTL DEF Spec

\* A tab whose user waits for every answer, while nobody else writes and
\* nothing is lost, shows the service as it is when every answer has come.
THEOREM CalmScreenCurrent == Spec => []CalmScreenIsCurrent
<1>1. WorkbenchInv => CalmScreenIsCurrent
  BY DEF WorkbenchInv, CalmOK, CalmScreenIsCurrent
<1> QED
  BY <1>1, WorkbenchInvariant, PTL
=============================================================================
