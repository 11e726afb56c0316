------------------------------ MODULE SelfCheck ------------------------------
(***************************************************************************)
(* The bounded self check (cmd/shelterd/selfcheck.go): a scripted client   *)
(* takes one drill through DrillWorkflow over real HTTP, against a server  *)
(* it starts and stops itself.  The clock runs in seconds while each call  *)
(* waits; every wait has a limit of its own.                               *)
(***************************************************************************)
EXTENDS DrillWorkflow

CONSTANT Begun      \* the clock when the script reads it

ASSUME BegunAssumption == Begun \in Nat /\ Begun >= 600

\* No evidence and no dossier is an absent one, and no text of the script blank.
ASSUME ScriptAssumption ==
    /\ None \notin [Categories -> EvidenceType]
    /\ None \notin [snapshot : Nat, reviewer : {"reviewer-self"}, head : Nat, passed : Nat]
    /\ {"cause", "action", "owner", "reason"} \subseteq Texts

VARIABLES
    step,       \* the position in the script
    waited,     \* seconds the present call has taken
    revision,   \* the revision the last answer showed
    held,       \* what the process has open: temporary file, store, listener
    result      \* "running", "passed", or how it failed

checkVars == <<drill, now, step, waited, revision, held, result>>

Script == <<"open", "health", "create", "freeze", "activation", "start", "observation",
            "plan", "retest", "submit-review", "approve", "verify", "shutdown">>

Op == Script[step]

\* Mutated form of Limit: an http.Client without a Timeout.
NoLimit(op) == IF op \in {"open", "health", "shutdown"} THEN 6 ELSE -1

\* Seconds a step may take: two of waitHealthy and a last call, the client's
\* timeout, the context of Shutdown.
Limit(op) ==
    CASE op = "open" -> 0
      [] op = "health" -> 6
      [] op = "shutdown" -> 3
      [] OTHER -> 4

-----------------------------------------------------------------------------
(* The requests of the script.                                             *)

Coordinator == "coordinator-self"
Reviewer    == "reviewer-self"

SelfDraft ==
    [coordinator |-> Coordinator, start |-> Begun - 600, end |-> Begun + 7200,
     checkpoints |-> <<[limit |-> 120, capacity |-> 20, comm |-> TRUE, access |-> TRUE]>>]

\* Four different texts, so four different digests.
Digests == CHOOSE f \in [Categories -> 1..4] :
              \A b, c \in Categories : f[b] = f[c] => b = c

SelfEvidence ==
    [c \in Categories |->
        [collected |-> Begun - 60, until |-> Begun + 3600, digest |-> Digests[c]]]

Reading(participants, elapsed) ==
    [participants |-> participants, elapsed |-> elapsed, comm |-> TRUE, access |-> TRUE]

\* Mutated form of RetestAt: a few seconds ahead.
RetestSoon == Begun + 10

\* The retest is planned, and said to have been observed, five minutes ahead.
RetestAt == Begun + 300

\* What a request does when its handler accepts it.
Handled(op) ==
    \/ op = "create" /\ ValidDraft(SelfDraft) /\ drill' = CreatedFrom(SelfDraft) /\ UNCHANGED now
    \/ /\ drill # None /\ revision = drill.revision
       /\ \/ op = "freeze" /\ Freeze(Coordinator)
          \/ op = "activation" /\ RegisterActivation(Coordinator, SelfEvidence)
          \/ op = "start" /\ Start(Coordinator)
          \/ op = "observation" /\ SubmitObservation(Coordinator, 1, Begun, Reading(10, 90))
          \/ /\ op \in {"plan", "retest"}
             /\ \E f \in DOMAIN drill.findings :
                   \/ op = "plan" /\ PlanRemediation(Coordinator, f, "cause", "action",
                                                     "owner", RetestAt, Blank)
                   \/ op = "retest" /\ SubmitRetest(Coordinator, f, RetestAt, Reading(25, 80))
          \/ op = "submit-review" /\ SubmitReview(Coordinator)
          \/ op = "approve" /\ ApproveReview(Reviewer, "reason", drill.snapshot.revision)
    \/ op = "verify" /\ drill.dossier # None /\ UNCHANGED <<drill, now>>

\* What the script checks of an answer besides its status.
AsExpected(op, d) ==
    CASE op = "observation" -> Cardinality(DOMAIN d.findings) = 1 /\ d.state = "remediation"
      [] op = "approve"     -> d.dossier # None /\ d.state = "certified"
      [] OTHER              -> TRUE

-----------------------------------------------------------------------------
(* The run.                                                                *)

Running == result = "running"

Proceed == step' = step + 1 /\ waited' = 0 /\ UNCHANGED <<result, held>>

\* Every return runs the deferred calls: the store is closed and its file
\* removed; the listener is closed by Shutdown or with the process.
Return(r) == result' = r /\ held' = held \cap {"listener"} /\ UNCHANGED <<step, waited>>

\* The temporary file, the store and the listener; each may fail.
OpenAll ==
    /\ Running /\ Op = "open"
    /\ \/ Return("failed")
       \/ held' = {"file", "store", "listener"} /\ step' = step + 1 /\ UNCHANGED <<waited, result>>
    /\ UNCHANGED <<drill, now, revision>>

Healthy ==
    /\ Running /\ Op = "health"
    /\ Proceed
    /\ UNCHANGED <<drill, now, revision>>

\* The script reads the clock, Begun, once the server is healthy.
Elapse ==
    /\ Running /\ waited < Limit(Op)
    /\ now' = IF Op = "health" THEN now ELSE now + 1
    /\ waited' = waited + 1
    /\ UNCHANGED <<drill, step, revision, held, result>>

Call ==
    /\ Running /\ Op \notin {"open", "health", "shutdown"}
    /\ Handled(Op)
    /\ revision' = drill'.revision
    /\ IF AsExpected(Op, drill') THEN Proceed ELSE Return("unexpected")

\* An error status: the request is refused, or the store fails.
ErrorAnswer ==
    /\ Running /\ Op \notin {"open", "health", "shutdown"}
    /\ Return(IF ENABLED Handled(Op) THEN "failed" ELSE "refused")
    /\ UNCHANGED <<drill, now, revision>>

\* The wait is over; what the server still does is not waited for.
TimeOut ==
    /\ Running /\ Op # "open" /\ waited = Limit(Op)
    /\ Return("late")
    /\ UNCHANGED <<drill, now, revision>>

\* Shutdown closes the listener, Serve returns, and the check has passed.
Shutdown ==
    /\ Running /\ Op = "shutdown"
    /\ result' = "passed" /\ held' = {}
    /\ UNCHANGED <<drill, now, step, waited, revision>>

CheckInit ==
    /\ drill = None /\ now = Begun
    /\ step = 1 /\ waited = 0 /\ revision = 0 /\ held = {} /\ result = "running"

CheckNext == OpenAll \/ Healthy \/ Elapse \/ Call \/ ErrorAnswer \/ TimeOut \/ Shutdown

\* The clock runs, and the client gives up when its time is over.  Nothing is
\* assumed of the server.
CheckSpec ==
    /\ CheckInit /\ [][CheckNext]_checkVars
    /\ WF_checkVars(OpenAll) /\ WF_checkVars(Elapse) /\ WF_checkVars(TimeOut)

-----------------------------------------------------------------------------
(* What the self check promises (README.md).                               *)

\* However long each call takes within its limit, the service accepts every
\* request of the script and answers it as the script expects: the retest is
\* still ahead when it is planned, the evidence still valid at the start.
ScriptIsAccepted == result \notin {"refused", "unexpected"}

\* A check that passed went the whole way: a critical finding of a rule,
\* closed by a later retest, an independent approval, and nothing left open.
PassedMeansCertified ==
    result = "passed" =>
        /\ drill.state = "certified" /\ drill.dossier.reviewer # drill.coordinator
        /\ \E f \in DOMAIN drill.findings :
              /\ f.rule \in RuleCodes /\ drill.findings[f].severity = "critical"
              /\ \E o \in drill.observations :
                    o.kind = "retest" /\ o.id = drill.findings[f].retest
        /\ held = {}

\* The check ends by itself, also when the server never answers.
Ends == <>(result # "running")
=============================================================================
