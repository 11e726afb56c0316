---------------------------- MODULE DrillService ----------------------------
(***************************************************************************)
(* The service under load: HTTP handlers run in goroutines of their own,   *)
(* each takes a write through replay check, load, revision check and one   *)
(* SQLite transaction, and all share a pool of a single connection         *)
(* (store.Open).  Clients give up, repeat requests and compete; the        *)
(* process is killed, drained and started again.                           *)
(*                                                                         *)
(* What a write does to a drill is DrillWorkflow's subject.  Here the      *)
(* content of a drill is the log of the requests applied to it, a use case *)
(* may refuse a request for reasons of its own, and an event says which    *)
(* request it stands for.                                                  *)
(***************************************************************************)
EXTENDS Naturals, FiniteSets, Sequences, AuditChain

CONSTANTS
    Calls,      \* handler invocations
    Requests,   \* requests clients send, any of them any number of times
    DrillIds,   \* identifiers newID can draw
    None,       \* an absent value
    MaxStops    \* bound: crashes and shutdowns

RequestIds == {r.id : r \in Requests}

RequestType ==
    [id : RequestIds, op : {"create", "register", "write", "approve"},
     drill : DrillIds \cup {None}, expected : Nat, body : Nat]

ASSUME RequestsAssumption ==
    /\ Requests \subseteq RequestType
    /\ \A r \in Requests : IF r.op = "create" THEN r.drill = None /\ r.expected = 0
                           ELSE r.drill \in DrillIds /\ r.expected > 0
ASSUME NoneAssumption == None \notin DrillIds \cup Calls
ASSUME StopsAssumption == MaxStops \in Nat

VARIABLES
    server,     \* "up", "draining" after a signal, or "down"
    stops,      \* stops so far
    expired,    \* has the clock passed the end of the evidence there is?
    db,         \* committed database
    tx,         \* the open transaction: its call and its view of the database
    pc,         \* where each call is
    req,        \* the request each call serves
    mem,        \* the aggregate and response each call has prepared
    outcome     \* what each call answers

vars == <<server, stops, expired, db, tx, pc, req, mem, outcome>>

-----------------------------------------------------------------------------
(* Rows and responses.                                                     *)

Extend(f, k, v) == [x \in DOMAIN f \cup {k} |-> IF x = k THEN v ELSE f[x]]

Registered(d) == \E i \in DOMAIN d.log : d.log[i].op = "register"

\* What viewFor renders of a drill: evidence that is missing or has expired is
\* shown with a reason, which JSON leaves out when it is empty.
ViewFor(d) ==
    [log    |-> d.log,
     valid  |-> Registered(d) /\ ~expired,
     reason |-> IF ~Registered(d) THEN "missing" ELSE IF expired THEN "expired" ELSE None]

\* json.Unmarshal of the stored response into the view this call rendered:
\* a field the stored response leaves out keeps the local value.
MergedInto(stored, local) ==
    [stored EXCEPT !.reason = IF stored.reason = None THEN local.reason ELSE stored.reason]

Answer(kind, response) == [kind |-> kind, response |-> response]

Refusal(kind) == Answer(kind, None)

\* A call that has not answered, a call that has prepared nothing, and the free
\* connection.
Unanswered == Refusal("none")

Unprepared == [drill |-> [id |-> None], response |-> None]

NoTx == [call |-> None, db |-> None]

\* Of the dossier only the chain head it names is kept.  A stored drill has an
\* event, so NoHash stands for a drill without a dossier.
Created(id, r) == [id |-> id, revision |-> 1, log |-> <<r>>, dossier |-> NoHash]

\* advance sets the revision from the request, not from the drill.
Advanced(d, r) == [d EXCEPT !.revision = r.expected + 1, !.log = Append(@, r)]

EmptyDB ==
    [drills |-> << >>, facts |-> << >>, dossiers |-> {}, events |-> << >>, idem |-> << >>]

\* The database after one drill was created by an earlier request.
CreatedDB(id, r) ==
    [drills |-> [d \in {id} |-> Created(id, r)], facts |-> [d \in {id} |-> {r}],
     dossiers |-> {}, events |-> [d \in {id} |-> <<NewEvent(<< >>, r)>>],
     idem |-> [i \in {r.id} |-> [request |-> r, response |->
                 [log |-> <<r>>, valid |-> FALSE, reason |-> "missing"]]]]

-----------------------------------------------------------------------------
(* Calls.                                                                  *)

Running == {c \in Calls : pc[c] \notin {"idle", "done", "lost"}}

InTx(c) == tx.call = c

Goto(c, from, to) == pc[c] = from /\ pc' = [pc EXCEPT ![c] = to]

Finish(c, answer) ==
    /\ pc' = [pc EXCEPT ![c] = "reply"]
    /\ outcome' = [outcome EXCEPT ![c] = answer]

\* A request reaches its handler and passes validateMutation.
Arrive(c, r) ==
    /\ server = "up"
    /\ Goto(c, "idle", "replay")
    /\ req' = [req EXCEPT ![c] = r]
    /\ UNCHANGED <<server, stops, expired, db, tx, mem, outcome>>

\* replay: the stored response if this request was served before; the request
\* id with other content is refused.  A query waits for the connection.
Replay(c) ==
    /\ pc[c] = "replay" /\ tx = NoTx
    /\ IF req[c].id \notin DOMAIN db.idem
       THEN Goto(c, "replay", "load") /\ UNCHANGED outcome
       ELSE LET row == db.idem[req[c].id] IN
            Finish(c, IF row.request = req[c] THEN Answer("replayed", row.response)
                                              ELSE Refusal("invalid"))
    /\ UNCHANGED <<server, stops, expired, db, tx, req, mem>>

\* The use case is done in memory: the aggregate to store and the response.
Prepared(c, d) == mem' = [mem EXCEPT ![c] = [drill |-> d, response |-> ViewFor(d)]]

\* Create: an identifier never drawn before, or a draft that is not valid.
Create(c) ==
    /\ pc[c] = "load" /\ req[c].op = "create"
    /\ \/ Finish(c, Refusal("invalid")) /\ UNCHANGED mem
       \/ \E id \in DrillIds \ DOMAIN db.drills :
             /\ \A o \in Calls : mem[o].drill.id # id
             /\ Prepared(c, Created(id, req[c]))
             /\ Goto(c, "load", "begin")
             /\ UNCHANGED outcome
    /\ UNCHANGED <<server, stops, expired, db, tx, req>>

\* Load, ensureRevision, and the checks of the use case, which may refuse any
\* request and always refuse one on a certified drill.
Load(c) ==
    /\ pc[c] = "load" /\ req[c].op # "create" /\ tx = NoTx
    /\ LET id == req[c].drill
           d  == db.drills[id]
       IN  \/ id \notin DOMAIN db.drills
              /\ Finish(c, Refusal("not_found")) /\ UNCHANGED mem
           \/ id \in DOMAIN db.drills /\ d.revision # req[c].expected
              /\ Finish(c, Refusal("conflict")) /\ UNCHANGED mem
           \/ id \in DOMAIN db.drills /\ d.revision = req[c].expected
              /\ Finish(c, Refusal("invalid")) /\ UNCHANGED mem
           \/ id \in DOMAIN db.drills /\ d.revision = req[c].expected
              /\ d.dossier = NoHash
              /\ Prepared(c, Advanced(d, req[c]))
              /\ Goto(c, "load", IF req[c].op = "approve" THEN "timeline" ELSE "begin")
              /\ UNCHANGED outcome
    /\ UNCHANGED <<server, stops, expired, db, tx, req>>

\* Approval reads the event chain in a query of its own, after the drill, and
\* puts its head in the dossier.
Timeline(c) ==
    /\ pc[c] = "timeline" /\ tx = NoTx
    /\ LET events == db.events[req[c].drill] IN
       IF VerifyChain(events)
       THEN /\ Prepared(c, [mem[c].drill EXCEPT !.dossier = HeadHash(events)])
            /\ Goto(c, "timeline", "begin")
            /\ UNCHANGED outcome
       ELSE Finish(c, Refusal("failed")) /\ UNCHANGED mem
    /\ UNCHANGED <<server, stops, expired, db, tx, req>>

-----------------------------------------------------------------------------
(* The transaction of store.Commit.                                        *)

\* Mutated form of Begin: a pool of more than one connection.
BeginOnOther(c) ==
    /\ Goto(c, "begin", "tx_replay")
    /\ tx' = [call |-> c, db |-> db]
    /\ UNCHANGED <<server, stops, expired, db, req, mem, outcome>>

Begin(c) ==
    /\ tx = NoTx
    /\ Goto(c, "begin", "tx_replay")
    /\ tx' = [call |-> c, db |-> db]
    /\ UNCHANGED <<server, stops, expired, db, req, mem, outcome>>

\* Mutated form of EndTx: the transaction is neither committed nor rolled back.
EndTxLeaking(c, answer) == UNCHANGED tx /\ Finish(c, answer)

\* A step that ends the transaction without a write.
EndTx(c, answer) == tx' = NoTx /\ Finish(c, answer)

\* A statement of the transaction.
Execute(c, from, to, new) ==
    /\ Goto(c, from, to)
    /\ tx' = [tx EXCEPT !.db = new]
    /\ UNCHANGED outcome

\* replayTx: the same request was committed since this call looked.
TxReplay(c) ==
    /\ pc[c] = "tx_replay" /\ InTx(c)
    /\ IF req[c].id \notin DOMAIN tx.db.idem
       THEN Execute(c, "tx_replay", "tx_drill", tx.db)
       ELSE LET row == tx.db.idem[req[c].id] IN
            EndTx(c, IF row.request = req[c]
                     THEN Answer("replayed", MergedInto(row.response, mem[c].response))
                     ELSE Refusal("invalid"))
    /\ UNCHANGED <<server, stops, expired, db, req, mem>>

\* Mutated form of RevisionMatches: the check of the load is trusted.
RevisionTrusted(rows, r) == TRUE

\* INSERT for a new drill, compare-and-set on the revision for an old one.
RevisionMatches(rows, r) == rows[r.drill].revision = r.expected

TxDrill(c) ==
    /\ pc[c] = "tx_drill" /\ InTx(c)
    /\ LET d    == mem[c].drill
           rows == tx.db.drills
           stored == [tx.db EXCEPT !.drills = Extend(rows, d.id, d)]
       IN  IF req[c].op = "create"
           THEN Execute(c, "tx_drill", "tx_facts", stored)
           ELSE IF d.id \notin DOMAIN rows THEN EndTx(c, Refusal("not_found"))
           ELSE IF ~RevisionMatches(rows, req[c]) THEN EndTx(c, Refusal("conflict"))
           ELSE Execute(c, "tx_drill", "tx_facts", stored)
    /\ UNCHANGED <<server, stops, expired, db, req, mem>>

\* syncFacts: rows already there stay, new facts are added; a second dossier of
\* the same drill is an error.
TxFacts(c) ==
    /\ pc[c] = "tx_facts" /\ InTx(c)
    /\ LET d     == mem[c].drill
           old   == IF d.id \in DOMAIN tx.db.facts THEN tx.db.facts[d.id] ELSE {}
           facts == old \cup {d.log[i] : i \in DOMAIN d.log}
       IN  IF d.dossier # NoHash /\ d.id \in tx.db.dossiers
           THEN EndTx(c, Refusal("failed"))
           ELSE Execute(c, "tx_facts", "tx_event",
                  [tx.db EXCEPT !.facts = Extend(@, d.id, facts),
                                !.dossiers = IF d.dossier = NoHash THEN @ ELSE @ \cup {d.id}])
    /\ UNCHANGED <<server, stops, expired, db, req, mem>>

\* appendEvent: number and previous digest come from the last row.
TxEvent(c) ==
    /\ pc[c] = "tx_event" /\ InTx(c)
    /\ LET id     == mem[c].drill.id
           events == IF id \in DOMAIN tx.db.events THEN tx.db.events[id] ELSE << >>
       IN  Execute(c, "tx_event", "tx_idem",
             [tx.db EXCEPT !.events = Extend(@, id, Append(events, NewEvent(events, req[c])))])
    /\ UNCHANGED <<server, stops, expired, db, req, mem>>

\* Mutated form of TxIdem: the row is not stored.
TxIdemForgotten(c) ==
    /\ pc[c] = "tx_idem" /\ InTx(c)
    /\ Execute(c, "tx_idem", "tx_commit", tx.db)
    /\ UNCHANGED <<server, stops, expired, db, req, mem>>

\* The response under its request_id, the table's primary key: a second row of
\* one id is an error.
TxIdem(c) ==
    /\ pc[c] = "tx_idem" /\ InTx(c)
    /\ IF req[c].id \in DOMAIN tx.db.idem THEN EndTx(c, Refusal("failed"))
       ELSE Execute(c, "tx_idem", "tx_commit",
              [tx.db EXCEPT !.idem = Extend(@, req[c].id,
                 [request |-> req[c], response |-> mem[c].response])])
    /\ UNCHANGED <<server, stops, expired, db, req, mem>>

\* Mutated form of TxCommit: the error of a failed commit is dropped.
TxCommitUnchecked(c) ==
    /\ pc[c] = "tx_commit" /\ InTx(c)
    /\ db' \in {db, tx.db}
    /\ EndTx(c, Answer("ok", mem[c].response))
    /\ UNCHANGED <<server, stops, expired, req, mem>>

TxCommit(c) ==
    /\ pc[c] = "tx_commit" /\ InTx(c)
    /\ db' = tx.db
    /\ EndTx(c, Answer("ok", mem[c].response))
    /\ UNCHANGED <<server, stops, expired, req, mem>>

-----------------------------------------------------------------------------
(* What else happens to a call, and to the process.                        *)

\* A statement fails or the client's context is cancelled: the transaction is
\* rolled back and the handler returns an error.
Fail(c) ==
    /\ pc[c] \notin {"idle", "reply", "done", "lost"}
    /\ tx' = IF InTx(c) THEN NoTx ELSE tx
    /\ Finish(c, Refusal("failed"))
    /\ UNCHANGED <<server, stops, expired, db, req, mem>>

\* The response reaches the client, or does not.
Reply(c) == Goto(c, "reply", "done") /\ UNCHANGED <<server, stops, expired, db, tx, req, mem, outcome>>

Drop(c) == Goto(c, "reply", "lost") /\ UNCHANGED <<server, stops, expired, db, tx, req, mem, outcome>>

Expire == ~expired /\ expired' = TRUE /\ UNCHANGED <<server, stops, db, tx, pc, req, mem, outcome>>

\* A signal: the listener closes, running calls may finish.
Signal ==
    /\ server = "up" /\ stops < MaxStops
    /\ server' = "draining" /\ stops' = stops + 1
    /\ UNCHANGED <<expired, db, tx, pc, req, mem, outcome>>

Drained ==
    /\ server = "draining" /\ Running = {}
    /\ server' = "down"
    /\ UNCHANGED <<stops, expired, db, tx, pc, req, mem, outcome>>

\* Running calls die with the process; SQLite rolls the transaction back.
Die ==
    /\ server' = "down"
    /\ tx' = NoTx
    /\ pc' = [c \in Calls |-> IF c \in Running THEN "lost" ELSE pc[c]]
    /\ UNCHANGED <<expired, db, req, mem, outcome>>

Crash == server = "up" /\ stops < MaxStops /\ stops' = stops + 1 /\ Die

\* Shutdown gives running calls eight seconds, then run returns.
DrainTimeout == server = "draining" /\ Running # {} /\ Die /\ UNCHANGED stops

\* store.Open verifies every chain before the service listens.
Open ==
    /\ server = "down"
    /\ \A d \in DOMAIN db.events : VerifyChain(db.events[d])
    /\ server' = "up"
    /\ UNCHANGED <<stops, expired, db, tx, pc, req, mem, outcome>>

Init ==
    /\ server = "up" /\ stops = 0 /\ expired = FALSE
    /\ \/ db = EmptyDB
       \/ \E r \in Requests, id \in DrillIds :
             r.op = "create" /\ db = CreatedDB(id, r)
    /\ tx = NoTx
    /\ pc = [c \in Calls |-> "idle"]
    /\ req = [c \in Calls |-> None]
    /\ mem = [c \in Calls |-> Unprepared]
    /\ outcome = [c \in Calls |-> Unanswered]

\* The steps of a handler the program takes on its own.
Step(c) ==
    \/ Replay(c) \/ Create(c) \/ Load(c) \/ Timeline(c) \/ Begin(c)
    \/ TxReplay(c) \/ TxDrill(c) \/ TxFacts(c) \/ TxEvent(c) \/ TxIdem(c) \/ TxCommit(c)
    \/ Reply(c)

Next ==
    \/ \E c \in Calls :
          \/ \E r \in Requests : Arrive(c, r)
          \/ Step(c) \/ Fail(c) \/ Drop(c)
    \/ Expire \/ Signal \/ Drained \/ Crash \/ DrainTimeout \/ Open

Spec == Init /\ [][Next]_vars

\* The scheduler runs every goroutine whose step stays possible, and Shutdown
\* returns once no call runs.
Fairness == (\A c \in Calls : WF_vars(Step(c))) /\ WF_vars(Drained)

FairSpec == Spec /\ Fairness
=============================================================================
