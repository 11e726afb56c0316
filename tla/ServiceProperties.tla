------------------------- MODULE ServiceProperties -------------------------
(* What DrillService promises of the database and of the answers it gives. *)
EXTENDS DrillService

Places == {"idle", "replay", "load", "timeline", "begin", "tx_replay", "tx_drill",
           "tx_facts", "tx_event", "tx_idem", "tx_commit", "reply", "done", "lost"}

TxPlaces == {"tx_replay", "tx_drill", "tx_facts", "tx_event", "tx_idem", "tx_commit"}

Entries(s) == {s[i] : i \in DOMAIN s}

Begins(s, t) == Len(s) <= Len(t) /\ SubSeq(t, 1, Len(s)) = s

\* Type invariant: a transaction belongs to the one call that is inside one.
TypeOK ==
    /\ server \in {"up", "draining", "down"} /\ stops \in 0..MaxStops
    /\ expired \in BOOLEAN
    /\ pc \in [Calls -> Places]
    /\ DOMAIN req = Calls /\ DOMAIN mem = Calls /\ DOMAIN outcome = Calls
    /\ \A c \in Calls : pc[c] # "idle" => req[c] \in Requests
    /\ DOMAIN db.drills \subseteq DrillIds
    /\ DOMAIN db.idem \subseteq RequestIds
    /\ {c \in Calls : pc[c] \in TxPlaces} = IF tx = NoTx THEN {} ELSE {tx.call}

\* The tables say the same of every drill: as many events as the revision, in
\* a chain that verifies, one for each request applied and in that order, and
\* the fact tables hold what the aggregate holds.
TablesAgree ==
    /\ DOMAIN db.events = DOMAIN db.drills /\ DOMAIN db.facts = DOMAIN db.drills
    /\ \A d \in DOMAIN db.drills :
          LET row == db.drills[d] IN
          /\ row.revision = Len(row.log) /\ Len(db.events[d]) = Len(row.log)
          /\ VerifyChain(db.events[d])
          /\ \A i \in DOMAIN row.log : db.events[d][i].content = row.log[i]
          /\ db.facts[d] = Entries(row.log)
          /\ d \in db.dossiers <=> row.dossier # NoHash

\* README.md:5, request_id makes retries idempotent: however often, whenever
\* and through whichever handler a request id arrives, it changes the data at
\* most once, on one drill, and exactly the ids that did are remembered.
AppliedAtMostOnce ==
    /\ \A d, e \in DOMAIN db.drills :
          \A i \in DOMAIN db.drills[d].log, j \in DOMAIN db.drills[e].log :
             db.drills[d].log[i].id = db.drills[e].log[j].id => d = e /\ i = j
    /\ UNION {{r.id : r \in Entries(db.drills[d].log)} : d \in DOMAIN db.drills}
         = DOMAIN db.idem

\* README.md:5, expected_revision prevents concurrent overwrites: the request
\* of the i-th event ever committed on a drill named revision i - 1, the one
\* its author saw.
NothingOverwritten ==
    \A d \in DOMAIN db.events : \A i \in DOMAIN db.events[d] :
       db.events[d][i].content.expected = i - 1

\* A success that was answered, fresh or replayed, is in the database, crashes
\* or not, and the response shows the drill as that very request left it.
SuccessIsDurable ==
    \A c \in Calls :
       outcome[c].kind \in {"ok", "replayed"} =>
          LET shown == outcome[c].response.log IN
          /\ shown[Len(shown)] = req[c]
          /\ \E d \in DOMAIN db.drills : Begins(shown, db.drills[d].log)

\* The dossier's chain head is the event just before the approval's own, though
\* the chain is read after the drill and outside the transaction.
DossierHeadIsExact ==
    \A d \in DOMAIN db.drills :
       LET row == db.drills[d] IN
       row.dossier # NoHash =>
          /\ row.revision > 1
          /\ row.dossier = db.events[d][row.revision - 1].hash

\* Committed rows survive every step, a crash or a shutdown included: chains
\* and stored responses only grow, and a certified drill is final.
KeepsCommitted ==
    /\ \A d \in DOMAIN db.events :
          /\ d \in DOMAIN db'.events
          /\ Begins(db.events[d], db'.events[d])
          /\ db.drills[d].dossier # NoHash => db'.drills[d] = db.drills[d]
    /\ \A i \in DOMAIN db.idem : i \in DOMAIN db'.idem /\ db'.idem[i] = db.idem[i]

CommittedIsForGood == [][KeepsCommitted]_db

-----------------------------------------------------------------------------

\* Every call ends, answered or cut off by the end of the process, although all
\* queries and transactions queue for one connection; and a drain ends.
EveryCallEnds == \A c \in Calls : pc[c] = "replay" ~> pc[c] \in {"done", "lost"}

DrainEnds == server = "draining" ~> server = "down"

-----------------------------------------------------------------------------

\* README.md:5 says request_id makes the retry of every write idempotent.  A
\* call whose request another call has already committed should be answered
\* with that result, never with a revision conflict.
RetryIsReplayed ==
    \A c \in Calls :
       outcome[c].kind = "conflict" /\ req[c].id \in DOMAIN db.idem
         => db.idem[req[c].id].request # req[c]

\* internal/web/assets/app.js:215 reports a replay as the original idempotent
\* response: a replayed answer should be the stored response.
ReplayIsOriginal ==
    \A c \in Calls :
       outcome[c].kind = "replayed" =>
          outcome[c].response = db.idem[req[c].id].response

-----------------------------------------------------------------------------

Log == INSTANCE RevisionedLog WITH
          logs  <- [d \in DOMAIN db.drills |-> db.drills[d].log],
          used  <- DOMAIN db.idem,
          final <- {d \in DOMAIN db.drills : db.drills[d].dossier # NoHash}

\* Handlers, transactions, crashes and retries together implement a log per
\* drill to which each request is appended at most once, at the place it named.
ImplementsLog == Log!Spec
=============================================================================
