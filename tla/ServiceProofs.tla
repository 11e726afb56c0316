---------------------------- MODULE ServiceProofs ----------------------------
(* The inductive invariant of DrillService and what follows from it, for   *)
(* any number of calls, requests, drills and stops.                        *)
EXTENDS ServiceProperties, OperatorProofs

DbFields == {"drills", "facts", "dossiers", "events", "idem"}

ResponseFields == {"log", "valid", "reason"}

\* A response shows a drill as the request left it.
Shows(response, r) ==
    /\ DOMAIN response = ResponseFields
    /\ response.log \in Seq(Requests) /\ response.log # << >>
    /\ response.log[Len(response.log)] = r
    /\ \E d \in DOMAIN db.drills : Begins(response.log, db.drills[d].log)

\* The rows have their columns, a stored drill has its first event, a stored
\* response belongs to the request stored with it.
RowsOK ==
    /\ DOMAIN db = DbFields
    /\ \A d \in DOMAIN db.drills :
          /\ DOMAIN db.drills[d] = {"id", "revision", "log", "dossier"}
          /\ db.drills[d].id = d
          /\ db.drills[d].log \in Seq(Requests) /\ db.drills[d].log # << >>
          /\ IsSequence(db.events[d])
    /\ db.dossiers \subseteq DOMAIN db.drills
    /\ \A i \in DOMAIN db.idem : /\ db.idem[i].request \in Requests
                                 /\ db.idem[i].request.id = i
                                 /\ Shows(db.idem[i].response, db.idem[i].request)

\* The places where a call holds the aggregate it is going to store.
Holding == {"timeline", "begin"} \cup TxPlaces

\* An approval reads the chain before it stores the aggregate.
HasDossier(c) == req[c].op = "approve" /\ pc[c] # "timeline"

\* What a call holds continues a log the drill had, and while the drill is still
\* at the revision the request names, what the call read is what is stored.
Holds(c) ==
    LET d == mem[c].drill
        r == req[c]
    IN  /\ DOMAIN d = {"id", "revision", "log", "dossier"} /\ d.id \in DrillIds
        /\ d.log \in Seq(Requests) /\ d.revision = Len(d.log)
        /\ Len(d.log) = r.expected + 1 /\ d.log[Len(d.log)] = r
        /\ DOMAIN mem[c].response = ResponseFields /\ mem[c].response.log = d.log
        /\ d.dossier # NoHash <=> HasDossier(c)
        /\ pc[c] = "timeline" => r.op = "approve"
        /\ r.op = "create" => d.id \notin DOMAIN db.drills
        /\ r.op # "create" =>
              LET row == db.drills[d.id] IN
              /\ d.id = r.drill /\ d.id \in DOMAIN db.drills
              /\ \A i \in 1..r.expected : i \in DOMAIN row.log /\ row.log[i] = d.log[i]
              /\ row.revision = r.expected =>
                    /\ row.dossier = NoHash
                    /\ HasDossier(c) => d.dossier = db.events[d.id][r.expected].hash

\* Each call holds what it should, and two calls hold the same drill only when
\* it is stored: newID draws no identifier twice.
CallsOK ==
    /\ \A c \in Calls : pc[c] \in Holding => Holds(c)
    /\ \A c, o \in Calls :
          c # o /\ mem[c].drill.id = mem[o].drill.id /\ mem[c].drill.id # None =>
             mem[c].drill.id \in DOMAIN db.drills

\* What a call has behind it inside its transaction.
ReplayChecked(c) == pc[c] \in TxPlaces \ {"tx_replay"}

DrillStored(c) == pc[c] \in {"tx_facts", "tx_event", "tx_idem", "tx_commit"}

FactsStored(c) == pc[c] \in {"tx_event", "tx_idem", "tx_commit"}

EventStored(c) == pc[c] \in {"tx_idem", "tx_commit"}

IdemStored(c) == pc[c] = "tx_commit"

\* The chain of the drill a call writes, before that call.
ChainBefore(c) == IF req[c].op = "create" THEN << >> ELSE db.events[mem[c].drill.id]

\* The open transaction sees the database with the writes of its call so far;
\* nothing else has changed since it began.
TxSees(c) ==
    LET d == mem[c].drill
        r == req[c]
    IN  /\ DOMAIN tx = {"call", "db"} /\ DOMAIN tx.db = DbFields
        /\ ReplayChecked(c) => r.id \notin DOMAIN db.idem
        /\ DrillStored(c) /\ r.op # "create" => db.drills[d.id].revision = r.expected
        /\ tx.db.drills = IF DrillStored(c) THEN Extend(db.drills, d.id, d) ELSE db.drills
        /\ tx.db.facts = IF FactsStored(c) THEN Extend(db.facts, d.id, Entries(d.log))
                         ELSE db.facts
        /\ tx.db.dossiers = IF FactsStored(c) /\ d.dossier # NoHash
                            THEN db.dossiers \cup {d.id} ELSE db.dossiers
        /\ tx.db.events = IF EventStored(c)
                          THEN Extend(db.events, d.id,
                                      Append(ChainBefore(c), NewEvent(ChainBefore(c), r)))
                          ELSE db.events
        /\ tx.db.idem = IF IdemStored(c)
                        THEN Extend(db.idem, r.id,
                                    [request |-> r, response |-> mem[c].response])
                        ELSE db.idem

TxOK == tx # NoTx => TxSees(tx.call)

\* An answer of success has a response, and no call answers before it starts.
AnswersOK ==
    \A c \in Calls :
       /\ outcome[c].kind \in {"ok", "replayed"} => Shows(outcome[c].response, req[c])
       /\ pc[c] = "idle" => outcome[c] = Unanswered

\* The inductive invariant of the service.
ServiceInv ==
    /\ TypeOK /\ RowsOK /\ TablesAgree /\ AppliedAtMostOnce /\ NothingOverwritten
    /\ DossierHeadIsExact /\ CallsOK /\ TxOK /\ AnswersOK

\* What is said of the database alone.
DbInv ==
    /\ RowsOK /\ TablesAgree /\ AppliedAtMostOnce /\ NothingOverwritten
    /\ DossierHeadIsExact

\* The requests of the instance.
LEMMA RequestFacts ==
    ASSUME NEW r \in Requests
    PROVE  /\ r.id \in RequestIds /\ r.op \in {"create", "register", "write", "approve"}
           /\ r.expected \in Nat
           /\ r.op = "create" => r.expected = 0
           /\ r.op # "create" => r.drill \in DrillIds /\ r.expected > 0
  BY RequestsAssumption DEF RequestType

\* A beginning of a log is one of the log it grows to.
LEMMA BeginsElements ==
    ASSUME NEW s, NEW t, IsSequence(s), IsSequence(t)
    PROVE  Begins(s, t) <=> /\ Len(s) <= Len(t)
                            /\ \A i \in 1..Len(s) : s[i] = t[i]
<1>1. Len(s) \in Nat /\ Len(t) \in Nat
  BY DEF IsSequence
<1>2. CASE Len(s) <= Len(t)
  <2>1. /\ IsSequence(SubSeq(t, 1, Len(s))) /\ Len(SubSeq(t, 1, Len(s))) = Len(s)
        /\ \A i \in 1..Len(s) : SubSeq(t, 1, Len(s))[i] = t[i]
    BY <1>1, <1>2, Beginning
  <2>2. SubSeq(t, 1, Len(s)) = s <=> \A i \in 1..Len(s) : s[i] = t[i]
    <3>1. ASSUME \A i \in 1..Len(s) : s[i] = t[i] PROVE SubSeq(t, 1, Len(s)) = s
      BY <2>1, <3>1, SameSequence
    <3>2. ASSUME SubSeq(t, 1, Len(s)) = s PROVE \A i \in 1..Len(s) : s[i] = t[i]
      BY <2>1, <3>2
    <3> QED
      BY <3>1, <3>2
  <2> QED
    BY <1>2, <2>2 DEF Begins
<1>3. CASE ~(Len(s) <= Len(t))
  BY <1>3 DEF Begins
<1> QED
  BY <1>2, <1>3

\* The database of a drill created earlier is in order.
LEMMA CreatedInOrder ==
    ASSUME NEW r \in Requests, NEW id \in DrillIds, r.op = "create", db = CreatedDB(id, r)
    PROVE  DbInv
<1> DEFINE e == NewEvent(<< >>, r)
           a == [log |-> <<r>>, valid |-> FALSE, reason |-> "missing"]
<1>1. /\ DOMAIN db = DbFields
      /\ db.drills = [d \in {id} |-> Created(id, r)]
      /\ db.facts = [d \in {id} |-> {r}] /\ db.dossiers = {}
      /\ db.events = [d \in {id} |-> <<e>>]
      /\ db.idem = [i \in {r.id} |-> [request |-> r, response |-> a]]
  BY DEF CreatedDB, DbFields
<1>2. /\ DOMAIN db.drills = {id} /\ DOMAIN db.facts = {id} /\ DOMAIN db.events = {id}
      /\ DOMAIN db.idem = {r.id}
      /\ db.drills[id] = Created(id, r) /\ db.facts[id] = {r} /\ db.events[id] = <<e>>
      /\ db.idem[r.id].request = r /\ db.idem[r.id].response = a
  <2> HIDE DEF e, a
  <2>1. DOMAIN db.drills = {id} /\ db.drills[id] = Created(id, r)
    BY <1>1
  <2>2. DOMAIN db.facts = {id} /\ db.facts[id] = {r}
    BY <1>1
  <2>3. DOMAIN db.events = {id} /\ db.events[id] = <<e>>
    BY <1>1
  <2>4. DOMAIN db.idem = {r.id} /\ db.idem[r.id] = [request |-> r, response |-> a]
    BY <1>1
  <2> QED
    BY <2>1, <2>2, <2>3, <2>4
<1>3. /\ DOMAIN db.drills[id] = {"id", "revision", "log", "dossier"}
      /\ db.drills[id].id = id /\ db.drills[id].revision = 1
      /\ db.drills[id].log = <<r>> /\ db.drills[id].dossier = NoHash
  BY <1>2 DEF Created
<1>4. /\ <<r>> \in Seq(Requests) /\ <<r>> # << >> /\ Len(<<r>>) = 1
      /\ DOMAIN <<r>> = {1} /\ <<r>>[1] = r
  OBVIOUS
<1>5. /\ IsSequence(<< >>) /\ VerifyChain(<< >>) /\ <<e>> = Append(<< >>, e)
  BY DEF IsSequence, VerifyChain
<1>6. /\ IsSequence(<<e>>) /\ VerifyChain(<<e>>) /\ Len(<<e>>) = 1 /\ DOMAIN <<e>> = {1}
      /\ <<e>>[1] = e /\ e.content = r
  <2>1. VerifyChain(Append(<< >>, e))
    BY <1>5, AppendVerifies
  <2>2. e.content = r
    BY DEF NewEvent
  <2> HIDE DEF e
  <2>3. IsSequence(Append(<< >>, e))
    BY <1>5, Appended
  <2>4. Len(<<e>>) = 1 /\ DOMAIN <<e>> = {1} /\ <<e>>[1] = e
    OBVIOUS
  <2> QED
    BY <1>5, <2>1, <2>2, <2>3, <2>4, Zenon
<1>7. a.log = <<r>> /\ DOMAIN a = ResponseFields
  BY DEF ResponseFields
<1> HIDE DEF e, a
<1>8. Begins(<<r>>, <<r>>)
  <2>1. IsSequence(<<r>>)
    BY <1>4, SeqIsSequence
  <2> QED
    BY <1>4, <2>1, BeginsElements
<1>9. RowsOK
  <2>1. Shows(a, r)
    BY <1>2, <1>3, <1>4, <1>7, <1>8 DEF Shows
  <2>2. IsSequence(db.events[id])
    BY <1>2, <1>6
  <2>3. DOMAIN db = DbFields /\ db.dossiers \subseteq DOMAIN db.drills
    BY <1>1
  <2>4. /\ DOMAIN db.drills[id] = {"id", "revision", "log", "dossier"}
        /\ db.drills[id].id = id
        /\ db.drills[id].log \in Seq(Requests) /\ db.drills[id].log # << >>
    BY <1>3, <1>4
  <2>5. \A i \in DOMAIN db.idem : /\ db.idem[i].request \in Requests
                                  /\ db.idem[i].request.id = i
                                  /\ Shows(db.idem[i].response, db.idem[i].request)
    BY <1>2, <2>1
  <2>6. \A d \in DOMAIN db.drills : d = id
    BY <1>2
  <2> QED
    BY <2>2, <2>3, <2>4, <2>5, <2>6, Zenon DEF RowsOK
<1>10. TablesAgree
  <2>1. \A d \in DOMAIN db.drills : d = id
    BY <1>2
  <2>2. DOMAIN db.events = DOMAIN db.drills /\ DOMAIN db.facts = DOMAIN db.drills
    BY <1>2
  <2>3. /\ db.drills[id].revision = Len(db.drills[id].log)
        /\ Len(db.events[id]) = Len(db.drills[id].log)
    BY <1>2, <1>3, <1>4, <1>6
  <2>4. \A i \in DOMAIN db.drills[id].log : db.events[id][i].content = db.drills[id].log[i]
    BY <1>2, <1>3, <1>4, <1>6
  <2>5. VerifyChain(db.events[id])
    BY <1>2, <1>6
  <2>6. db.facts[id] = Entries(db.drills[id].log)
    BY <1>2, <1>3, <1>4 DEF Entries
  <2>7. id \in db.dossiers <=> db.drills[id].dossier # NoHash
    BY <1>1, <1>3
  <2> QED
    BY <2>1, <2>2, <2>3, <2>4, <2>5, <2>6, <2>7, Zenon DEF TablesAgree
<1>11. AppliedAtMostOnce
  BY <1>2, <1>3, <1>4 DEF AppliedAtMostOnce, Entries
<1>12. NothingOverwritten
  BY <1>2, <1>6, RequestFacts DEF NothingOverwritten
<1>13. DossierHeadIsExact
  BY <1>2, <1>3 DEF DossierHeadIsExact
<1> QED
  BY <1>9, <1>10, <1>11, <1>12, <1>13 DEF DbInv

\* An empty database is in order.
LEMMA EmptyInOrder ==
    ASSUME db = EmptyDB
    PROVE  DbInv
<1>1. /\ DOMAIN db = DbFields /\ DOMAIN db.drills = {} /\ DOMAIN db.facts = {}
      /\ db.dossiers = {} /\ DOMAIN db.events = {} /\ DOMAIN db.idem = {}
  BY DEF EmptyDB, DbFields
<1> QED
  BY <1>1 DEF DbInv, RowsOK, TablesAgree, AppliedAtMostOnce, NothingOverwritten,
              DossierHeadIsExact

\* Before the first request everything is in order.
LEMMA InitInv == Init => ServiceInv
<1> SUFFICES ASSUME Init PROVE ServiceInv
  OBVIOUS
<1>1. DbInv /\ DOMAIN db.drills \subseteq DrillIds /\ DOMAIN db.idem \subseteq RequestIds
  <2>1. CASE db = EmptyDB
    <3>1. DOMAIN db.drills = {} /\ DOMAIN db.idem = {}
      BY <2>1 DEF EmptyDB
    <3> QED
      BY <2>1, <3>1, EmptyInOrder
  <2>2. ASSUME NEW r \in Requests, NEW id \in DrillIds, r.op = "create", db = CreatedDB(id, r)
        PROVE  /\ DbInv /\ DOMAIN db.drills \subseteq DrillIds
               /\ DOMAIN db.idem \subseteq RequestIds
    <3>1. DOMAIN db.drills = {id} /\ DOMAIN db.idem = {r.id}
      BY <2>2 DEF CreatedDB
    <3> QED
      BY <2>2, <3>1, CreatedInOrder, RequestFacts
  <2> QED
    BY <2>1, <2>2 DEF Init
<1>2. TypeOK
  <2>1. \A c \in Calls : pc[c] = "idle"
    BY DEF Init
  <2>2. {c \in Calls : pc[c] \in TxPlaces} = {}
    BY <2>1 DEF TxPlaces
  <2>3. pc \in [Calls -> Places]
    BY DEF Init, Places
  <2>4. DOMAIN req = Calls /\ DOMAIN mem = Calls /\ DOMAIN outcome = Calls
    BY DEF Init
  <2>5. {c \in Calls : pc[c] \in TxPlaces} = IF tx = NoTx THEN {} ELSE {tx.call}
    BY <2>2 DEF Init
  <2>6. server \in {"up", "draining", "down"} /\ stops \in 0..MaxStops /\ expired \in BOOLEAN
    <3>1. server = "up" /\ stops = 0
      BY DEF Init
    <3>2. expired = FALSE
      BY Zenon DEF Init
    <3>3. stops \in 0..MaxStops
      BY <3>1, StopsAssumption
    <3> QED
      BY <3>1, <3>2, <3>3, Zenon
  <2>7. \A c \in Calls : pc[c] # "idle" => req[c] \in Requests
    BY <2>1
  <2> QED
    BY <1>1, <2>3, <2>4, <2>5, <2>6, <2>7 DEF TypeOK
<1>3. CallsOK
  <2>1. \A c \in Calls : pc[c] \notin Holding /\ mem[c].drill.id = None
    BY DEF Init, Holding, TxPlaces, Unprepared
  <2> QED
    BY <2>1 DEF CallsOK
<1>4. TxOK /\ AnswersOK
  <2>1. \A c \in Calls : outcome[c] = Unanswered /\ outcome[c].kind = "none"
    BY DEF Init, Unanswered, Refusal, Answer
  <2> QED
    BY <2>1 DEF Init, TxOK, AnswersOK
<1> QED
  BY <1>1, <1>2, <1>3, <1>4 DEF ServiceInv, DbInv

-----------------------------------------------------------------------------
(* Steps that leave the database alone.                                    *)

\* Only the call c moves.
OnlyCall(c) ==
    /\ pc' \in [Calls -> Places]
    /\ DOMAIN req' = Calls /\ DOMAIN mem' = Calls /\ DOMAIN outcome' = Calls
    /\ \A o \in Calls \ {c} : /\ pc'[o] = pc[o] /\ req'[o] = req[o]
                              /\ mem'[o] = mem[o] /\ outcome'[o] = outcome[o]

\* What is said of the database goes on while it is the same.
LEMMA DbKept ==
    ASSUME db' = db, DbInv
    PROVE  DbInv'
<1>1. RowsOK'
  BY DEF DbInv, RowsOK, Shows
<1>2. TablesAgree'
  BY DEF DbInv, TablesAgree
<1>3. AppliedAtMostOnce'
  BY DEF DbInv, AppliedAtMostOnce
<1>4. NothingOverwritten' /\ DossierHeadIsExact'
  BY DEF DbInv, NothingOverwritten, DossierHeadIsExact
<1> QED
  BY <1>1, <1>2, <1>3, <1>4 DEF DbInv

\* So does what is said of a call that stays where it is.
LEMMA HoldsKept ==
    ASSUME NEW o \in Calls, db' = db, req'[o] = req[o], mem'[o] = mem[o],
           pc'[o] = "timeline" <=> pc[o] = "timeline", Holds(o)
    PROVE  Holds(o)'
  BY DEF Holds, HasDossier

\* The calls after a step of one of them.
LEMMA CallsStep ==
    ASSUME NEW c \in Calls, CallsOK, db' = db, OnlyCall(c),
           pc'[c] \in Holding => Holds(c)',
           \/ mem'[c].drill.id = mem[c].drill.id
           \/ mem'[c].drill.id \in DOMAIN db.drills
           \/ \A o \in Calls : mem[o].drill.id # mem'[c].drill.id
    PROVE  CallsOK'
<1>1. ASSUME NEW o \in Calls, pc'[o] \in Holding PROVE Holds(o)'
  <2>1. CASE o = c
    BY <1>1, <2>1
  <2>2. CASE o # c
    BY <1>1, <2>2, HoldsKept DEF CallsOK, OnlyCall
  <2> QED
    BY <2>1, <2>2
<1>2. ASSUME NEW a \in Calls, NEW o \in Calls, a # o,
             mem'[a].drill.id = mem'[o].drill.id, mem'[a].drill.id # None
      PROVE  mem'[a].drill.id \in DOMAIN db'.drills
  <2>1. CASE a # c /\ o # c
    BY <1>2, <2>1 DEF CallsOK, OnlyCall
  <2>2. CASE a = c
    BY <1>2, <2>2 DEF CallsOK, OnlyCall
  <2>3. CASE o = c
    BY <1>2, <2>3 DEF CallsOK, OnlyCall
  <2> QED
    BY <2>1, <2>2, <2>3
<1>3. /\ \A o \in Calls : pc'[o] \in Holding => Holds(o)'
      /\ \A a, o \in Calls :
            a # o /\ mem'[a].drill.id = mem'[o].drill.id /\ mem'[a].drill.id # None =>
               mem'[a].drill.id \in DOMAIN db'.drills
  BY <1>1, <1>2
<1> QED
  BY <1>3 DEF CallsOK

\* The answers after a step of one call.
LEMMA AnswersStep ==
    ASSUME NEW c \in Calls, AnswersOK, db' = db, OnlyCall(c),
           pc'[c] # "idle",
           outcome'[c].kind \in {"ok", "replayed"} => Shows(outcome'[c].response, req'[c])
    PROVE  AnswersOK'
<1>1. ASSUME NEW o \in Calls, outcome'[o].kind \in {"ok", "replayed"}
      PROVE  Shows(outcome[o].response, req[o])'
  <2>1. Shows(outcome'[o].response, req'[o])
    BY <1>1 DEF AnswersOK, OnlyCall
  <2> QED
    BY <2>1 DEF Shows
<1>2. ASSUME NEW o \in Calls, pc'[o] = "idle" PROVE outcome'[o] = Unanswered
  BY <1>2 DEF AnswersOK, OnlyCall
<1> QED
  BY <1>1, <1>2 DEF AnswersOK

\* The open transaction belongs to the one call that is inside one.
LEMMA TxOwner ==
    ASSUME TypeOK
    PROVE  /\ \A c \in Calls : pc[c] \in TxPlaces <=> tx # NoTx /\ tx.call = c
           /\ tx # NoTx => tx.call \in Calls
           /\ \A c \in Calls : InTx(c) <=> pc[c] \in TxPlaces
<1> DEFINE In == {c \in Calls : pc[c] \in TxPlaces}
<1>1. In = IF tx = NoTx THEN {} ELSE {tx.call}
  BY DEF TypeOK
<1>2. \A c \in Calls : NoTx.call # c
  BY NoneAssumption DEF NoTx
<1> QED
  BY <1>1, <1>2 DEF InTx

\* A step of one call outside a transaction.
LEMMA OutsideStep ==
    ASSUME NEW c \in Calls, ServiceInv, OnlyCall(c),
           UNCHANGED <<server, stops, db, tx>>, expired' = expired,
           pc[c] \notin TxPlaces, pc'[c] \notin TxPlaces, req'[c] \in Requests,
           pc'[c] \in Holding => Holds(c)',
           \/ mem'[c].drill.id = mem[c].drill.id
           \/ mem'[c].drill.id \in DOMAIN db.drills
           \/ \A o \in Calls : mem[o].drill.id # mem'[c].drill.id,
           pc'[c] # "idle",
           outcome'[c].kind \in {"ok", "replayed"} => Shows(outcome'[c].response, req'[c])
    PROVE  ServiceInv'
<1>1. DbInv'
  BY DbKept DEF ServiceInv, DbInv
<1>2. CallsOK'
  BY CallsStep DEF ServiceInv
<1>3. AnswersOK'
  BY AnswersStep DEF ServiceInv
<1>4. TypeOK'
  <2>1. \A o \in Calls : pc'[o] \in TxPlaces <=> pc[o] \in TxPlaces
    BY DEF OnlyCall
  <2>2. {o \in Calls : pc'[o] \in TxPlaces} = IF tx' = NoTx THEN {} ELSE {tx'.call}
    BY <2>1 DEF ServiceInv, TypeOK
  <2>3. expired' \in BOOLEAN
    BY Zenon DEF ServiceInv, TypeOK
  <2>4. \A o \in Calls : pc'[o] # "idle" => req'[o] \in Requests
    BY DEF OnlyCall, ServiceInv, TypeOK
  <2> QED
    BY <2>2, <2>3, <2>4 DEF OnlyCall, ServiceInv, TypeOK
<1>5. TxOK'
  <2>1. tx # NoTx => tx.call \in Calls \ {c}
    BY TxOwner DEF ServiceInv
  <2>2. CASE tx = NoTx
    BY <2>2 DEF TxOK
  <2>3. CASE tx # NoTx
    <3>1. /\ pc'[tx.call] = pc[tx.call] /\ req'[tx.call] = req[tx.call]
          /\ mem'[tx.call] = mem[tx.call]
      BY <2>1, <2>3 DEF OnlyCall
    <3> QED
      BY <2>3, <3>1 DEF ServiceInv, TxOK, TxSees, ReplayChecked, DrillStored, FactsStored,
                        EventStored, IdemStored, ChainBefore
  <2> QED
    BY <2>2, <2>3
<1> QED
  BY <1>1, <1>2, <1>3, <1>4, <1>5 DEF ServiceInv, DbInv

-----------------------------------------------------------------------------
(* One lemma per step of a call outside its transaction.                   *)

\* A call that answers and does no more, with a refusal or with what is stored.
LEMMA AnswerStep ==
    ASSUME NEW c \in Calls, NEW answer, ServiceInv, Finish(c, answer),
           pc[c] \notin TxPlaces, pc[c] # "idle",
           UNCHANGED <<server, stops, expired, db, tx, req, mem>>,
           answer.kind \in {"ok", "replayed"} => Shows(answer.response, req[c])
    PROVE  ServiceInv'
<1>1. OnlyCall(c) /\ pc'[c] = "reply" /\ outcome'[c] = answer
  BY DEF OnlyCall, Finish, ServiceInv, TypeOK, Places
<1>2. req'[c] \in Requests /\ mem'[c] = mem[c] /\ req'[c] = req[c]
  BY DEF ServiceInv, TypeOK
<1>3. pc'[c] \notin TxPlaces /\ pc'[c] \notin Holding /\ pc'[c] # "idle"
  BY <1>1 DEF TxPlaces, Holding
<1> QED
  BY <1>1, <1>2, <1>3, OutsideStep

\* A refusal is no success.
LEMMA RefusalIsNoSuccess ==
    \A kind : kind \in {"invalid", "not_found", "conflict", "failed", "none"} =>
       Refusal(kind).kind \notin {"ok", "replayed"}
  BY DEF Refusal, Answer

LEMMA ArriveInv ==
    ASSUME NEW c \in Calls, NEW r \in Requests, ServiceInv, Arrive(c, r)
    PROVE  ServiceInv'
<1>1. /\ OnlyCall(c) /\ pc[c] = "idle" /\ pc'[c] = "replay" /\ req'[c] = r
      /\ mem'[c] = mem[c]
  BY DEF Arrive, Goto, OnlyCall, ServiceInv, TypeOK, Places
<1>2. /\ pc[c] \notin TxPlaces /\ pc'[c] \notin TxPlaces /\ pc'[c] \notin Holding
      /\ pc'[c] # "idle"
  BY <1>1 DEF TxPlaces, Holding
<1>3. outcome'[c] = outcome[c] /\ outcome[c].kind \notin {"ok", "replayed"}
  BY <1>1, RefusalIsNoSuccess DEF Arrive, ServiceInv, AnswersOK, Unanswered
<1> QED
  BY <1>1, <1>2, <1>3, OutsideStep DEF Arrive

LEMMA ReplayInv ==
    ASSUME NEW c \in Calls, ServiceInv, Replay(c)
    PROVE  ServiceInv'
<1>1. pc[c] = "replay" /\ pc[c] \notin TxPlaces /\ pc[c] # "idle"
  BY DEF Replay, TxPlaces
<1>2. CASE req[c].id \notin DOMAIN db.idem
  <2>1. OnlyCall(c) /\ pc'[c] = "load" /\ mem'[c] = mem[c] /\ req'[c] = req[c]
        /\ outcome'[c] = outcome[c]
    BY <1>2 DEF Replay, Goto, OnlyCall, ServiceInv, TypeOK, Places
  <2>2. pc'[c] \notin TxPlaces /\ pc'[c] \notin Holding /\ pc'[c] # "idle"
    BY <2>1 DEF TxPlaces, Holding
  <2>3. req[c] \in Requests
    BY <1>1 DEF ServiceInv, TypeOK
  <2>4. outcome[c].kind \in {"ok", "replayed"} => Shows(outcome[c].response, req[c])
    BY DEF ServiceInv, AnswersOK
  <2> QED
    BY <1>1, <2>1, <2>2, <2>3, <2>4, OutsideStep DEF Replay
<1>3. CASE req[c].id \in DOMAIN db.idem
  <2> DEFINE row == db.idem[req[c].id]
  <2>1. CASE row.request = req[c]
    <3>1. Shows(row.response, req[c])
      BY <1>3, <2>1 DEF ServiceInv, RowsOK
    <3>2. Finish(c, Answer("replayed", row.response))
      BY <1>3, <2>1 DEF Replay
    <3>3. Answer("replayed", row.response).response = row.response
      BY DEF Answer
    <3> HIDE DEF row
    <3> QED
      BY <1>1, <3>1, <3>2, <3>3, AnswerStep DEF Replay
  <2>2. CASE row.request # req[c]
    <3>1. Finish(c, Refusal("invalid"))
      BY <1>3, <2>2 DEF Replay
    <3> QED
      BY <1>1, <3>1, RefusalIsNoSuccess, AnswerStep DEF Replay
  <2> QED
    BY <2>1, <2>2
<1> QED
  BY <1>2, <1>3

\* A call that leaves "load" or "timeline" with an aggregate and a response.
LEMMA PreparedStep ==
    ASSUME NEW c \in Calls, NEW d, NEW to \in {"timeline", "begin"}, ServiceInv,
           pc[c] \in {"load", "timeline"}, pc' = [pc EXCEPT ![c] = to], Prepared(c, d),
           UNCHANGED <<server, stops, expired, db, tx, req, outcome>>,
           Holds(c)',
           \/ d.id = mem[c].drill.id \/ d.id \in DOMAIN db.drills
           \/ \A o \in Calls : mem[o].drill.id # d.id
    PROVE  ServiceInv'
<1>1. /\ OnlyCall(c) /\ pc'[c] = to /\ mem'[c].drill = d
  BY DEF OnlyCall, Prepared, ServiceInv, TypeOK, Places
<1>2. /\ pc[c] \notin TxPlaces /\ pc'[c] \notin TxPlaces /\ pc'[c] # "idle"
      /\ pc[c] # "idle"
  BY <1>1 DEF TxPlaces
<1>3. req'[c] \in Requests /\ req'[c] = req[c] /\ outcome'[c] = outcome[c]
  BY <1>2 DEF ServiceInv, TypeOK
<1>4. outcome[c].kind \in {"ok", "replayed"} => Shows(outcome[c].response, req[c])
  BY DEF ServiceInv, AnswersOK
<1>5. \/ mem'[c].drill.id = mem[c].drill.id
      \/ mem'[c].drill.id \in DOMAIN db.drills
      \/ \A o \in Calls : mem[o].drill.id # mem'[c].drill.id
  BY <1>1
<1> QED
  BY <1>1, <1>2, <1>3, <1>4, <1>5, OutsideStep

\* What a response shows is the log of the drill.
LEMMA ViewFields ==
    ASSUME NEW d
    PROVE  DOMAIN ViewFor(d) = ResponseFields /\ ViewFor(d).log = d.log
  BY DEF ViewFor, ResponseFields

LEMMA CreateInv ==
    ASSUME NEW c \in Calls, ServiceInv, Create(c)
    PROVE  ServiceInv'
<1>1. /\ pc[c] = "load" /\ pc[c] \notin TxPlaces /\ pc[c] # "idle"
      /\ req[c].op = "create"
  BY DEF Create, TxPlaces
<1>2. CASE Finish(c, Refusal("invalid")) /\ UNCHANGED mem
  BY <1>1, <1>2, RefusalIsNoSuccess, AnswerStep DEF Create
<1>3. ASSUME NEW id \in DrillIds \ DOMAIN db.drills,
             \A o \in Calls : mem[o].drill.id # id, Prepared(c, Created(id, req[c])),
             Goto(c, "load", "begin"), UNCHANGED outcome
      PROVE  ServiceInv'
  <2> DEFINE d == Created(id, req[c])
             r == req[c]
  <2>1. r \in Requests /\ r.expected = 0
    BY <1>1, RequestFacts DEF ServiceInv, TypeOK
  <2>2. /\ DOMAIN d = {"id", "revision", "log", "dossier"} /\ d.id = id
        /\ d.log = <<r>> /\ d.revision = 1 /\ d.dossier = NoHash
    BY DEF Created
  <2>3. <<r>> \in Seq(Requests) /\ Len(<<r>>) = 1 /\ <<r>>[1] = r
    BY <2>1
  <2>4. /\ mem'[c].drill = d /\ mem'[c].response = ViewFor(d) /\ req'[c] = r
        /\ pc'[c] = "begin" /\ db' = db
    BY <1>3 DEF Prepared, Goto, Create, ServiceInv, TypeOK
  <2>5. r.op = "create"
    BY <1>1
  <2> HIDE DEF d, r
  <2>6. /\ DOMAIN mem'[c].response = ResponseFields
        /\ mem'[c].response.log = mem'[c].drill.log
    BY <2>4, ViewFields
  <2>7. ~HasDossier(c)'
    BY <2>4, <2>5 DEF HasDossier
  <2>8. Holds(c)'
    <3>1. d.log \in Seq(Requests) /\ Len(d.log) = 1 /\ d.log[Len(d.log)] = r
      BY <2>2, <2>3
    <3>2. d.id \in DrillIds /\ d.id \notin DOMAIN db'.drills
      BY <2>2, <2>4
    <3>3. d.revision = Len(d.log) /\ Len(d.log) = r.expected + 1
      BY <2>1, <2>2, <3>1
    <3>4. d.dossier # NoHash <=> HasDossier(c)'
      BY <2>2, <2>7
    <3>5. pc'[c] # "timeline"
      BY <2>4
    <3> QED
      BY <2>2, <2>4, <2>5, <2>6, <3>1, <3>2, <3>3, <3>4, <3>5 DEF Holds
  <2>9. \A o \in Calls : mem[o].drill.id # d.id
    BY <1>3, <2>2
  <2> QED
    BY <1>1, <1>3, <2>8, <2>9, PreparedStep DEF d, r, Goto, Create
<1> QED
  BY <1>2, <1>3 DEF Create

LEMMA LoadInv ==
    ASSUME NEW c \in Calls, ServiceInv, Load(c)
    PROVE  ServiceInv'
<1> DEFINE r   == req[c]
           id  == r.drill
           row == db.drills[id]
           d   == Advanced(row, r)
           to  == IF r.op = "approve" THEN "timeline" ELSE "begin"
<1>1. /\ pc[c] = "load" /\ pc[c] \notin TxPlaces /\ pc[c] # "idle" /\ r.op # "create"
  BY DEF Load, TxPlaces
<1>2. ASSUME NEW kind \in {"not_found", "conflict", "invalid"},
             Finish(c, Refusal(kind)), UNCHANGED mem
      PROVE  ServiceInv'
  BY <1>1, <1>2, RefusalIsNoSuccess, AnswerStep DEF Load
<1>3. ASSUME id \in DOMAIN db.drills, row.revision = r.expected, row.dossier = NoHash,
             Prepared(c, d), Goto(c, "load", to), UNCHANGED outcome
      PROVE  ServiceInv'
  <2>1. r \in Requests /\ r.expected \in Nat /\ id \in DrillIds
    BY <1>1, RequestFacts DEF ServiceInv, TypeOK
  <2>2. /\ DOMAIN row = {"id", "revision", "log", "dossier"} /\ row.id = id
        /\ row.log \in Seq(Requests) /\ Len(row.log) = r.expected
    BY <1>3 DEF ServiceInv, RowsOK, TablesAgree
  <2>3. /\ DOMAIN d = {"id", "revision", "log", "dossier"} /\ d.id = id
        /\ d.revision = r.expected + 1 /\ d.log = Append(row.log, r)
        /\ d.dossier = NoHash
    BY <1>3, <2>2 DEF Advanced
  <2>4. /\ d.log \in Seq(Requests) /\ Len(d.log) = r.expected + 1
        /\ d.log[r.expected + 1] = r
        /\ \A i \in 1..r.expected : i \in DOMAIN row.log /\ row.log[i] = d.log[i]
    <3> HIDE DEF r, row, d
    <3> QED
      BY <2>1, <2>2, <2>3
  <2>5. /\ mem'[c].drill = d /\ mem'[c].response = ViewFor(d) /\ req'[c] = r
        /\ pc'[c] = to /\ db' = db
    BY <1>3 DEF Prepared, Goto, Load, ServiceInv, TypeOK
  <2>6. row = db'.drills[id] /\ id \in DOMAIN db'.drills
    BY <1>3, <2>5
  <2>7. /\ DOMAIN mem'[c].response = ResponseFields
        /\ mem'[c].response.log = mem'[c].drill.log
    BY <2>5, ViewFields
  <2>8. ~HasDossier(c)' /\ (pc'[c] = "timeline" => r.op = "approve")
    BY <2>5 DEF HasDossier
  <2>9. id = r.drill /\ r.op # "create" /\ row.dossier = NoHash
    BY <1>1, <1>3
  <2>10. to \in {"timeline", "begin"}
    OBVIOUS
  <2>11. pc' = [pc EXCEPT ![c] = to]
    BY <1>3 DEF Goto
  <2> HIDE DEF d, row, id, r, to
  <2>12. Holds(c)'
    BY <2>1, <2>3, <2>4, <2>5, <2>6, <2>7, <2>8, <2>9 DEF Holds
  <2>13. d.id \in DOMAIN db.drills
    BY <1>3, <2>3
  <2> QED
    BY <1>1, <1>3, <2>10, <2>11, <2>12, <2>13, PreparedStep DEF Load
<1> QED
  BY <1>1, <1>2, <1>3 DEF Load

LEMMA TimelineInv ==
    ASSUME NEW c \in Calls, ServiceInv, Timeline(c)
    PROVE  ServiceInv'
<1> DEFINE r   == req[c]
           old == mem[c].drill
           events == db.events[r.drill]
           row == db.drills[r.drill]
           d   == [old EXCEPT !.dossier = HeadHash(events)]
<1>1. /\ pc[c] = "timeline" /\ pc[c] \notin TxPlaces /\ pc[c] # "idle"
      /\ pc[c] \in Holding
  BY DEF Timeline, TxPlaces, Holding
<1>2. CASE ~VerifyChain(events)
  <2>1. Finish(c, Refusal("failed")) /\ UNCHANGED mem
    BY <1>2 DEF Timeline
  <2> QED
    BY <1>1, <2>1, RefusalIsNoSuccess, AnswerStep DEF Timeline
<1>3. CASE VerifyChain(events)
  <2>1. r \in Requests /\ Holds(c) /\ r.op = "approve" /\ ~HasDossier(c)
    BY <1>1 DEF ServiceInv, TypeOK, CallsOK, Holds, HasDossier
  <2>2. r.expected \in Nat /\ r.expected > 0 /\ r.op # "create"
    BY <2>1, RequestFacts
  <2>3. /\ DOMAIN old = {"id", "revision", "log", "dossier"} /\ old.id = r.drill
        /\ old.id \in DrillIds /\ old.id \in DOMAIN db.drills
        /\ old.log \in Seq(Requests) /\ old.revision = Len(old.log)
        /\ Len(old.log) = r.expected + 1 /\ old.log[Len(old.log)] = r
        /\ \A i \in 1..r.expected : i \in DOMAIN row.log /\ row.log[i] = old.log[i]
        /\ row.revision = r.expected => row.dossier = NoHash
        /\ DOMAIN mem[c].response = ResponseFields /\ mem[c].response.log = old.log
    BY <2>1, <2>2 DEF Holds
  <2>4. /\ DOMAIN d = {"id", "revision", "log", "dossier"} /\ d.id = old.id
        /\ d.revision = old.revision /\ d.log = old.log /\ d.dossier = HeadHash(events)
    BY <2>3
  <2>5. IsSequence(events) /\ Len(events) = row.revision /\ events # << >>
    <3>1. row.log \in Seq(Requests) /\ row.log # << >> /\ row.revision = Len(row.log)
      BY <2>3 DEF ServiceInv, RowsOK, TablesAgree
    <3>2. Len(events) = Len(row.log) /\ IsSequence(events)
      BY <2>3 DEF ServiceInv, RowsOK, TablesAgree
    <3> HIDE DEF events, row
    <3> QED
      BY <3>1, <3>2
  <2>6. Len(events) \in DOMAIN events
    <3> HIDE DEF events
    <3> QED
      BY <2>5 DEF IsSequence
  <2>7. HeadHash(events) # NoHash /\ HeadHash(events) = events[row.revision].hash
    BY <1>3, <2>5, <2>6, DigestIsSome DEF HeadHash, VerifyChain
  <2>8. /\ mem'[c].drill = d /\ mem'[c].response = ViewFor(d) /\ req'[c] = r
        /\ pc'[c] = "begin" /\ db' = db /\ pc' = [pc EXCEPT ![c] = "begin"]
    BY <1>3 DEF Timeline, Prepared, Goto, ServiceInv, TypeOK
  <2>9. /\ DOMAIN mem'[c].response = ResponseFields
        /\ mem'[c].response.log = mem'[c].drill.log
    BY <2>8, ViewFields
  <2>10. row = db'.drills[r.drill] /\ events = db'.events[r.drill]
    BY <2>8
  <2>11. Prepared(c, d) /\ UNCHANGED outcome
    BY <1>3 DEF Timeline
  <2> HIDE DEF d, row, events, r, old
  <2>12. d.dossier # NoHash <=> HasDossier(c)'
    BY <2>1, <2>4, <2>7, <2>8 DEF HasDossier
  <2>13. pc'[c] # "timeline"
    BY <2>8
  <2>14. row.revision = r.expected =>
            /\ row.dossier = NoHash
            /\ d.dossier = events[r.expected].hash
    BY <2>3, <2>4, <2>7
  <2>15. Holds(c)'
    BY <2>2, <2>3, <2>4, <2>8, <2>9, <2>10, <2>12, <2>13, <2>14 DEF Holds
  <2>16. d.id = mem[c].drill.id
    BY <2>4 DEF old
  <2> QED
    BY <1>1, <2>8, <2>11, <2>15, <2>16, PreparedStep DEF Timeline
<1> QED
  BY <1>2, <1>3

LEMMA LeaveInv ==
    ASSUME NEW c \in Calls, ServiceInv, Reply(c) \/ Drop(c)
    PROVE  ServiceInv'
<1>1. /\ OnlyCall(c) /\ pc[c] = "reply" /\ pc'[c] \in {"done", "lost"}
      /\ req'[c] = req[c] /\ mem'[c] = mem[c] /\ outcome'[c] = outcome[c]
  BY DEF Reply, Drop, Goto, OnlyCall, ServiceInv, TypeOK, Places
<1>2. /\ pc[c] \notin TxPlaces /\ pc'[c] \notin TxPlaces /\ pc'[c] \notin Holding
      /\ pc'[c] # "idle"
  BY <1>1 DEF TxPlaces, Holding
<1>3. req[c] \in Requests
  BY <1>1 DEF ServiceInv, TypeOK
<1>4. outcome[c].kind \in {"ok", "replayed"} => Shows(outcome[c].response, req[c])
  BY DEF ServiceInv, AnswersOK
<1> QED
  BY <1>1, <1>2, <1>3, <1>4, OutsideStep DEF Reply, Drop

-----------------------------------------------------------------------------
(* Steps of a transaction before its end.                                  *)

\* A step of one call into or inside a transaction that leaves the database,
\* the answers and what calls hold alone.
LEMMA InsideStep ==
    ASSUME NEW c \in Calls, NEW to \in TxPlaces, ServiceInv,
           pc[c] \in Holding \ {"timeline"}, pc' = [pc EXCEPT ![c] = to],
           UNCHANGED <<server, stops, expired, db, req, mem, outcome>>,
           tx = NoTx \/ tx.call = c, tx' # NoTx, tx'.call = c, TxOK'
    PROVE  ServiceInv'
<1>1. OnlyCall(c) /\ pc'[c] = to
  BY DEF OnlyCall, ServiceInv, TypeOK, Places, TxPlaces
<1>2. /\ pc'[c] # "timeline" /\ pc[c] # "timeline" /\ pc'[c] # "idle" /\ pc[c] # "idle"
  BY <1>1 DEF TxPlaces, Holding
<1>3. DbInv'
  BY DbKept DEF ServiceInv, DbInv
<1>4. CallsOK'
  <2>1. Holds(c)
    BY DEF ServiceInv, CallsOK
  <2>2. Holds(c)'
    BY <1>2, <2>1, HoldsKept
  <2> QED
    BY <1>1, <2>2, CallsStep DEF ServiceInv
<1>5. AnswersOK'
  <2>1. outcome[c].kind \in {"ok", "replayed"} => Shows(outcome[c].response, req[c])
    BY DEF ServiceInv, AnswersOK
  <2> QED
    BY <1>1, <1>2, <2>1, AnswersStep DEF ServiceInv
<1>6. TypeOK'
  <2>1. \A o \in Calls \ {c} : pc'[o] \notin TxPlaces
    BY <1>1, TxOwner DEF ServiceInv, OnlyCall
  <2>2. {o \in Calls : pc'[o] \in TxPlaces} = {c}
    BY <1>1, <2>1
  <2>3. {o \in Calls : pc'[o] \in TxPlaces} = IF tx' = NoTx THEN {} ELSE {tx'.call}
    BY <2>2
  <2>4. \A o \in Calls : pc'[o] # "idle" => req'[o] \in Requests
    BY <1>1, <1>2 DEF OnlyCall, ServiceInv, TypeOK
  <2>5. expired' \in BOOLEAN
    BY Zenon DEF ServiceInv, TypeOK
  <2> QED
    BY <1>1, <2>3, <2>4, <2>5 DEF OnlyCall, ServiceInv, TypeOK
<1> QED
  BY <1>3, <1>4, <1>5, <1>6 DEF ServiceInv, DbInv

\* A statement: the transaction sees what the statement wrote.
LEMMA ExecuteStep ==
    ASSUME NEW c \in Calls, NEW from \in TxPlaces, NEW to \in TxPlaces, NEW new,
           ServiceInv, InTx(c), Execute(c, from, to, new),
           UNCHANGED <<server, stops, expired, db, req, mem>>,
           tx' = [call |-> c, db |-> new] => TxOK'
    PROVE  ServiceInv'
<1>1. pc[c] = from /\ pc' = [pc EXCEPT ![c] = to] /\ tx' = [tx EXCEPT !.db = new]
  BY DEF Execute, Goto
<1>2. tx # NoTx /\ tx.call = c
  BY <1>1, TxOwner DEF ServiceInv, InTx
<1>3. DOMAIN tx = {"call", "db"}
  BY <1>2 DEF ServiceInv, TxOK, TxSees
<1>4. tx' = [call |-> c, db |-> new]
  BY <1>1, <1>2, <1>3
<1>5. tx'.call = c /\ tx' # NoTx
  BY <1>4, NoneAssumption DEF NoTx
<1>6. from # "timeline" /\ from \in Holding
  BY DEF TxPlaces, Holding
<1> QED
  BY <1>1, <1>2, <1>4, <1>5, <1>6, InsideStep DEF Execute

\* The view of the open transaction, said of the call it belongs to.
LEMMA TxSeesOK ==
    ASSUME NEW c \in Calls, TypeOK, TxOK, pc[c] \in TxPlaces
    PROVE  TxSees(c) /\ tx # NoTx /\ tx.call = c
<1>1. tx # NoTx /\ tx.call = c
  BY TxOwner
<1> QED
  BY <1>1 DEF TxOK, TxSees

LEMMA SeesTxOK ==
    ASSUME NEW c \in Calls, tx'.call = c, TxSees(c)'
    PROVE  TxOK'
  BY DEF TxOK, TxSees

LEMMA BeginInv ==
    ASSUME NEW c \in Calls, ServiceInv, Begin(c)
    PROVE  ServiceInv'
<1>1. /\ pc[c] = "begin" /\ pc' = [pc EXCEPT ![c] = "tx_replay"] /\ tx = NoTx
      /\ tx' = [call |-> c, db |-> db]
  BY DEF Begin, Goto
<1>2. tx'.call = c /\ tx' # NoTx
  BY <1>1, NoneAssumption DEF NoTx
<1>3. pc'[c] = "tx_replay"
  BY <1>1 DEF ServiceInv, TypeOK
<1>4. /\ ~ReplayChecked(c)' /\ ~DrillStored(c)' /\ ~FactsStored(c)' /\ ~EventStored(c)'
      /\ ~IdemStored(c)'
  BY <1>3 DEF ReplayChecked, DrillStored, FactsStored, EventStored, IdemStored
<1>5. DOMAIN tx' = {"call", "db"} /\ tx'.db = db' /\ DOMAIN db' = DbFields
  BY <1>1 DEF Begin, ServiceInv, RowsOK
<1>6. TxSees(c)'
  BY <1>4, <1>5 DEF TxSees
<1>7. TxOK'
  BY <1>2, <1>6, SeesTxOK
<1>8. pc[c] \in Holding \ {"timeline"} /\ "tx_replay" \in TxPlaces
  BY <1>1 DEF Holding, TxPlaces
<1> QED
  BY <1>1, <1>2, <1>7, <1>8, InsideStep DEF Begin

\* The end of a transaction that wrote nothing.
LEMMA EndStep ==
    ASSUME NEW c \in Calls, NEW answer, ServiceInv, pc[c] \in TxPlaces,
           tx' = NoTx, Finish(c, answer),
           UNCHANGED <<server, stops, expired, db, req, mem>>,
           answer.kind \in {"ok", "replayed"} => Shows(answer.response, req[c])
    PROVE  ServiceInv'
<1>1. /\ OnlyCall(c) /\ pc'[c] = "reply" /\ outcome'[c] = answer
  BY DEF OnlyCall, Finish, ServiceInv, TypeOK, Places
<1>2. pc'[c] \notin TxPlaces /\ pc'[c] \notin Holding /\ pc[c] # "idle"
  BY <1>1 DEF TxPlaces, Holding
<1>3. DbInv'
  BY DbKept DEF ServiceInv, DbInv
<1>4. CallsOK'
  BY <1>1, <1>2, CallsStep DEF ServiceInv
<1>5. AnswersOK'
  BY <1>1, AnswersStep DEF ServiceInv
<1>6. TypeOK'
  <2>1. \A o \in Calls : pc'[o] \notin TxPlaces
    BY <1>1, <1>2, TxOwner DEF ServiceInv, OnlyCall
  <2>2. {o \in Calls : pc'[o] \in TxPlaces} = IF tx' = NoTx THEN {} ELSE {tx'.call}
    BY <2>1
  <2>3. \A o \in Calls : pc'[o] # "idle" => req'[o] \in Requests
    BY <1>1, <1>2 DEF OnlyCall, ServiceInv, TypeOK
  <2>4. expired' \in BOOLEAN
    BY Zenon DEF ServiceInv, TypeOK
  <2> QED
    BY <1>1, <2>2, <2>3, <2>4 DEF OnlyCall, ServiceInv, TypeOK
<1>7. TxOK'
  BY DEF TxOK
<1> QED
  BY <1>3, <1>4, <1>5, <1>6, <1>7 DEF ServiceInv, DbInv

LEMMA FailInv ==
    ASSUME NEW c \in Calls, ServiceInv, Fail(c)
    PROVE  ServiceInv'
<1>1. pc[c] # "idle" /\ Finish(c, Refusal("failed"))
  BY DEF Fail
<1>2. CASE pc[c] \in TxPlaces
  <2>1. tx' = NoTx
    BY <1>2, TxOwner DEF Fail, ServiceInv
  <2> QED
    BY <1>1, <1>2, <2>1, RefusalIsNoSuccess, EndStep DEF Fail
<1>3. CASE pc[c] \notin TxPlaces
  <2>1. tx' = tx
    BY <1>3, TxOwner DEF Fail, ServiceInv
  <2> QED
    BY <1>1, <1>3, <2>1, RefusalIsNoSuccess, AnswerStep DEF Fail
<1> QED
  BY <1>2, <1>3

\* Merging a stored response into a local one keeps the log it shows.
LEMMA MergedShows ==
    ASSUME NEW stored, NEW local, NEW r, Shows(stored, r)
    PROVE  Shows(MergedInto(stored, local), r)
<1>1. /\ DOMAIN MergedInto(stored, local) = DOMAIN stored
      /\ MergedInto(stored, local).log = stored.log
  BY DEF MergedInto, Shows, ResponseFields
<1> QED
  BY <1>1 DEF Shows

LEMMA TxReplayInv ==
    ASSUME NEW c \in Calls, ServiceInv, TxReplay(c)
    PROVE  ServiceInv'
<1>1. pc[c] = "tx_replay" /\ "tx_replay" \in TxPlaces /\ "tx_drill" \in TxPlaces /\ InTx(c)
  BY DEF TxReplay, TxPlaces
<1>2. TxSees(c)
  BY <1>1, TxSeesOK DEF ServiceInv
<1>3. tx.db.idem = db.idem
  BY <1>1, <1>2 DEF TxSees, IdemStored
<1>4. CASE req[c].id \notin DOMAIN db.idem
  <2>1. Execute(c, "tx_replay", "tx_drill", tx.db)
    BY <1>3, <1>4 DEF TxReplay
  <2>2. ASSUME tx' = [call |-> c, db |-> tx.db] PROVE TxOK'
    <3>1. pc'[c] = "tx_drill"
      BY <2>1 DEF Execute, Goto, ServiceInv, TypeOK
    <3>2. /\ ReplayChecked(c)' /\ ~DrillStored(c)' /\ ~FactsStored(c)' /\ ~EventStored(c)'
          /\ ~IdemStored(c)' /\ ~DrillStored(c) /\ ~FactsStored(c) /\ ~EventStored(c)
      BY <1>1, <3>1 DEF ReplayChecked, DrillStored, FactsStored, EventStored, IdemStored, TxPlaces
    <3>3. tx'.call = c /\ tx'.db = tx.db /\ DOMAIN tx' = {"call", "db"} /\ db' = db
          /\ req'[c] = req[c]
      BY <2>2 DEF TxReplay
    <3>4. TxSees(c)'
      BY <1>2, <1>3, <1>4, <3>2, <3>3 DEF TxSees
    <3> QED
      BY <3>3, <3>4, SeesTxOK
  <2> QED
    BY <1>1, <2>1, <2>2, ExecuteStep DEF TxReplay
<1>5. CASE req[c].id \in DOMAIN db.idem
  <2> DEFINE row == db.idem[req[c].id]
             merged == MergedInto(row.response, mem[c].response)
  <2>1. CASE row.request = req[c]
    <3>1. Shows(row.response, req[c])
      BY <1>5, <2>1 DEF ServiceInv, RowsOK
    <3>2. tx' = NoTx /\ Finish(c, Answer("replayed", merged))
      BY <1>3, <1>5, <2>1 DEF TxReplay, EndTx
    <3>3. Answer("replayed", merged).response = merged
      BY DEF Answer
    <3>4. Shows(merged, req[c])
      BY <3>1, MergedShows
    <3> HIDE DEF row, merged
    <3> QED
      BY <1>1, <3>2, <3>3, <3>4, EndStep DEF TxReplay
  <2>2. CASE row.request # req[c]
    <3>1. tx' = NoTx /\ Finish(c, Refusal("invalid"))
      BY <1>3, <1>5, <2>2 DEF TxReplay, EndTx
    <3> QED
      BY <1>1, <3>1, RefusalIsNoSuccess, EndStep DEF TxReplay
  <2> QED
    BY <2>1, <2>2
<1> QED
  BY <1>4, <1>5

LEMMA TxDrillInv ==
    ASSUME NEW c \in Calls, ServiceInv, TxDrill(c)
    PROVE  ServiceInv'
<1> DEFINE d == mem[c].drill
           r == req[c]
           new == [tx.db EXCEPT !.drills = Extend(tx.db.drills, d.id, d)]
<1>1. /\ pc[c] = "tx_drill" /\ "tx_drill" \in TxPlaces /\ "tx_facts" \in TxPlaces /\ InTx(c)
      /\ pc[c] \in Holding
  BY DEF TxDrill, TxPlaces, Holding
<1>2. TxSees(c) /\ Holds(c)
  BY <1>1, TxSeesOK DEF ServiceInv, CallsOK
<1>3. /\ tx.db.drills = db.drills /\ ReplayChecked(c) /\ ~FactsStored(c) /\ ~EventStored(c)
      /\ ~IdemStored(c)
  BY <1>1, <1>2 DEF TxSees, ReplayChecked, DrillStored, FactsStored, EventStored, IdemStored,
                    TxPlaces
<1>4. ASSUME NEW kind \in {"not_found", "conflict"}, EndTx(c, Refusal(kind))
      PROVE  ServiceInv'
  BY <1>1, <1>4, RefusalIsNoSuccess, EndStep DEF TxDrill, EndTx
<1>5. ASSUME Execute(c, "tx_drill", "tx_facts", new),
             r.op # "create" => db.drills[d.id].revision = r.expected
      PROVE  ServiceInv'
  <2>1. ASSUME tx' = [call |-> c, db |-> new] PROVE TxOK'
    <3>1. pc'[c] = "tx_facts"
      BY <1>5 DEF Execute, Goto, ServiceInv, TypeOK
    <3>2. /\ ReplayChecked(c)' /\ DrillStored(c)' /\ ~FactsStored(c)' /\ ~EventStored(c)'
          /\ ~IdemStored(c)'
      BY <3>1 DEF ReplayChecked, DrillStored, FactsStored, EventStored, IdemStored, TxPlaces
    <3>3. tx'.call = c /\ tx'.db = new /\ DOMAIN tx' = {"call", "db"} /\ db' = db
          /\ req'[c] = req[c] /\ mem'[c] = mem[c]
      BY <2>1 DEF TxDrill
    <3>4. /\ DOMAIN new = DbFields /\ new.drills = Extend(db.drills, d.id, d)
          /\ new.facts = tx.db.facts /\ new.dossiers = tx.db.dossiers
          /\ new.events = tx.db.events /\ new.idem = tx.db.idem
      BY <1>2, <1>3 DEF TxSees, DbFields
    <3> HIDE DEF new
    <3>5. TxSees(c)'
      BY <1>2, <1>3, <1>5, <3>2, <3>3, <3>4 DEF TxSees
    <3> QED
      BY <3>3, <3>5, SeesTxOK
  <2> HIDE DEF new
  <2> QED
    BY <1>1, <1>5, <2>1, ExecuteStep DEF TxDrill
<1>6. CASE r.op = "create"
  BY <1>5, <1>6 DEF TxDrill
<1>7. CASE r.op # "create"
  <2>1. d.id = r.drill
    BY <1>2, <1>7 DEF Holds
  <2> QED
    BY <1>3, <1>4, <1>5, <1>7, <2>1 DEF TxDrill, RevisionMatches
<1> QED
  BY <1>6, <1>7

\* What a call in a transaction holds, against the drill it is going to write,
\* while that drill is at the revision the request names.
LEMMA WriteFacts ==
    ASSUME NEW c \in Calls, ServiceInv, Holds(c), req[c] \in Requests, req[c].op # "create",
           db.drills[mem[c].drill.id].revision = req[c].expected
    PROVE  LET d   == mem[c].drill
               r   == req[c]
               row == db.drills[d.id]
           IN  /\ d.id = r.drill /\ d.id \in DOMAIN db.drills /\ r.expected > 0
               /\ row.id = d.id /\ row.log \in Seq(Requests) /\ Len(row.log) = r.expected
               /\ DOMAIN row.log = 1..r.expected
               /\ \A i \in 1..r.expected : row.log[i] = d.log[i]
               /\ row.dossier = NoHash /\ d.id \notin db.dossiers
               /\ HasDossier(c) => d.dossier = db.events[d.id][r.expected].hash
               /\ IsSequence(db.events[d.id]) /\ VerifyChain(db.events[d.id])
               /\ Len(db.events[d.id]) = r.expected
               /\ \A i \in 1..r.expected : db.events[d.id][i].content = d.log[i]
               /\ db.facts[d.id] = Entries(row.log)
<1> DEFINE d   == mem[c].drill
           r   == req[c]
           row == db.drills[d.id]
<1>1. /\ d.id = r.drill /\ d.id \in DOMAIN db.drills /\ row.dossier = NoHash
      /\ \A i \in 1..r.expected : i \in DOMAIN row.log /\ row.log[i] = d.log[i]
      /\ HasDossier(c) => d.dossier = db.events[d.id][r.expected].hash
  BY DEF Holds
<1>2. r.expected \in Nat /\ r.expected > 0
  BY RequestFacts
<1>3. /\ row.id = d.id /\ row.log \in Seq(Requests) /\ IsSequence(db.events[d.id])
  BY <1>1 DEF ServiceInv, RowsOK
<1>4. /\ row.revision = Len(row.log) /\ Len(db.events[d.id]) = Len(row.log)
      /\ VerifyChain(db.events[d.id])
      /\ \A i \in DOMAIN row.log : db.events[d.id][i].content = row.log[i]
      /\ db.facts[d.id] = Entries(row.log)
      /\ d.id \in db.dossiers <=> row.dossier # NoHash
  BY <1>1 DEF ServiceInv, TablesAgree
<1>5. Len(row.log) = r.expected /\ DOMAIN row.log = 1..r.expected
  <2>1. row.revision = r.expected
    OBVIOUS
  <2>2. row.log \in Seq(Requests) /\ row.revision = Len(row.log)
    BY <1>3, <1>4
  <2> HIDE DEF row, r
  <2> QED
    BY <2>1, <2>2
<1> QED
  BY <1>1, <1>2, <1>3, <1>4, <1>5

\* The log a call holds, after the requests that came before.
LEMMA HeldLog ==
    ASSUME NEW c \in Calls, Holds(c), req[c] \in Requests
    PROVE  LET log == mem[c].drill.log
               r   == req[c]
           IN  /\ log \in Seq(Requests) /\ IsSequence(log) /\ r.expected \in Nat
               /\ Len(log) = r.expected + 1 /\ DOMAIN log = 1..(r.expected + 1)
               /\ log[r.expected + 1] = r /\ log # << >>
<1> DEFINE log == mem[c].drill.log
           r   == req[c]
<1>1. log \in Seq(Requests) /\ Len(log) = r.expected + 1 /\ log[Len(log)] = r
  BY DEF Holds
<1>2. r.expected \in Nat
  BY RequestFacts
<1> HIDE DEF log, r
<1>3. DOMAIN log = 1..(r.expected + 1) /\ log # << >> /\ IsSequence(log)
  BY <1>1, <1>2, SeqIsSequence
<1> QED
  BY <1>1, <1>2, <1>3 DEF log, r

LEMMA TxFactsInv ==
    ASSUME NEW c \in Calls, ServiceInv, TxFacts(c)
    PROVE  ServiceInv'
<1> DEFINE d == mem[c].drill
           r == req[c]
           old == IF d.id \in DOMAIN tx.db.facts THEN tx.db.facts[d.id] ELSE {}
           facts == old \cup Entries(d.log)
           new == [tx.db EXCEPT !.facts = Extend(@, d.id, facts),
                                !.dossiers = IF d.dossier = NoHash THEN @ ELSE @ \cup {d.id}]
<1>1. /\ pc[c] = "tx_facts" /\ "tx_facts" \in TxPlaces /\ "tx_event" \in TxPlaces /\ InTx(c)
      /\ pc[c] \in Holding /\ pc[c] # "idle"
  BY DEF TxFacts, TxPlaces, Holding
<1>2. TxSees(c) /\ Holds(c) /\ r \in Requests
  BY <1>1, TxSeesOK DEF ServiceInv, CallsOK, TypeOK
<1>3. /\ tx.db.facts = db.facts /\ tx.db.dossiers = db.dossiers /\ ReplayChecked(c)
      /\ DrillStored(c) /\ ~EventStored(c) /\ ~IdemStored(c)
  BY <1>1, <1>2 DEF TxSees, ReplayChecked, DrillStored, FactsStored, EventStored, IdemStored,
                    TxPlaces
<1>4. CASE d.dossier # NoHash /\ d.id \in tx.db.dossiers
  <2>1. EndTx(c, Refusal("failed"))
    BY <1>4 DEF TxFacts
  <2> QED
    BY <1>1, <2>1, RefusalIsNoSuccess, EndStep DEF TxFacts, EndTx
<1>5. CASE ~(d.dossier # NoHash /\ d.id \in tx.db.dossiers)
  <2>1. Execute(c, "tx_facts", "tx_event", new)
    BY <1>5 DEF TxFacts, Entries
  <2>2. facts = Entries(d.log)
    <3>1. CASE r.op = "create"
      <4>1. d.id \notin DOMAIN db.facts
        BY <1>2, <3>1 DEF Holds, ServiceInv, TablesAgree
      <4> QED
        BY <1>3, <4>1
    <3>2. CASE r.op # "create"
      <4>1. db.drills[d.id].revision = r.expected
        BY <1>2, <1>3, <3>2 DEF TxSees
      <4>2. /\ old = Entries(db.drills[d.id].log) /\ DOMAIN db.drills[d.id].log = 1..r.expected
            /\ \A i \in 1..r.expected : db.drills[d.id].log[i] = d.log[i]
        <5>1. /\ d.id \in DOMAIN db.drills /\ db.facts[d.id] = Entries(db.drills[d.id].log)
              /\ DOMAIN db.drills[d.id].log = 1..r.expected
              /\ \A i \in 1..r.expected : db.drills[d.id].log[i] = d.log[i]
          BY <1>2, <3>2, <4>1, WriteFacts
        <5>2. d.id \in DOMAIN db.facts
          BY <5>1 DEF ServiceInv, TablesAgree
        <5> QED
          BY <1>3, <5>1, <5>2
      <4>3. DOMAIN d.log = 1..(r.expected + 1) /\ r.expected \in Nat
        BY <1>2, HeldLog
      <4> HIDE DEF d, r, old
      <4>4. \A i \in 1..r.expected : i \in DOMAIN d.log
        BY <4>3
      <4>5. old \subseteq Entries(d.log)
        BY <4>2, <4>4 DEF Entries
      <4> QED
        BY <4>5
    <3> QED
      BY <3>1, <3>2
  <2>3. ASSUME tx' = [call |-> c, db |-> new] PROVE TxOK'
    <3>1. pc'[c] = "tx_event"
      BY <2>1 DEF Execute, Goto, ServiceInv, TypeOK
    <3>2. /\ ReplayChecked(c)' /\ DrillStored(c)' /\ FactsStored(c)' /\ ~EventStored(c)'
          /\ ~IdemStored(c)'
      BY <3>1 DEF ReplayChecked, DrillStored, FactsStored, EventStored, IdemStored, TxPlaces
    <3>3. tx'.call = c /\ tx'.db = new /\ DOMAIN tx' = {"call", "db"} /\ db' = db
          /\ req'[c] = req[c] /\ mem'[c] = mem[c]
      BY <2>3 DEF TxFacts
    <3> HIDE DEF facts
    <3>4. /\ DOMAIN new = DbFields /\ new.drills = tx.db.drills
          /\ new.facts = Extend(db.facts, d.id, facts)
          /\ new.dossiers = IF d.dossier = NoHash THEN db.dossiers ELSE db.dossiers \cup {d.id}
          /\ new.events = tx.db.events /\ new.idem = tx.db.idem
      BY <1>2, <1>3 DEF TxSees, DbFields
    <3> HIDE DEF new
    <3>5. TxSees(c)'
      BY <1>2, <1>3, <2>2, <3>2, <3>3, <3>4 DEF TxSees
    <3> QED
      BY <3>3, <3>5, SeesTxOK
  <2> HIDE DEF new
  <2> QED
    BY <1>1, <2>1, <2>3, ExecuteStep DEF TxFacts
<1> QED
  BY <1>4, <1>5

LEMMA TxEventInv ==
    ASSUME NEW c \in Calls, ServiceInv, TxEvent(c)
    PROVE  ServiceInv'
<1> DEFINE d == mem[c].drill
           r == req[c]
           events == IF d.id \in DOMAIN tx.db.events THEN tx.db.events[d.id] ELSE << >>
           longer == Append(events, NewEvent(events, r))
           new == [tx.db EXCEPT !.events = Extend(@, d.id, longer)]
<1>1. /\ pc[c] = "tx_event" /\ "tx_event" \in TxPlaces /\ "tx_idem" \in TxPlaces /\ InTx(c)
      /\ pc[c] \in Holding /\ pc[c] # "idle"
  BY DEF TxEvent, TxPlaces, Holding
<1>2. TxSees(c) /\ Holds(c)
  BY <1>1, TxSeesOK DEF ServiceInv, CallsOK
<1>3. /\ tx.db.events = db.events /\ ReplayChecked(c) /\ DrillStored(c) /\ FactsStored(c)
      /\ ~IdemStored(c)
  BY <1>1, <1>2 DEF TxSees, ReplayChecked, DrillStored, FactsStored, EventStored, IdemStored,
                    TxPlaces
<1>4. Execute(c, "tx_event", "tx_idem", new)
  BY DEF TxEvent
<1>5. events = ChainBefore(c)
  <2>1. DOMAIN db.events = DOMAIN db.drills
    BY DEF ServiceInv, TablesAgree
  <2>2. CASE r.op = "create"
    <3>1. d.id \notin DOMAIN db.events
      BY <1>2, <2>1, <2>2 DEF Holds
    <3> QED
      BY <1>3, <2>2, <3>1 DEF ChainBefore
  <2>3. CASE r.op # "create"
    <3>1. d.id \in DOMAIN db.events
      BY <1>2, <2>1, <2>3 DEF Holds
    <3> QED
      BY <1>3, <2>3, <3>1 DEF ChainBefore
  <2> QED
    BY <2>2, <2>3
<1>6. ASSUME tx' = [call |-> c, db |-> new] PROVE TxOK'
  <2>1. pc'[c] = "tx_idem"
    BY <1>4 DEF Execute, Goto, ServiceInv, TypeOK
  <2>2. /\ ReplayChecked(c)' /\ DrillStored(c)' /\ FactsStored(c)' /\ EventStored(c)'
        /\ ~IdemStored(c)'
    BY <2>1 DEF ReplayChecked, DrillStored, FactsStored, EventStored, IdemStored, TxPlaces
  <2>3. tx'.call = c /\ tx'.db = new /\ DOMAIN tx' = {"call", "db"} /\ db' = db
        /\ req'[c] = req[c] /\ mem'[c] = mem[c]
    BY <1>6 DEF TxEvent
  <2>4. ChainBefore(c)' = ChainBefore(c)
    BY <2>3 DEF ChainBefore
  <2>5. longer = Append(ChainBefore(c), NewEvent(ChainBefore(c), r))
    BY <1>5
  <2> HIDE DEF longer
  <2>6. /\ DOMAIN new = DbFields /\ new.drills = tx.db.drills /\ new.facts = tx.db.facts
        /\ new.dossiers = tx.db.dossiers /\ new.events = Extend(db.events, d.id, longer)
        /\ new.idem = tx.db.idem
    BY <1>2, <1>3 DEF TxSees, DbFields
  <2> HIDE DEF new
  <2>7. TxSees(c)'
    BY <1>2, <1>3, <2>2, <2>3, <2>4, <2>5, <2>6 DEF TxSees
  <2> QED
    BY <2>3, <2>7, SeesTxOK
<1> HIDE DEF new
<1> QED
  BY <1>1, <1>4, <1>6, ExecuteStep DEF TxEvent

LEMMA TxIdemInv ==
    ASSUME NEW c \in Calls, ServiceInv, TxIdem(c)
    PROVE  ServiceInv'
<1> DEFINE d == mem[c].drill
           r == req[c]
           row == [request |-> r, response |-> mem[c].response]
           new == [tx.db EXCEPT !.idem = Extend(@, r.id, row)]
<1>1. /\ pc[c] = "tx_idem" /\ "tx_idem" \in TxPlaces /\ "tx_commit" \in TxPlaces /\ InTx(c)
      /\ pc[c] # "idle"
  BY DEF TxIdem, TxPlaces
<1>2. TxSees(c)
  BY <1>1, TxSeesOK DEF ServiceInv
<1>3. /\ tx.db.idem = db.idem /\ ReplayChecked(c) /\ DrillStored(c) /\ FactsStored(c)
      /\ EventStored(c)
  BY <1>1, <1>2 DEF TxSees, ReplayChecked, DrillStored, FactsStored, EventStored, IdemStored,
                    TxPlaces
<1>4. CASE r.id \in DOMAIN tx.db.idem
  <2>1. EndTx(c, Refusal("failed"))
    BY <1>4 DEF TxIdem
  <2> QED
    BY <1>1, <2>1, RefusalIsNoSuccess, EndStep DEF TxIdem, EndTx
<1>5. CASE r.id \notin DOMAIN tx.db.idem
  <2>1. Execute(c, "tx_idem", "tx_commit", new)
    BY <1>5 DEF TxIdem
  <2>2. ASSUME tx' = [call |-> c, db |-> new] PROVE TxOK'
    <3>1. pc'[c] = "tx_commit"
      BY <2>1 DEF Execute, Goto, ServiceInv, TypeOK
    <3>2. /\ ReplayChecked(c)' /\ DrillStored(c)' /\ FactsStored(c)' /\ EventStored(c)'
          /\ IdemStored(c)'
      BY <3>1 DEF ReplayChecked, DrillStored, FactsStored, EventStored, IdemStored, TxPlaces
    <3>3. tx'.call = c /\ tx'.db = new /\ DOMAIN tx' = {"call", "db"} /\ db' = db
          /\ req'[c] = req[c] /\ mem'[c] = mem[c]
      BY <2>2 DEF TxIdem
    <3>4. ChainBefore(c)' = ChainBefore(c)
      BY <3>3 DEF ChainBefore
    <3>5. row = [request |-> req'[c], response |-> mem'[c].response]
      BY <3>3
    <3> HIDE DEF row
    <3>6. /\ DOMAIN new = DbFields /\ new.drills = tx.db.drills /\ new.facts = tx.db.facts
          /\ new.dossiers = tx.db.dossiers /\ new.events = tx.db.events
          /\ new.idem = Extend(db.idem, r.id, row)
      BY <1>2, <1>3 DEF TxSees, DbFields
    <3> HIDE DEF new
    <3>7. TxSees(c)'
      BY <1>2, <1>3, <3>2, <3>3, <3>4, <3>5, <3>6 DEF TxSees
    <3> QED
      BY <3>3, <3>7, SeesTxOK
  <2> HIDE DEF new
  <2> QED
    BY <1>1, <2>1, <2>2, ExecuteStep DEF TxIdem
<1> QED
  BY <1>4, <1>5

-----------------------------------------------------------------------------
(* What a commit writes.                                                   *)

\* The chain before a commit stands for the log before it.
ChainOf(c) ==
    LET ch == ChainBefore(c)
        d  == mem[c].drill
    IN  /\ IsSequence(ch) /\ VerifyChain(ch) /\ Len(ch) = req[c].expected
        /\ \A i \in 1..req[c].expected : ch[i].content = d.log[i]

\* The database after the commit of what the call c holds.
Committed(c) ==
    LET d  == mem[c].drill
        r  == req[c]
        ch == ChainBefore(c)
    IN  /\ DOMAIN db' = DbFields
        /\ db'.drills = Extend(db.drills, d.id, d)
        /\ db'.facts = Extend(db.facts, d.id, Entries(d.log))
        /\ db'.dossiers = IF d.dossier = NoHash THEN db.dossiers ELSE db.dossiers \cup {d.id}
        /\ db'.events = Extend(db.events, d.id, Append(ch, NewEvent(ch, r)))
        /\ db'.idem = Extend(db.idem, r.id, [request |-> r, response |-> mem[c].response])

\* A call that commits holds a drill that is new or at the revision it names,
\* under an id not used before.
MayCommit(c) ==
    /\ Holds(c) /\ req[c] \in Requests /\ req[c].id \notin DOMAIN db.idem /\ ChainOf(c)
    /\ req[c].op # "create" => db.drills[mem[c].drill.id].revision = req[c].expected
    /\ pc[c] # "timeline"

LEMMA CommitFacts ==
    ASSUME NEW c \in Calls, ServiceInv, TxCommit(c)
    PROVE  MayCommit(c) /\ Committed(c)
<1>1. /\ pc[c] = "tx_commit" /\ pc[c] \in TxPlaces /\ pc[c] \in Holding /\ pc[c] # "idle"
      /\ pc[c] # "timeline"
  BY DEF TxCommit, TxPlaces, Holding
<1>2. TxSees(c) /\ Holds(c) /\ req[c] \in Requests
  BY <1>1, TxSeesOK DEF ServiceInv, CallsOK, TypeOK
<1>3. /\ ReplayChecked(c) /\ DrillStored(c) /\ FactsStored(c) /\ EventStored(c)
      /\ IdemStored(c)
  BY <1>1 DEF ReplayChecked, DrillStored, FactsStored, EventStored, IdemStored, TxPlaces
<1>4. Committed(c)
  BY <1>2, <1>3 DEF TxSees, Committed, TxCommit
<1>5. ChainOf(c)
  <2>1. CASE req[c].op = "create"
    <3>1. ChainBefore(c) = << >> /\ req[c].expected = 0
      BY <1>2, <2>1, RequestFacts DEF ChainBefore
    <3>2. IsSequence(<< >>) /\ VerifyChain(<< >>) /\ Len(<< >>) = 0
      BY DEF IsSequence, VerifyChain
    <3> QED
      BY <3>1, <3>2 DEF ChainOf
  <2>2. CASE req[c].op # "create"
    <3>1. db.drills[mem[c].drill.id].revision = req[c].expected
      BY <1>2, <1>3, <2>2 DEF TxSees
    <3> QED
      BY <1>2, <2>2, <3>1, WriteFacts DEF ChainOf, ChainBefore
  <2> QED
    BY <2>1, <2>2
<1> QED
  BY <1>1, <1>2, <1>3, <1>4, <1>5 DEF MayCommit, TxSees

\* The rows after a commit: one drill, its facts, its chain and one response are
\* new, the other rows are as they were.
LEMMA CommittedRows ==
    ASSUME NEW c \in Calls, ServiceInv, MayCommit(c), Committed(c)
    PROVE  LET d == mem[c].drill
               r == req[c]
               ch == ChainBefore(c)
           IN  /\ DOMAIN db'.drills = DOMAIN db.drills \cup {d.id}
               /\ DOMAIN db'.facts = DOMAIN db'.drills /\ DOMAIN db'.events = DOMAIN db'.drills
               /\ DOMAIN db'.idem = DOMAIN db.idem \cup {r.id}
               /\ db'.drills[d.id] = d /\ db'.facts[d.id] = Entries(d.log)
               /\ db'.events[d.id] = Append(ch, NewEvent(ch, r))
               /\ \A e \in DOMAIN db.drills :
                     e # d.id => /\ db'.drills[e] = db.drills[e] /\ db'.facts[e] = db.facts[e]
                                 /\ db'.events[e] = db.events[e]
               /\ \A i \in DOMAIN db.idem : db'.idem[i] = db.idem[i]
               /\ db'.idem[r.id] = [request |-> r, response |-> mem[c].response]
<1> DEFINE d == mem[c].drill
           r == req[c]
           ch == ChainBefore(c)
           chain == Append(ch, NewEvent(ch, r))
           row == [request |-> r, response |-> mem[c].response]
<1>1. DOMAIN db.events = DOMAIN db.drills /\ DOMAIN db.facts = DOMAIN db.drills
  BY DEF ServiceInv, TablesAgree
<1>2. r.id \notin DOMAIN db.idem
  BY DEF MayCommit
<1>3. /\ db'.drills = Extend(db.drills, d.id, d)
      /\ db'.facts = Extend(db.facts, d.id, Entries(d.log))
      /\ db'.events = Extend(db.events, d.id, chain)
      /\ db'.idem = Extend(db.idem, r.id, row)
  BY DEF Committed
<1> HIDE DEF d, r, ch, chain, row
<1>4. /\ DOMAIN db'.drills = DOMAIN db.drills \cup {d.id} /\ db'.drills[d.id] = d
      /\ \A e \in DOMAIN db.drills : e # d.id => db'.drills[e] = db.drills[e]
  BY <1>3 DEF Extend
<1>5. /\ DOMAIN db'.facts = DOMAIN db'.drills /\ db'.facts[d.id] = Entries(d.log)
      /\ \A e \in DOMAIN db.drills : e # d.id => db'.facts[e] = db.facts[e]
  BY <1>1, <1>3, <1>4 DEF Extend
<1>6. /\ DOMAIN db'.events = DOMAIN db'.drills /\ db'.events[d.id] = chain
      /\ \A e \in DOMAIN db.drills : e # d.id => db'.events[e] = db.events[e]
  BY <1>1, <1>3, <1>4 DEF Extend
<1>7. /\ DOMAIN db'.idem = DOMAIN db.idem \cup {r.id} /\ db'.idem[r.id] = row
      /\ \A i \in DOMAIN db.idem : db'.idem[i] = db.idem[i]
  BY <1>2, <1>3 DEF Extend
<1> QED
  BY <1>4, <1>5, <1>6, <1>7, Zenon DEF d, r, ch, chain, row

\* The chain of the drill written: the chain before and one event for the request.
LEMMA CommittedChain ==
    ASSUME NEW c \in Calls, MayCommit(c)
    PROVE  LET ch == ChainBefore(c)
               r  == req[c]
               t  == Append(ch, NewEvent(ch, r))
               n  == r.expected
           IN  /\ n \in Nat /\ IsSequence(ch) /\ IsSequence(t) /\ VerifyChain(t)
               /\ Len(ch) = n /\ Len(t) = n + 1 /\ DOMAIN t = 1..(n + 1)
               /\ \A i \in 1..n : t[i] = ch[i]
               /\ \A i \in 1..(n + 1) : t[i].content = mem[c].drill.log[i]
<1> DEFINE ch == ChainBefore(c)
           r  == req[c]
           e  == NewEvent(ch, r)
           t  == Append(ch, e)
           n  == r.expected
           log == mem[c].drill.log
<1>1. /\ IsSequence(ch) /\ VerifyChain(ch) /\ Len(ch) = n
      /\ \A i \in 1..n : ch[i].content = log[i]
  BY DEF MayCommit, ChainOf
<1>2. n \in Nat /\ log[n + 1] = r
  BY HeldLog DEF MayCommit
<1>3. e.content = r
  BY DEF NewEvent
<1>4. VerifyChain(t)
  BY <1>1, AppendVerifies
<1> HIDE DEF ch, r, e, n, log
<1>5. /\ IsSequence(t) /\ Len(t) = n + 1 /\ DOMAIN t = 1..(n + 1)
      /\ t[n + 1] = e /\ \A i \in 1..n : t[i] = ch[i]
  BY <1>1, Appended
<1>6. \A i \in 1..(n + 1) : t[i].content = log[i]
  <2>1. \A i \in 1..(n + 1) : i \in 1..n \/ i = n + 1
    BY <1>2
  <2> QED
    BY <1>1, <1>2, <1>3, <1>5, <2>1
<1> HIDE DEF t
<1>7. /\ n \in Nat /\ IsSequence(ch) /\ IsSequence(t) /\ VerifyChain(t)
      /\ Len(ch) = n /\ Len(t) = n + 1 /\ DOMAIN t = 1..(n + 1)
      /\ \A i \in 1..n : t[i] = ch[i]
      /\ \A i \in 1..(n + 1) : t[i].content = log[i]
  BY <1>1, <1>2, <1>4, <1>5, <1>6
<1> QED
  BY <1>7 DEF ch, r, e, t, n, log

\* Logs and chains only grow, and a certified drill is final.
Grown(e) ==
    /\ e \in DOMAIN db'.drills
    /\ Begins(db.drills[e].log, db'.drills[e].log)
    /\ Begins(db.events[e], db'.events[e])
    /\ db.drills[e].dossier # NoHash => db'.drills[e] = db.drills[e]

LEMMA SelfBegins ==
    ASSUME NEW s, IsSequence(s)
    PROVE  Begins(s, s)
<1>1. Len(s) \in Nat
  BY DEF IsSequence
<1> QED
  BY <1>1, BeginsElements

LEMMA CommitGrows ==
    ASSUME NEW c \in Calls, ServiceInv, MayCommit(c), Committed(c),
           NEW e \in DOMAIN db.drills
    PROVE  Grown(e)
<1> DEFINE d == mem[c].drill
           r == req[c]
           ch == ChainBefore(c)
<1>1. /\ e \in DOMAIN db'.drills
      /\ e # d.id => db'.drills[e] = db.drills[e] /\ db'.events[e] = db.events[e]
      /\ db'.drills[d.id] = d /\ db'.events[d.id] = Append(ch, NewEvent(ch, r))
  BY CommittedRows
<1>2. IsSequence(db.drills[e].log) /\ IsSequence(db.events[e])
  BY SeqIsSequence DEF ServiceInv, RowsOK
<1>3. CASE e # d.id
  BY <1>1, <1>2, <1>3, SelfBegins DEF Grown
<1>4. CASE e = d.id
  <2>1. r.op # "create" /\ Holds(c) /\ r \in Requests /\ db.drills[d.id].revision = r.expected
    BY <1>4 DEF MayCommit, Holds
  <2>2. /\ db.drills[e].dossier = NoHash /\ Len(db.drills[e].log) = r.expected
        /\ \A i \in 1..r.expected : db.drills[e].log[i] = d.log[i]
    BY <1>4, <2>1, WriteFacts
  <2>3. /\ IsSequence(d.log) /\ r.expected \in Nat /\ Len(d.log) = r.expected + 1
    BY <2>1, HeldLog
  <2>4. Begins(db.drills[e].log, d.log)
    <3>1. Len(db.drills[e].log) <= Len(d.log)
      BY <2>2, <2>3
    <3> QED
      BY <1>2, <2>2, <2>3, <3>1, BeginsElements
  <2>5. /\ ch = db.events[e] /\ IsSequence(ch) /\ IsSequence(Append(ch, NewEvent(ch, r)))
        /\ Len(ch) = r.expected /\ Len(Append(ch, NewEvent(ch, r))) = r.expected + 1
        /\ \A i \in 1..r.expected : Append(ch, NewEvent(ch, r))[i] = ch[i]
    BY <1>4, <2>1, CommittedChain DEF ChainBefore
  <2>6. Begins(ch, Append(ch, NewEvent(ch, r)))
    <3> DEFINE t == Append(ch, NewEvent(ch, r))
    <3>1. /\ IsSequence(ch) /\ IsSequence(t) /\ Len(ch) = r.expected
          /\ Len(t) = r.expected + 1 /\ \A i \in 1..r.expected : t[i] = ch[i]
      BY <2>5
    <3> HIDE DEF ch, t, r
    <3>2. Len(ch) <= Len(t) /\ \A i \in 1..Len(ch) : ch[i] = t[i]
      BY <2>3, <3>1
    <3>3. Begins(ch, t)
      BY <3>1, <3>2, BeginsElements
    <3> QED
      BY <3>3 DEF t
  <2> QED
    BY <1>1, <1>4, <2>2, <2>4, <2>5, <2>6 DEF Grown
<1> QED
  BY <1>3, <1>4

LEMMA BeginsAgain ==
    ASSUME NEW s, NEW t, NEW u, IsSequence(s), IsSequence(t), IsSequence(u),
           Begins(s, t), Begins(t, u)
    PROVE  Begins(s, u)
<1>1. Len(s) \in Nat /\ Len(t) \in Nat /\ Len(u) \in Nat
  BY DEF IsSequence
<1>2. /\ Len(s) <= Len(t) /\ Len(t) <= Len(u)
      /\ \A i \in 1..Len(s) : s[i] = t[i]
      /\ \A i \in 1..Len(t) : t[i] = u[i]
  BY BeginsElements
<1>3. Len(s) <= Len(u) /\ \A i \in 1..Len(s) : s[i] = u[i]
  BY <1>1, <1>2
<1> QED
  BY <1>3, BeginsElements

\* What a response shows stays the beginning of a log.
LEMMA CommitShows ==
    ASSUME NEW c \in Calls, ServiceInv, MayCommit(c), Committed(c), IsSequence(mem[c].drill.log)
    PROVE  /\ \A x, r : Shows(x, r) =>
                 /\ DOMAIN x = ResponseFields
                 /\ x.log \in Seq(Requests) /\ x.log # << >> /\ x.log[Len(x.log)] = r
                 /\ \E e \in DOMAIN db'.drills : Begins(x.log, db'.drills[e].log)
           /\ LET x == mem[c].response
              IN  /\ DOMAIN x = ResponseFields
                  /\ x.log \in Seq(Requests) /\ x.log # << >> /\ x.log[Len(x.log)] = req[c]
                  /\ \E e \in DOMAIN db'.drills : Begins(x.log, db'.drills[e].log)
<1> DEFINE d == mem[c].drill
<1>1. ASSUME NEW x, NEW r, Shows(x, r)
      PROVE  \E e \in DOMAIN db'.drills : Begins(x.log, db'.drills[e].log)
  <2>1. PICK e \in DOMAIN db.drills : Begins(x.log, db.drills[e].log)
    BY <1>1 DEF Shows
  <2>2. e \in DOMAIN db'.drills /\ Begins(db.drills[e].log, db'.drills[e].log)
    BY CommitGrows DEF Grown
  <2>3. IsSequence(x.log)
    BY <1>1, SeqIsSequence DEF Shows
  <2>4. IsSequence(db.drills[e].log)
    BY SeqIsSequence DEF ServiceInv, RowsOK
  <2>5. IsSequence(db'.drills[e].log)
    <3>1. CASE e = d.id
      <4>1. db'.drills[e] = d
        BY <3>1, CommittedRows
      <4> QED
        BY <4>1
    <3>2. CASE e # d.id
      <4>1. db'.drills[e] = db.drills[e]
        BY <3>2, CommittedRows
      <4> QED
        BY <2>4, <4>1
    <3> QED
      BY <3>1, <3>2
  <2>6. Begins(x.log, db'.drills[e].log)
    BY <2>1, <2>2, <2>3, <2>4, <2>5, BeginsAgain
  <2> QED
    BY <2>2, <2>6
<1>2. \A x, r : Shows(x, r) =>
         /\ DOMAIN x = ResponseFields
         /\ x.log \in Seq(Requests) /\ x.log # << >> /\ x.log[Len(x.log)] = r
         /\ \E e \in DOMAIN db'.drills : Begins(x.log, db'.drills[e].log)
  BY <1>1 DEF Shows
<1>3. /\ DOMAIN mem[c].response = ResponseFields /\ mem[c].response.log = d.log
      /\ d.log \in Seq(Requests) /\ d.log # << >> /\ d.log[Len(d.log)] = req[c]
  BY HeldLog DEF MayCommit, Holds
<1>4. d.id \in DOMAIN db'.drills /\ db'.drills[d.id] = d
  BY CommittedRows
<1>5. Begins(d.log, db'.drills[d.id].log)
  BY <1>4, SelfBegins
<1> QED
  BY <1>2, <1>3, <1>4, <1>5

LEMMA CommitRowsOK ==
    ASSUME NEW c \in Calls, ServiceInv, MayCommit(c), Committed(c)
    PROVE  RowsOK'
<1> DEFINE d == mem[c].drill
           r == req[c]
<1>1. Holds(c) /\ r \in Requests /\ IsSequence(d.log) /\ d.log # << >>
  BY HeldLog DEF MayCommit
<1>2. DOMAIN db' = DbFields
  BY DEF Committed
<1>3. ASSUME NEW e \in DOMAIN db'.drills
      PROVE  /\ DOMAIN db'.drills[e] = {"id", "revision", "log", "dossier"}
             /\ db'.drills[e].id = e
             /\ db'.drills[e].log \in Seq(Requests) /\ db'.drills[e].log # << >>
             /\ IsSequence(db'.events[e])
  <2>1. CASE e = d.id
    <3>1. /\ db'.drills[e] = d
          /\ db'.events[e] = Append(ChainBefore(c), NewEvent(ChainBefore(c), r))
      BY <2>1, CommittedRows
    <3>2. IsSequence(db'.events[e])
      BY <3>1, CommittedChain
    <3>3. /\ DOMAIN d = {"id", "revision", "log", "dossier"} /\ d.log \in Seq(Requests)
      BY <1>1 DEF Holds
    <3> HIDE DEF d
    <3>4. DOMAIN db'.drills[e] = {"id", "revision", "log", "dossier"}
      BY <3>1, <3>3
    <3>5. db'.drills[e].id = e
      BY <2>1, <3>1
    <3>6. db'.drills[e].log \in Seq(Requests) /\ db'.drills[e].log # << >>
      BY <1>1, <3>1, <3>3
    <3> QED
      BY <3>2, <3>4, <3>5, <3>6
  <2>2. CASE e # d.id
    <3>1. DOMAIN db'.drills = DOMAIN db.drills \cup {d.id}
      BY CommittedRows
    <3>2. e \in DOMAIN db.drills
      BY <2>2, <3>1
    <3>3. db'.drills[e] = db.drills[e] /\ db'.events[e] = db.events[e]
      BY <2>2, <3>2, CommittedRows
    <3> QED
      BY <3>2, <3>3 DEF ServiceInv, RowsOK
  <2> QED
    BY <2>1, <2>2
<1>4. db'.dossiers \subseteq DOMAIN db'.drills
  <2>1. DOMAIN db'.drills = DOMAIN db.drills \cup {d.id}
    BY CommittedRows
  <2>2. db.dossiers \subseteq DOMAIN db.drills
    BY DEF ServiceInv, RowsOK
  <2>3. db'.dossiers = IF d.dossier = NoHash THEN db.dossiers ELSE db.dossiers \cup {d.id}
    BY DEF Committed
  <2> QED
    BY <2>1, <2>2, <2>3
<1>5. ASSUME NEW i \in DOMAIN db'.idem
      PROVE  /\ db'.idem[i].request \in Requests /\ db'.idem[i].request.id = i
             /\ Shows(db.idem[i].response, db.idem[i].request)'
  <2>1. CASE i \in DOMAIN db.idem
    <3>1. /\ db'.idem[i] = db.idem[i] /\ db.idem[i].request \in Requests
          /\ db.idem[i].request.id = i /\ Shows(db.idem[i].response, db.idem[i].request)
      BY <2>1, CommittedRows DEF ServiceInv, RowsOK
    <3>2. \A x, y : Shows(x, y) =>
             \E e \in DOMAIN db'.drills : Begins(x.log, db'.drills[e].log)
      BY <1>1, CommitShows
    <3>3. \E e \in DOMAIN db'.drills : Begins(db.idem[i].response.log, db'.drills[e].log)
      BY <3>1, <3>2
    <3> QED
      BY <3>1, <3>3 DEF Shows
  <2>2. CASE i \notin DOMAIN db.idem
    <3>1. i = r.id /\ db'.idem[i] = [request |-> r, response |-> mem[c].response]
      BY <2>2, CommittedRows
    <3>2. db'.idem[i].request = r /\ db'.idem[i].response = mem[c].response
      BY <3>1
    <3>3. /\ DOMAIN mem[c].response = ResponseFields
          /\ mem[c].response.log \in Seq(Requests) /\ mem[c].response.log # << >>
          /\ mem[c].response.log[Len(mem[c].response.log)] = r
          /\ \E e \in DOMAIN db'.drills : Begins(mem[c].response.log, db'.drills[e].log)
      BY <1>1, CommitShows
    <3> QED
      BY <1>1, <3>1, <3>2, <3>3 DEF Shows
  <2> QED
    BY <2>1, <2>2
<1> QED
  BY <1>2, <1>3, <1>4, <1>5 DEF RowsOK

\* A row after a commit is the one written or one that was there before.
LEMMA RowAfter ==
    ASSUME NEW c \in Calls, ServiceInv, MayCommit(c), Committed(c),
           NEW e \in DOMAIN db'.drills
    PROVE  LET d == mem[c].drill
               ch == ChainBefore(c)
           IN  \/ /\ e = d.id /\ db'.drills[e] = d /\ db'.facts[e] = Entries(d.log)
                  /\ db'.events[e] = Append(ch, NewEvent(ch, req[c]))
               \/ /\ e # d.id /\ e \in DOMAIN db.drills /\ db'.drills[e] = db.drills[e]
                  /\ db'.facts[e] = db.facts[e] /\ db'.events[e] = db.events[e]
<1>1. DOMAIN db'.drills = DOMAIN db.drills \cup {mem[c].drill.id}
  BY CommittedRows
<1>2. CASE e = mem[c].drill.id
  BY <1>2, CommittedRows
<1>3. CASE e # mem[c].drill.id
  <2>1. e \in DOMAIN db.drills
    BY <1>1, <1>3
  <2> QED
    BY <1>3, <2>1, CommittedRows
<1> QED
  BY <1>2, <1>3

LEMMA CommitTablesAgree ==
    ASSUME NEW c \in Calls, ServiceInv, MayCommit(c), Committed(c)
    PROVE  TablesAgree'
<1> DEFINE d == mem[c].drill
           r == req[c]
           ch == ChainBefore(c)
           t == Append(ch, NewEvent(ch, r))
<1>1. DOMAIN db'.events = DOMAIN db'.drills /\ DOMAIN db'.facts = DOMAIN db'.drills
  BY CommittedRows
<1>2. db'.dossiers = IF d.dossier = NoHash THEN db.dossiers ELSE db.dossiers \cup {d.id}
  BY DEF Committed
<1>3. Holds(c) /\ r \in Requests
  BY DEF MayCommit
<1>4. d.id \notin db.dossiers
  <2>1. CASE r.op = "create"
    BY <1>3, <2>1 DEF Holds, ServiceInv, RowsOK
  <2>2. CASE r.op # "create"
    BY <1>3, <2>2, WriteFacts DEF MayCommit
  <2> QED
    BY <2>1, <2>2
<1>5. /\ Len(t) = r.expected + 1 /\ VerifyChain(t)
      /\ \A i \in 1..(r.expected + 1) : t[i].content = d.log[i]
  BY CommittedChain
<1>6. DOMAIN d.log = 1..(r.expected + 1) /\ Len(d.log) = r.expected + 1
      /\ d.revision = Len(d.log)
  BY <1>3, HeldLog DEF Holds
<1>7. ASSUME NEW e \in DOMAIN db'.drills
      PROVE  LET row == db'.drills[e] IN
             /\ row.revision = Len(row.log) /\ Len(db'.events[e]) = Len(row.log)
             /\ VerifyChain(db'.events[e])
             /\ \A i \in DOMAIN row.log : db'.events[e][i].content = row.log[i]
             /\ db'.facts[e] = Entries(row.log)
             /\ e \in db'.dossiers <=> row.dossier # NoHash
  <2>1. CASE e = d.id
    <3>1. /\ db'.drills[e] = d /\ db'.facts[e] = Entries(d.log) /\ db'.events[e] = t
      BY <2>1, RowAfter
    <3> HIDE DEF d, t, r
    <3>2. e \in db'.dossiers <=> d.dossier # NoHash
      BY <1>2, <1>4, <2>1
    <3> QED
      BY <1>5, <1>6, <3>1, <3>2
  <2>2. CASE e # d.id
    <3>1. /\ e \in DOMAIN db.drills /\ db'.drills[e] = db.drills[e]
          /\ db'.facts[e] = db.facts[e] /\ db'.events[e] = db.events[e]
      BY <2>2, RowAfter
    <3>2. e \in db'.dossiers <=> e \in db.dossiers
      BY <1>2, <2>2
    <3> QED
      BY <3>1, <3>2 DEF ServiceInv, TablesAgree
  <2> QED
    BY <2>1, <2>2
<1> QED
  BY <1>1, <1>7 DEF TablesAgree

LEMMA CommitNothingOverwritten ==
    ASSUME NEW c \in Calls, ServiceInv, MayCommit(c), Committed(c)
    PROVE  NothingOverwritten'
<1> DEFINE r == req[c]
           ch == ChainBefore(c)
           t == Append(ch, NewEvent(ch, r))
           n == r.expected
<1>1. DOMAIN db'.events = DOMAIN db'.drills
  BY CommittedRows
<1>2. r \in Requests /\ Holds(c) /\ n \in Nat
  BY RequestFacts DEF MayCommit
<1>3. /\ DOMAIN t = 1..(n + 1) /\ Len(ch) = n /\ IsSequence(ch)
      /\ \A i \in 1..n : t[i] = ch[i]
      /\ \A i \in 1..(n + 1) : t[i].content = mem[c].drill.log[i]
  BY CommittedChain
<1>4. mem[c].drill.log[n + 1] = r
  BY <1>2, HeldLog
<1>5. \A i \in 1..n : ch[i].content.expected = i - 1
  <2>1. CASE r.op = "create"
    BY <1>2, <2>1, RequestFacts
  <2>2. CASE r.op # "create"
    <3>1. ch = db.events[mem[c].drill.id] /\ mem[c].drill.id \in DOMAIN db.events
      BY <1>2, <2>2 DEF ChainBefore, Holds, ServiceInv, TablesAgree
    <3>2. DOMAIN ch = 1..n
      <4> HIDE DEF ch, n
      <4> QED
        BY <1>3 DEF IsSequence
    <3> QED
      BY <3>1, <3>2 DEF ServiceInv, NothingOverwritten
  <2> QED
    BY <2>1, <2>2
<1>6. ASSUME NEW e \in DOMAIN db'.events, NEW i \in DOMAIN db'.events[e]
      PROVE  db'.events[e][i].content.expected = i - 1
  <2>1. CASE e = mem[c].drill.id
    <3>1. db'.events[e] = t
      BY <1>1, <2>1, RowAfter
    <3> HIDE DEF t, ch, n, r
    <3>2. CASE i \in 1..n
      BY <1>3, <1>5, <3>1, <3>2
    <3>3. CASE i = n + 1
      <4>1. r.expected = n
        BY DEF n
      <4> QED
        BY <1>2, <1>3, <1>4, <3>1, <3>3, <4>1
    <3> QED
      BY <1>2, <1>3, <3>1, <3>2, <3>3
  <2>2. CASE e # mem[c].drill.id
    <3>1. e \in DOMAIN db.drills /\ db'.events[e] = db.events[e]
      BY <1>1, <2>2, RowAfter
    <3> QED
      BY <3>1 DEF ServiceInv, NothingOverwritten, TablesAgree
  <2> QED
    BY <2>1, <2>2
<1> QED
  BY <1>6 DEF NothingOverwritten

LEMMA CommitDossierHead ==
    ASSUME NEW c \in Calls, ServiceInv, MayCommit(c), Committed(c)
    PROVE  DossierHeadIsExact'
<1> DEFINE d == mem[c].drill
           r == req[c]
           ch == ChainBefore(c)
           t == Append(ch, NewEvent(ch, r))
<1>1. ASSUME NEW e \in DOMAIN db'.drills, db'.drills[e].dossier # NoHash
      PROVE  /\ db'.drills[e].revision > 1
             /\ db'.drills[e].dossier = db'.events[e][db'.drills[e].revision - 1].hash
  <2>1. CASE e = d.id
    <3>1. db'.drills[e] = d /\ db'.events[e] = t
      BY <2>1, RowAfter
    <3>2. Holds(c) /\ r \in Requests /\ HasDossier(c) /\ d.revision = r.expected + 1
      BY <1>1, <3>1 DEF MayCommit, Holds
    <3>3. r.op # "create" /\ r.expected \in Nat /\ r.expected > 0
      BY <3>2, RequestFacts DEF HasDossier
    <3>4. d.dossier = db.events[d.id][r.expected].hash
      BY <3>2, <3>3, WriteFacts DEF MayCommit
    <3>5. t[r.expected] = ch[r.expected] /\ ch = db.events[d.id]
      BY <3>3, CommittedChain DEF ChainBefore
    <3> HIDE DEF d, t, ch, r
    <3> QED
      BY <3>1, <3>2, <3>3, <3>4, <3>5
  <2>2. CASE e # d.id
    <3>1. /\ e \in DOMAIN db.drills /\ db'.drills[e] = db.drills[e]
          /\ db'.events[e] = db.events[e]
      BY <2>2, RowAfter
    <3> QED
      BY <1>1, <3>1 DEF ServiceInv, DossierHeadIsExact
  <2> QED
    BY <2>1, <2>2
<1> QED
  BY <1>1 DEF DossierHeadIsExact

\* The requests in the logs after a commit: those that were there, each where it
\* was, and the one committed, at the end of the drill it wrote.
LEMMA CommittedRequests ==
    ASSUME NEW c \in Calls, ServiceInv, MayCommit(c), Committed(c),
           NEW e \in DOMAIN db'.drills, NEW i \in DOMAIN db'.drills[e].log
    PROVE  \/ /\ e = mem[c].drill.id /\ i = req[c].expected + 1
              /\ db'.drills[e].log[i] = req[c]
           \/ /\ e \in DOMAIN db.drills /\ i \in DOMAIN db.drills[e].log
              /\ db'.drills[e].log[i] = db.drills[e].log[i]
              /\ db.drills[e].log[i].id \in DOMAIN db.idem
<1> DEFINE d == mem[c].drill
           r == req[c]
<1>1. \A x \in DOMAIN db.drills : \A j \in DOMAIN db.drills[x].log :
         db.drills[x].log[j].id \in DOMAIN db.idem
  BY DEF ServiceInv, AppliedAtMostOnce, Entries
<1>2. Holds(c) /\ r \in Requests /\ r.expected \in Nat
  BY RequestFacts DEF MayCommit
<1>3. DOMAIN d.log = 1..(r.expected + 1) /\ d.log[r.expected + 1] = r
  BY <1>2, HeldLog
<1>4. CASE e = d.id
  <2>1. db'.drills[e] = d
    BY <1>4, RowAfter
  <2>2. i \in 1..r.expected \/ i = r.expected + 1
    BY <1>2, <1>3, <2>1
  <2>3. CASE i = r.expected + 1
    BY <1>3, <1>4, <2>1, <2>3
  <2>4. CASE i \in 1..r.expected
    <3>1. r.op # "create"
      BY <1>2, <2>4, RequestFacts
    <3>2. /\ e \in DOMAIN db.drills /\ DOMAIN db.drills[e].log = 1..r.expected
          /\ db.drills[e].log[i] = d.log[i]
      BY <1>2, <1>4, <2>4, <3>1, WriteFacts DEF MayCommit
    <3> QED
      BY <1>1, <2>1, <2>4, <3>2
  <2> QED
    BY <2>2, <2>3, <2>4
<1>5. CASE e # d.id
  <2>1. e \in DOMAIN db.drills /\ db'.drills[e] = db.drills[e]
    BY <1>5, RowAfter
  <2> QED
    BY <1>1, <2>1
<1> QED
  BY <1>4, <1>5

LEMMA CommitAppliedAtMostOnce ==
    ASSUME NEW c \in Calls, ServiceInv, MayCommit(c), Committed(c)
    PROVE  AppliedAtMostOnce'
<1> DEFINE d == mem[c].drill
           r == req[c]
           ids == UNION {{x.id : x \in Entries(db.drills[e].log)} : e \in DOMAIN db.drills}
<1>1. r.id \notin DOMAIN db.idem /\ Holds(c) /\ r \in Requests /\ ids = DOMAIN db.idem
  BY DEF MayCommit, ServiceInv, AppliedAtMostOnce
<1>2. ASSUME NEW e \in DOMAIN db'.drills, NEW a \in DOMAIN db'.drills,
             NEW i \in DOMAIN db'.drills[e].log, NEW j \in DOMAIN db'.drills[a].log,
             db'.drills[e].log[i].id = db'.drills[a].log[j].id
      PROVE  e = a /\ i = j
  <2> DEFINE x == db'.drills[e].log[i]
             y == db'.drills[a].log[j]
  <2>1. \/ e = d.id /\ i = r.expected + 1 /\ x = r
        \/ /\ e \in DOMAIN db.drills /\ i \in DOMAIN db.drills[e].log
           /\ x = db.drills[e].log[i] /\ x.id \in DOMAIN db.idem
    BY CommittedRequests
  <2>2. \/ a = d.id /\ j = r.expected + 1 /\ y = r
        \/ /\ a \in DOMAIN db.drills /\ j \in DOMAIN db.drills[a].log
           /\ y = db.drills[a].log[j] /\ y.id \in DOMAIN db.idem
    BY CommittedRequests
  <2>3. x.id = y.id
    BY <1>2
  <2> HIDE DEF x, y, d, r
  <2>4. CASE x = r
    BY <1>1, <2>1, <2>2, <2>3, <2>4
  <2>5. CASE x # r
    <3>1. /\ e \in DOMAIN db.drills /\ i \in DOMAIN db.drills[e].log
          /\ x = db.drills[e].log[i] /\ x.id \in DOMAIN db.idem
      BY <2>1, <2>5
    <3>2. /\ a \in DOMAIN db.drills /\ j \in DOMAIN db.drills[a].log
          /\ y = db.drills[a].log[j]
      BY <1>1, <2>2, <2>3, <3>1
    <3> QED
      BY <2>3, <3>1, <3>2 DEF ServiceInv, AppliedAtMostOnce
  <2> QED
    BY <2>4, <2>5
<1>3. DOMAIN db'.idem = DOMAIN db.idem \cup {r.id}
  BY CommittedRows
<1>4. ASSUME NEW e \in DOMAIN db'.drills, NEW i \in DOMAIN db'.drills[e].log
      PROVE  db'.drills[e].log[i].id \in DOMAIN db'.idem
  BY <1>3, CommittedRequests
<1>5. ASSUME NEW k \in DOMAIN db'.idem
      PROVE  \E e \in DOMAIN db'.drills : \E i \in DOMAIN db'.drills[e].log :
                db'.drills[e].log[i].id = k
  <2>1. CASE k = r.id
    <3>1. d.id \in DOMAIN db'.drills /\ db'.drills[d.id] = d
      BY CommittedRows
    <3>2. r.expected + 1 \in DOMAIN d.log /\ d.log[r.expected + 1] = r
      BY <1>1, HeldLog
    <3> QED
      BY <2>1, <3>1, <3>2
  <2>2. CASE k # r.id
    <3>1. k \in ids
      BY <1>1, <1>3, <2>2
    <3>2. PICK e \in DOMAIN db.drills : \E i \in DOMAIN db.drills[e].log :
             db.drills[e].log[i].id = k
      BY <3>1 DEF Entries
    <3>3. PICK i \in DOMAIN db.drills[e].log : db.drills[e].log[i].id = k
      BY <3>2
    <3>4. e \in DOMAIN db'.drills /\ Begins(db.drills[e].log, db'.drills[e].log)
      BY CommitGrows DEF Grown
    <3>5. IsSequence(db.drills[e].log)
      BY SeqIsSequence DEF ServiceInv, RowsOK
    <3>6. IsSequence(db'.drills[e].log)
      <4>1. CASE e = d.id
        <5>1. db'.drills[e] = d /\ IsSequence(d.log)
          BY <1>1, <3>4, <4>1, RowAfter, HeldLog
        <5> QED
          BY <5>1
      <4>2. CASE e # d.id
        BY <3>4, <3>5, <4>2, RowAfter
      <4> QED
        BY <4>1, <4>2
    <3>7. /\ Len(db.drills[e].log) <= Len(db'.drills[e].log)
          /\ \A j \in 1..Len(db.drills[e].log) : db.drills[e].log[j] = db'.drills[e].log[j]
      BY <3>4, <3>5, <3>6, BeginsElements
    <3>8. i \in DOMAIN db'.drills[e].log /\ db'.drills[e].log[i] = db.drills[e].log[i]
      <4> DEFINE u == db.drills[e].log
                 v == db'.drills[e].log
      <4>1. IsSequence(u) /\ IsSequence(v) /\ i \in DOMAIN u
        BY <3>5, <3>6
      <4>2. Len(u) <= Len(v) /\ \A j \in 1..Len(u) : u[j] = v[j]
        BY <3>7
      <4> HIDE DEF u, v
      <4>3. /\ Len(u) \in Nat /\ DOMAIN u = 1..Len(u)
            /\ Len(v) \in Nat /\ DOMAIN v = 1..Len(v)
        BY <4>1 DEF IsSequence
      <4>4. i \in DOMAIN v /\ v[i] = u[i]
        BY <4>1, <4>2, <4>3
      <4> QED
        BY <4>4 DEF u, v
    <3> QED
      BY <3>3, <3>4, <3>8
  <2> QED
    BY <2>1, <2>2
<1>6. UNION {{x.id : x \in Entries(db'.drills[e].log)} : e \in DOMAIN db'.drills}
        = DOMAIN db'.idem
  BY <1>4, <1>5 DEF Entries
<1> QED
  BY <1>2, <1>6 DEF AppliedAtMostOnce

LEMMA CommitCallsOK ==
    ASSUME NEW c \in Calls, ServiceInv, MayCommit(c), Committed(c),
           UNCHANGED <<req, mem>>, pc' = [pc EXCEPT ![c] = "reply"]
    PROVE  CallsOK'
<1> DEFINE d == mem[c].drill
           r == req[c]
<1>1. DOMAIN db'.drills = DOMAIN db.drills \cup {d.id}
  BY CommittedRows
<1>2. r \in Requests /\ Holds(c) /\ r.expected \in Nat
  BY RequestFacts DEF MayCommit
<1>3. ASSUME NEW o \in Calls, pc'[o] \in Holding
      PROVE  Holds(o)'
  <2> DEFINE h == mem[o].drill
             q == req[o]
             row == db.drills[h.id]
             row2 == db'.drills[h.id]
  <2>1. o # c /\ pc'[o] = pc[o] /\ Holds(o) /\ q \in Requests
    BY <1>3 DEF ServiceInv, TypeOK, CallsOK, Holding, TxPlaces
  <2>2. HasDossier(o)' <=> HasDossier(o)
    BY <2>1 DEF HasDossier
  <2>3. q.op = "create" => h.id \notin DOMAIN db'.drills
    <3>1. CASE q.op = "create"
      <4>1. h.id \notin DOMAIN db.drills /\ h.id \in DrillIds
        BY <2>1, <3>1 DEF Holds
      <4>2. h.id # d.id
        BY <2>1, <4>1, NoneAssumption DEF ServiceInv, CallsOK
      <4> QED
        BY <1>1, <4>1, <4>2
    <3> QED
      BY <3>1
  <2>4. ASSUME q.op # "create"
        PROVE  /\ h.id = q.drill /\ h.id \in DOMAIN db'.drills
               /\ \A i \in 1..q.expected : i \in DOMAIN row2.log /\ row2.log[i] = h.log[i]
               /\ row2.revision = q.expected =>
                     /\ row2.dossier = NoHash
                     /\ HasDossier(o)' => h.dossier = db'.events[h.id][q.expected].hash
    <3>1. /\ h.id = q.drill /\ h.id \in DOMAIN db.drills
          /\ \A i \in 1..q.expected : i \in DOMAIN row.log /\ row.log[i] = h.log[i]
          /\ row.revision = q.expected =>
                /\ row.dossier = NoHash
                /\ HasDossier(o) => h.dossier = db.events[h.id][q.expected].hash
      BY <2>1, <2>4 DEF Holds
    <3>2. CASE h.id # d.id
      <4>1. row2 = row /\ db'.events[h.id] = db.events[h.id] /\ h.id \in DOMAIN db'.drills
        BY <1>1, <3>1, <3>2, CommittedRows
      <4> QED
        BY <2>2, <3>1, <4>1
    <3>3. CASE h.id = d.id
      <4>1. row2 = d
        BY <3>3, CommittedRows
      <4>2. r.op # "create"
        BY <1>2, <3>1, <3>3 DEF Holds
      <4>3. /\ DOMAIN row.log = 1..r.expected
            /\ \A i \in 1..r.expected : row.log[i] = d.log[i]
        BY <1>2, <3>3, <4>2, WriteFacts DEF MayCommit
      <4>4. DOMAIN d.log = 1..(r.expected + 1) /\ d.revision = r.expected + 1
        BY <1>2, HeldLog DEF Holds
      <4>5. q.expected \in Nat /\ q.expected > 0
        BY <2>1, <2>4, RequestFacts
      <4>6. \A i \in 1..q.expected : i \in 1..r.expected
        BY <3>1, <4>3
      <4>7. \A i \in 1..q.expected : i \in DOMAIN row2.log /\ row2.log[i] = h.log[i]
        BY <1>2, <3>1, <4>1, <4>3, <4>4, <4>6
      <4>8. q.expected \in 1..q.expected
        BY <4>5
      <4>9. row2.revision # q.expected
        BY <1>2, <4>1, <4>4, <4>5, <4>6, <4>8
      <4>10. h.id \in DOMAIN db'.drills
        BY <1>1, <3>1
      <4> QED
        BY <3>1, <4>7, <4>9, <4>10
    <3> QED
      BY <3>2, <3>3
  <2>5. mem'[o] = mem[o] /\ req'[o] = req[o]
    OBVIOUS
  <2>6. /\ DOMAIN h = {"id", "revision", "log", "dossier"} /\ h.id \in DrillIds
        /\ h.log \in Seq(Requests) /\ h.revision = Len(h.log)
        /\ Len(h.log) = q.expected + 1 /\ h.log[Len(h.log)] = q
        /\ DOMAIN mem[o].response = ResponseFields /\ mem[o].response.log = h.log
        /\ h.dossier # NoHash <=> HasDossier(o)
        /\ pc[o] = "timeline" => q.op = "approve"
    BY <2>1 DEF Holds
  <2> HIDE DEF h, q
  <2> QED
    BY <2>1, <2>2, <2>3, <2>4, <2>5, <2>6 DEF Holds, h, q
<1>4. ASSUME NEW a \in Calls, NEW o \in Calls, a # o,
             mem[a].drill.id = mem[o].drill.id, mem[a].drill.id # None
      PROVE  mem[a].drill.id \in DOMAIN db'.drills
  BY <1>1, <1>4 DEF ServiceInv, CallsOK
<1> QED
  BY <1>3, <1>4 DEF CallsOK

LEMMA TxCommitInv ==
    ASSUME NEW c \in Calls, ServiceInv, TxCommit(c)
    PROVE  ServiceInv'
<1>1. MayCommit(c) /\ Committed(c)
  BY CommitFacts
<1>2. /\ pc' = [pc EXCEPT ![c] = "reply"] /\ UNCHANGED <<server, stops, expired, req, mem>>
      /\ tx' = NoTx /\ outcome' = [outcome EXCEPT ![c] = Answer("ok", mem[c].response)]
      /\ pc[c] = "tx_commit"
  BY DEF TxCommit, EndTx, Finish
<1>3. DbInv'
  BY <1>1, CommitRowsOK, CommitTablesAgree, CommitAppliedAtMostOnce, CommitNothingOverwritten,
     CommitDossierHead DEF DbInv
<1>4. CallsOK'
  BY <1>1, <1>2, CommitCallsOK
<1>5. IsSequence(mem[c].drill.log) /\ Holds(c) /\ req[c] \in Requests
  BY <1>1, HeldLog DEF MayCommit
<1>6. AnswersOK'
  <2>1. ASSUME NEW x, NEW r, Shows(x, r)
        PROVE  /\ DOMAIN x = ResponseFields
               /\ x.log \in Seq(Requests) /\ x.log # << >> /\ x.log[Len(x.log)] = r
               /\ \E e \in DOMAIN db'.drills : Begins(x.log, db'.drills[e].log)
    BY <1>1, <1>5, <2>1, CommitShows
  <2>2. ASSUME NEW o \in Calls, outcome'[o].kind \in {"ok", "replayed"}
        PROVE  Shows(outcome[o].response, req[o])'
    <3>1. CASE o = c
      <4>1. outcome'[o].response = mem[c].response /\ req'[o] = req[c]
        BY <1>2, <3>1 DEF Answer, ServiceInv, TypeOK
      <4>2. /\ DOMAIN mem[c].response = ResponseFields
            /\ mem[c].response.log \in Seq(Requests) /\ mem[c].response.log # << >>
            /\ mem[c].response.log[Len(mem[c].response.log)] = req[c]
            /\ \E e \in DOMAIN db'.drills : Begins(mem[c].response.log, db'.drills[e].log)
        BY <1>1, <1>5, CommitShows
      <4> QED
        BY <4>1, <4>2 DEF Shows
    <3>2. CASE o # c
      <4>1. outcome'[o] = outcome[o] /\ req'[o] = req[o]
        BY <1>2, <3>2 DEF ServiceInv, TypeOK
      <4>2. Shows(outcome[o].response, req[o])
        BY <2>2, <4>1 DEF ServiceInv, AnswersOK
      <4> QED
        BY <2>1, <4>1, <4>2 DEF Shows
    <3> QED
      BY <3>1, <3>2
  <2>3. ASSUME NEW o \in Calls, pc'[o] = "idle" PROVE outcome'[o] = Unanswered
    BY <1>2, <2>3 DEF ServiceInv, TypeOK, AnswersOK
  <2> QED
    BY <2>2, <2>3 DEF AnswersOK
<1>7. TypeOK'
  <2>1. pc' \in [Calls -> Places] /\ \A o \in Calls : pc'[o] \notin TxPlaces
    <3>1. pc[c] \in TxPlaces /\ "reply" \in Places /\ "reply" \notin TxPlaces
      BY <1>2 DEF Places, TxPlaces
    <3> QED
      BY <1>2, <3>1, TxOwner DEF ServiceInv, TypeOK
  <2>2. {o \in Calls : pc'[o] \in TxPlaces} = IF tx' = NoTx THEN {} ELSE {tx'.call}
    BY <1>2, <2>1
  <2>3. \A o \in Calls : pc'[o] # "idle" => req'[o] \in Requests
    BY <1>2 DEF ServiceInv, TypeOK
  <2>4. expired' \in BOOLEAN
    BY <1>2, Zenon DEF ServiceInv, TypeOK
  <2>5. DOMAIN db'.drills \subseteq DrillIds
    <3>1. DOMAIN db'.drills = DOMAIN db.drills \cup {mem[c].drill.id}
      BY <1>1, CommittedRows
    <3> QED
      BY <1>5, <3>1 DEF Holds, ServiceInv, TypeOK
  <2>6. DOMAIN db'.idem \subseteq RequestIds
    <3>1. DOMAIN db'.idem = DOMAIN db.idem \cup {req[c].id}
      BY <1>1, CommittedRows
    <3> QED
      BY <1>5, <3>1, RequestFacts DEF ServiceInv, TypeOK
  <2>7. DOMAIN req' = Calls /\ DOMAIN mem' = Calls /\ DOMAIN outcome' = Calls
    BY <1>2 DEF ServiceInv, TypeOK
  <2>8. server' \in {"up", "draining", "down"} /\ stops' \in 0..MaxStops
    BY <1>2 DEF ServiceInv, TypeOK
  <2> QED
    BY <2>1, <2>2, <2>3, <2>4, <2>5, <2>6, <2>7, <2>8 DEF TypeOK
<1>8. TxOK'
  BY <1>2 DEF TxOK
<1> QED
  BY <1>3, <1>4, <1>6, <1>7, <1>8 DEF ServiceInv, DbInv

-----------------------------------------------------------------------------
(* What happens to the process.                                            *)

\* The parts of the invariant that do not look at the process.
LEMMA ProcessStep ==
    ASSUME ServiceInv, UNCHANGED <<db, req, mem, outcome>>,
           server' \in {"up", "draining", "down"}, stops' \in 0..MaxStops,
           expired' \in BOOLEAN,
           UNCHANGED <<tx, pc>> \/ Die
    PROVE  ServiceInv'
<1>1. DbInv'
  BY DbKept DEF ServiceInv, DbInv
<1>2. CASE UNCHANGED <<tx, pc>>
  <2>1. CallsOK'
    BY <1>2 DEF ServiceInv, CallsOK, Holds, HasDossier
  <2>2. TxOK'
    BY <1>2 DEF ServiceInv, TxOK, TxSees, ReplayChecked, DrillStored, FactsStored,
                EventStored, IdemStored, ChainBefore
  <2>3. AnswersOK'
    BY <1>2 DEF ServiceInv, AnswersOK, Shows
  <2>4. TypeOK'
    BY <1>2 DEF ServiceInv, TypeOK
  <2> QED
    BY <1>1, <2>1, <2>2, <2>3, <2>4 DEF ServiceInv, DbInv
<1>3. CASE Die
  <2>1. pc' = [c \in Calls |-> IF c \in Running THEN "lost" ELSE pc[c]] /\ tx' = NoTx
    BY <1>3 DEF Die
  <2>2. \A c \in Calls : /\ pc'[c] \in {"idle", "done", "lost"}
                         /\ pc'[c] = "idle" <=> pc[c] = "idle"
    BY <2>1 DEF Running, ServiceInv, TypeOK
  <2>3. \A c \in Calls : pc'[c] \notin Holding /\ pc'[c] \notin TxPlaces
    BY <2>2 DEF Holding, TxPlaces
  <2>4. CallsOK'
    BY <2>3 DEF ServiceInv, CallsOK
  <2>5. TxOK'
    BY <2>1 DEF TxOK
  <2>6. AnswersOK'
    BY <2>2 DEF ServiceInv, AnswersOK, Shows
  <2>7. TypeOK'
    <3>1. pc' \in [Calls -> Places]
      BY <2>1 DEF ServiceInv, TypeOK, Places
    <3>2. {c \in Calls : pc'[c] \in TxPlaces} = IF tx' = NoTx THEN {} ELSE {tx'.call}
      BY <2>1, <2>3
    <3> QED
      BY <2>2, <3>1, <3>2 DEF ServiceInv, TypeOK
  <2> QED
    BY <1>1, <2>4, <2>5, <2>6, <2>7 DEF ServiceInv, DbInv
<1> QED
  BY <1>2, <1>3

LEMMA ProcessInv ==
    ASSUME ServiceInv, Expire \/ Signal \/ Drained \/ Crash \/ DrainTimeout \/ Open
    PROVE  ServiceInv'
<1>1. /\ stops \in 0..MaxStops /\ server \in {"up", "draining", "down"}
  BY DEF ServiceInv, TypeOK
<1>2. expired \in BOOLEAN
  BY Zenon DEF ServiceInv, TypeOK
<1>3. ASSUME stops < MaxStops PROVE stops + 1 \in 0..MaxStops
  BY <1>1, <1>3, StopsAssumption
<1>4. CASE Expire
  <2>1. expired' \in BOOLEAN
    BY <1>4, Zenon DEF Expire
  <2> QED
    BY <1>1, <1>4, <2>1, ProcessStep DEF Expire
<1>5. CASE Signal
  <2>1. expired' \in BOOLEAN
    BY <1>2, <1>5, Zenon DEF Signal
  <2> QED
    BY <1>1, <1>3, <1>5, <2>1, ProcessStep DEF Signal
<1>6. CASE Drained
  <2>1. expired' \in BOOLEAN
    BY <1>2, <1>6, Zenon DEF Drained
  <2> QED
    BY <1>1, <1>6, <2>1, ProcessStep DEF Drained
<1>7. CASE Crash
  <2>1. expired' \in BOOLEAN
    BY <1>2, <1>7, Zenon DEF Crash, Die
  <2>2. Die /\ server' = "down" /\ UNCHANGED <<db, req, mem, outcome>>
    BY <1>7 DEF Crash, Die
  <2>3. stops' \in 0..MaxStops
    BY <1>3, <1>7 DEF Crash
  <2> QED
    BY <2>1, <2>2, <2>3, ProcessStep
<1>8. CASE DrainTimeout
  <2>1. expired' \in BOOLEAN
    BY <1>2, <1>8, Zenon DEF DrainTimeout, Die
  <2>2. Die /\ server' = "down" /\ UNCHANGED <<db, req, mem, outcome>>
    BY <1>8 DEF DrainTimeout, Die
  <2>3. stops' \in 0..MaxStops
    BY <1>1, <1>8 DEF DrainTimeout
  <2> QED
    BY <2>1, <2>2, <2>3, ProcessStep
<1>9. CASE Open
  <2>1. expired' \in BOOLEAN
    BY <1>2, <1>9, Zenon DEF Open
  <2> QED
    BY <1>1, <1>9, <2>1, ProcessStep DEF Open
<1> QED
  BY <1>4, <1>5, <1>6, <1>7, <1>8, <1>9

\* Every step keeps the invariant.
LEMMA NextInv == ServiceInv /\ [Next]_vars => ServiceInv'
<1> SUFFICES ASSUME ServiceInv, [Next]_vars PROVE ServiceInv'
  OBVIOUS
<1>1. ASSUME NEW c \in Calls, NEW r \in Requests, Arrive(c, r) PROVE ServiceInv'
  BY <1>1, ArriveInv
<1>2. ASSUME NEW c \in Calls, Step(c) \/ Fail(c) \/ Drop(c) PROVE ServiceInv'
  BY <1>2, ReplayInv, CreateInv, LoadInv, TimelineInv, BeginInv, TxReplayInv, TxDrillInv,
     TxFactsInv, TxEventInv, TxIdemInv, TxCommitInv, LeaveInv, FailInv DEF Step
<1>3. CASE UNCHANGED vars
  <2>1. expired' \in BOOLEAN
    BY <1>3, Zenon DEF ServiceInv, TypeOK, vars
  <2> QED
    BY <1>3, <2>1, ProcessStep DEF vars, ServiceInv, TypeOK
<1>4. CASE Expire \/ Signal \/ Drained \/ Crash \/ DrainTimeout \/ Open
  BY <1>4, ProcessInv
<1> QED
  BY <1>1, <1>2, <1>3, <1>4 DEF Next

-----------------------------------------------------------------------------
(* What follows.                                                           *)

THEOREM ServiceInvariant == Spec => []ServiceInv
<1> QED
  BY InitInv, NextInv, PTL DEF Spec

\* One call at a time is inside a transaction, and every value has its type.
THEOREM OneTransaction == Spec => []TypeOK
<1>1. ServiceInv => TypeOK
  BY DEF ServiceInv
<1> QED
  BY <1>1, ServiceInvariant, PTL

\* Rows, facts, dossiers and verified chains say the same of every drill.
THEOREM TablesStayConsistent == Spec => []TablesAgree
<1>1. ServiceInv => TablesAgree
  BY DEF ServiceInv
<1> QED
  BY <1>1, ServiceInvariant, PTL

\* A request id changes the data at most once, however often it arrives.
THEOREM RetriesAreIdempotent == Spec => []AppliedAtMostOnce
<1>1. ServiceInv => AppliedAtMostOnce
  BY DEF ServiceInv
<1> QED
  BY <1>1, ServiceInvariant, PTL

\* No write lands on a revision its author did not see.
THEOREM NoLostUpdate == Spec => []NothingOverwritten
<1>1. ServiceInv => NothingOverwritten
  BY DEF ServiceInv
<1> QED
  BY <1>1, ServiceInvariant, PTL

\* A dossier names the event just before its approval.
THEOREM DossierHead == Spec => []DossierHeadIsExact
<1>1. ServiceInv => DossierHeadIsExact
  BY DEF ServiceInv
<1> QED
  BY <1>1, ServiceInvariant, PTL

\* What was answered with success is in the database.
THEOREM SuccessStays == Spec => []SuccessIsDurable
<1>1. ServiceInv => SuccessIsDurable
  BY DEF ServiceInv, AnswersOK, Shows, SuccessIsDurable
<1> QED
  BY <1>1, ServiceInvariant, PTL

\* Only a commit changes the database.
LEMMA OnlyCommitWrites ==
    ASSUME [Next]_vars
    PROVE  db' = db \/ \E c \in Calls : TxCommit(c)
<1>1. ASSUME NEW c \in Calls, Step(c), ~TxCommit(c) PROVE db' = db
  BY <1>1 DEF Step, Replay, Create, Load, Timeline, Begin, TxReplay, TxDrill, TxFacts,
              TxEvent, TxIdem, Reply
<1>2. ASSUME NEW c \in Calls, NEW r \in Requests, Arrive(c, r) PROVE db' = db
  BY <1>2 DEF Arrive
<1>3. ASSUME NEW c \in Calls, Fail(c) \/ Drop(c) PROVE db' = db
  BY <1>3 DEF Fail, Drop
<1>4. ASSUME Expire \/ Signal \/ Drained \/ Crash \/ DrainTimeout \/ Open PROVE db' = db
  BY <1>4 DEF Expire, Signal, Drained, Crash, DrainTimeout, Open, Die
<1> QED
  BY <1>1, <1>2, <1>3, <1>4 DEF Next, vars

\* What a commit keeps.
LEMMA CommitKeeps ==
    ASSUME NEW c \in Calls, ServiceInv, TxCommit(c)
    PROVE  KeepsCommitted
<1>1. MayCommit(c) /\ Committed(c)
  BY CommitFacts
<1>2. DOMAIN db.events = DOMAIN db.drills /\ DOMAIN db'.events = DOMAIN db'.drills
  BY <1>1, CommittedRows DEF ServiceInv, TablesAgree
<1>3. \A e \in DOMAIN db.drills : Grown(e)
  BY <1>1, CommitGrows
<1>4. \A i \in DOMAIN db.idem : db'.idem[i] = db.idem[i]
  BY <1>1, CommittedRows
<1>5. DOMAIN db'.idem = DOMAIN db.idem \cup {req[c].id}
  BY <1>1, CommittedRows
<1> QED
  BY <1>2, <1>3, <1>4, <1>5 DEF KeepsCommitted, Grown

\* Committed chains, responses and certificates survive every step.
THEOREM CommittedStays == Spec => CommittedIsForGood
<1>1. ServiceInv /\ [Next]_vars => [KeepsCommitted]_db
  <2> SUFFICES ASSUME ServiceInv, [Next]_vars, db' # db PROVE KeepsCommitted
    OBVIOUS
  <2>1. PICK c \in Calls : TxCommit(c)
    BY OnlyCommitWrites
  <2> QED
    BY <2>1, CommitKeeps
<1> QED
  BY <1>1, ServiceInvariant, PTL DEF Spec, CommittedIsForGood

-----------------------------------------------------------------------------
(* The abstract log is implemented.                                        *)

logs == [d \in DOMAIN db.drills |-> db.drills[d].log]

used == DOMAIN db.idem

final == {d \in DOMAIN db.drills : db.drills[d].dossier # NoHash}

\* The database before the first call is one of the log's.
LEMMA LogInit == Init => Log!Init
<1> SUFFICES ASSUME Init PROVE Log!Init
  OBVIOUS
<1>1. CASE db = EmptyDB
  <2>1. DOMAIN db.drills = {} /\ DOMAIN db.idem = {}
    BY <1>1 DEF EmptyDB
  <2>2. logs = << >> /\ used = {} /\ final = {}
    BY <2>1 DEF logs, used, final
  <2> QED
    BY <2>2 DEF Log!Init, logs, used, final
<1>2. ASSUME NEW r \in Requests, NEW id \in DrillIds, r.op = "create", db = CreatedDB(id, r)
      PROVE  Log!Init
  <2>1. /\ DOMAIN db.drills = {id} /\ db.drills[id] = Created(id, r) /\ DOMAIN db.idem = {r.id}
    BY <1>2 DEF CreatedDB
  <2>2. db.drills[id].log = <<r>> /\ db.drills[id].dossier = NoHash
    BY <2>1 DEF Created
  <2>3. logs = [x \in {id} |-> <<r>>] /\ used = {r.id} /\ final = {}
    BY <2>1, <2>2 DEF logs, used, final
  <2> QED
    BY <1>2, <2>3 DEF Log!Init, logs, used, final
<1> QED
  BY <1>1, <1>2 DEF Init

\* A commit takes effect at once, as a creation or as a write at the revision
\* the request names.
LEMMA CommitIsLogStep ==
    ASSUME NEW c \in Calls, ServiceInv, TxCommit(c)
    PROVE  Log!Next
<1> DEFINE d == mem[c].drill
           r == req[c]
<1>1. MayCommit(c) /\ Committed(c)
  BY CommitFacts
<1>2. /\ Holds(c) /\ r \in Requests /\ r.id \notin DOMAIN db.idem /\ d.id \in DrillIds
      /\ d.dossier # NoHash <=> r.op = "approve"
  BY <1>1 DEF MayCommit, Holds, HasDossier
<1>3. used' = used \cup {r.id}
  BY <1>1, CommittedRows DEF used
<1>4. /\ DOMAIN db'.drills = DOMAIN db.drills \cup {d.id} /\ db'.drills[d.id] = d
      /\ \A e \in DOMAIN db.drills : e # d.id => db'.drills[e] = db.drills[e]
  <2>1. DOMAIN db'.drills = DOMAIN db.drills \cup {d.id}
    BY <1>1, CommittedRows
  <2>2. db'.drills[d.id] = d
    BY <1>1, CommittedRows
  <2>3. \A e \in DOMAIN db.drills : e # d.id => db'.drills[e] = db.drills[e]
    BY <1>1, CommittedRows
  <2> QED
    BY <2>1, <2>2, <2>3
<1>5. /\ d.log \in Seq(Requests) /\ r.expected \in Nat /\ IsSequence(d.log)
      /\ Len(d.log) = r.expected + 1 /\ d.log[r.expected + 1] = r
  BY <1>2, HeldLog
<1>6. logs' = [x \in DOMAIN logs \cup {d.id} |-> IF x = d.id THEN d.log ELSE logs[x]]
  BY <1>4 DEF logs
<1>7. DOMAIN logs = DOMAIN db.drills
  BY DEF logs
<1> PICK id \in DrillIds, q \in Requests : id = d.id /\ q = r
  BY <1>2
<1>8. CASE r.op = "create"
  <2>1. d.id \notin DOMAIN db.drills /\ r.expected = 0
    BY <1>2, <1>8, RequestFacts DEF Holds
  <2>2. d.log = <<r>>
    <3> DEFINE s == d.log
    <3>1. s \in Seq(Requests) /\ Len(s) = 1 /\ s[1] = r
      BY <1>5, <2>1
    <3> HIDE DEF s
    <3>2. s = <<r>>
      BY <3>1
    <3> QED
      BY <3>2 DEF s
  <2>3. logs' = [x \in DOMAIN logs \cup {d.id} |-> IF x = d.id THEN <<r>> ELSE logs[x]]
    BY <1>6, <2>2
  <2>4. final' = final
    BY <1>2, <1>4, <1>8, <2>1 DEF final
  <2>5. Log!Create(id, q)
    BY <1>2, <1>3, <1>7, <1>8, <2>1, <2>3, <2>4 DEF Log!Create, Log!Use, logs, used, final
  <2> QED
    BY <2>5 DEF Log!Next
<1>9. CASE r.op # "create"
  <2>1. /\ d.id = r.drill /\ d.id \in DOMAIN db.drills /\ db.drills[d.id].dossier = NoHash
        /\ db.drills[d.id].log \in Seq(Requests) /\ Len(db.drills[d.id].log) = r.expected
        /\ \A i \in 1..r.expected : db.drills[d.id].log[i] = d.log[i]
    BY <1>1, <1>2, <1>9, WriteFacts DEF MayCommit
  <2>2. d.log = Append(db.drills[d.id].log, r)
    <3> DEFINE s == d.log
               u == db.drills[d.id].log
               n == r.expected
    <3>1. /\ n \in Nat /\ IsSequence(s) /\ Len(s) = n + 1 /\ s[n + 1] = r
          /\ u \in Seq(Requests) /\ Len(u) = n /\ \A i \in 1..n : u[i] = s[i]
      BY <1>5, <2>1
    <3> HIDE DEF s, u, n
    <3>2. /\ IsSequence(Append(u, r)) /\ Len(Append(u, r)) = n + 1 /\ Append(u, r)[n + 1] = r
          /\ \A i \in 1..n : Append(u, r)[i] = u[i]
      BY <3>1, SeqIsSequence, Appended
    <3>3. \A i \in 1..(n + 1) : Append(u, r)[i] = s[i]
      BY <3>1, <3>2
    <3>4. s = Append(u, r)
      BY <3>1, <3>2, <3>3, SameSequence
    <3> QED
      BY <3>4 DEF s, u
  <2>3. logs[d.id] = db.drills[d.id].log
    BY <2>1 DEF logs
  <2>4. logs' = [logs EXCEPT ![d.id] = Append(@, r)]
    BY <1>6, <1>7, <2>1, <2>2, <2>3 DEF logs
  <2>5. final' = IF r.op = "approve" THEN final \cup {d.id} ELSE final
    BY <1>2, <1>4, <2>1 DEF final
  <2>6. d.id \in DOMAIN logs \ final /\ r.expected = Len(logs[d.id])
    BY <1>7, <2>1, <2>3 DEF final
  <2>7. Log!Write(id, q)
    BY <1>2, <1>3, <1>9, <2>1, <2>4, <2>5, <2>6 DEF Log!Write, Log!Use, logs, used, final
  <2> QED
    BY <2>7 DEF Log!Next
<1> QED
  BY <1>8, <1>9

\* Handlers, transactions, crashes and retries together implement the log.
THEOREM LogIsImplemented == Spec => ImplementsLog
<1>1. ServiceInv /\ [Next]_vars => [Log!Next]_(Log!vars)
  <2> SUFFICES ASSUME ServiceInv, [Next]_vars PROVE [Log!Next]_(Log!vars)
    OBVIOUS
  <2>1. CASE db' = db
    BY <2>1 DEF Log!vars
  <2>2. ASSUME NEW c \in Calls, TxCommit(c) PROVE Log!Next
    BY <2>2, CommitIsLogStep
  <2> QED
    BY <2>1, <2>2, OnlyCommitWrites
<1> QED
  BY <1>1, LogInit, ServiceInvariant, PTL DEF Spec, ImplementsLog, Log!Spec
=============================================================================
