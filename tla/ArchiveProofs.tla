--------------------------- MODULE ArchiveProofs ---------------------------
(* What a damaged archive can still hide, for any number of writes and     *)
(* faults and any facts: the invariant the properties of AuditArchive rest *)
(* on, and those properties.                                               *)
EXTENDS AuditArchive, OperatorProofs

\* A row as appendEvent lays it out, and one that its digest covers.
IsRow(e) ==
    e = [sequence |-> e.sequence, content |-> e.content, previous |-> e.previous,
         hash |-> e.hash]

Fits(e) == e.hash = EventDigest(e.previous, e.sequence, e.content)

\* What faults leave of an event as long as its digest is there.
RemainsOf(row, e) ==
    /\ row.hash = e.hash
    /\ row.previous \in {e.previous, BrokenHash}
    /\ row.content \in {e.content, Garbage}

KnownHashes == {BrokenHash} \cup {w.event.hash : w \in written}

CountsOK == writes \in Nat /\ faults \in Nat /\ IsSequence(events)

\* What was written fits its digest, says which write it was and names the
\* digest of the row it followed.
WrittenOK ==
    \A w \in written :
       /\ w = [event |-> w.event, after |-> w.after]
       /\ IsRow(w.event) /\ Fits(w.event)
       /\ w.event.content \in [type : EventTypes, write : 1..writes]
       /\ w.after = None => w.event.previous = NoHash
       /\ w.after # None =>
             /\ IsRow(w.after) /\ w.after.hash \in KnownHashes
             /\ w.event.previous = w.after.hash

\* A row that kept its digest is what is left of an event, and only once.
RowsOK ==
    \A i \in DOMAIN events :
       /\ IsRow(events[i])
       /\ events[i].hash # BrokenHash =>
             /\ \E w \in written : RemainsOf(events[i], w.event)
             /\ \A j \in DOMAIN events : events[j].hash = events[i].hash => j = i

\* A row that was damaged when the next event was appended has stayed so.
DamageStays ==
    \A w \in written, i \in DOMAIN events :
       w.after # None /\ events[i].hash = w.after.hash /\ Fits(events[i]) => Fits(w.after)

SnapshotFields == {"id", "drill", "baselineVersion", "ruleVersion", "digest"} \cup FactsFields

IsSnapshot(s) ==
    /\ s = [f \in SnapshotFields |-> s[f]]
    /\ IsFiniteSet(s.checklist) /\ s.checklist \subseteq Int

IsDossier(d) == d = [f \in DossierFields |-> d[f]]

\* The dossier of an approval, as ApproveReview has it.
Approved(facts, d, chain) ==
    \E r \in Reviewers, results \in Passing(facts.checklist) :
       d = GenerateDossier(facts, Decision(r, HeadHash(chain), ChecklistDigest(results),
                                           Len(results), results))

\* The fields of the drill's row, and what the approval sealed of them.
SealOK ==
    /\ snapshot # None => IsSnapshot(snapshot)
    /\ dossier # None => state = "certified"
    /\ state = "review" => snapshot # None
    /\ state = "certified" =>
          /\ IsSnapshot(sealed.snapshot)
          /\ sealed.snapshot.digest = SnapshotDigest(sealed.snapshot)
          /\ Approved(sealed.snapshot, sealed.dossier, sealed.events)
          /\ IsSequence(sealed.events) /\ VerifyChain(sealed.events)
          /\ \A i \in DOMAIN sealed.events : IsRow(sealed.events[i])
          /\ snapshot # None /\ snapshot.digest \in {sealed.snapshot.digest, BrokenHash}
          /\ dossier # None /\ IsDossier(dossier) /\ IsSequence(dossier.results)
          /\ dossier.document \in {sealed.dossier.document, BrokenHash}

\* As long as storage keeps what it was given.
FaultFree ==
    faults = 0 =>
       /\ VerifyChain(events) /\ Len(events) = writes /\ events # << >>
       /\ state = "review" => SnapshotDigest(snapshot) = snapshot.digest
       /\ state = "certified" =>
             /\ snapshot = sealed.snapshot /\ dossier = sealed.dossier
             /\ HeadFound(dossier, events)

ArchiveInv == CountsOK /\ WrittenOK /\ RowsOK /\ DamageStays /\ SealOK /\ FaultFree

-----------------------------------------------------------------------------
(* Sequences that lose an element.                                         *)

\* A sequence without its i-th element.
LEMMA Removed ==
    ASSUME NEW s, IsSequence(s), NEW i \in DOMAIN s
    PROVE  /\ Len(s) \in Nat /\ DOMAIN s = 1..Len(s)
           /\ IsSequence(RemoveAt(s, i)) /\ Len(RemoveAt(s, i)) = Len(s) - 1
           /\ \A k \in 1..(Len(s) - 1) : RemoveAt(s, i)[k] = IF k < i THEN s[k] ELSE s[k + 1]
<1> DEFINE S == {s[k] : k \in DOMAIN s}
<1>1. s \in Seq(S) /\ Len(s) \in Nat /\ DOMAIN s = 1..Len(s)
  BY DEF IsSequence
<1> HIDE DEF S
<1>2. /\ RemoveAt(s, i) \in Seq(S) /\ Len(RemoveAt(s, i)) = Len(s) - 1
      /\ \A k \in 1..(Len(s) - 1) : RemoveAt(s, i)[k] = IF k < i THEN s[k] ELSE s[k + 1]
  <2> DEFINE a == SubSeq(s, 1, i - 1)
             b == SubSeq(s, i + 1, Len(s))
  <2>1. a \in Seq(S) /\ Len(a) = i - 1 /\ \A k \in 1..(i - 1) : a[k] = s[k]
    BY <1>1
  <2>2. b \in Seq(S) /\ Len(b) = Len(s) - i /\ \A k \in 1..(Len(s) - i) : b[k] = s[k + i]
    BY <1>1
  <2> HIDE DEF a, b
  <2>3. /\ a \o b \in Seq(S) /\ Len(a \o b) = Len(s) - 1
        /\ \A k \in 1..(Len(s) - 1) :
              (a \o b)[k] = IF k <= Len(a) THEN a[k] ELSE b[k - Len(a)]
    <3>1. Len(a) + Len(b) = Len(s) - 1
      BY <1>1, <2>1, <2>2
    <3>2. /\ a \o b \in Seq(S) /\ Len(a \o b) = Len(a) + Len(b)
          /\ \A k \in 1..(Len(a) + Len(b)) :
                (a \o b)[k] = IF k <= Len(a) THEN a[k] ELSE b[k - Len(a)]
      BY <2>1, <2>2, ConcatProperties
    <3> QED
      BY <3>1, <3>2
  <2>4. ASSUME NEW k \in 1..(Len(s) - 1)
        PROVE  (a \o b)[k] = IF k < i THEN s[k] ELSE s[k + 1]
    <3>1. k \in Int /\ i \in Int /\ Len(s) \in Int /\ i \in 1..Len(s)
      BY <1>1
    <3>2. CASE k < i
      BY <1>1, <2>1, <2>3, <3>1, <3>2
    <3>3. CASE ~(k < i)
      <4>1. k - (i - 1) \in 1..(Len(s) - i) /\ k - (i - 1) + i = k + 1
        BY <3>1, <3>3
      <4>2. (a \o b)[k] = b[k - (i - 1)]
        BY <2>1, <2>3, <3>1, <3>3
      <4> QED
        BY <2>2, <3>3, <4>1, <4>2
    <3> QED
      BY <3>2, <3>3
  <2>5. RemoveAt(s, i) = a \o b
    BY DEF RemoveAt, a, b
  <2> QED
    BY <2>3, <2>4, <2>5
<1> QED
  BY <1>1, <1>2, SeqIsSequence

\* A sequence with an element more.
LEMMA Inserted ==
    ASSUME NEW s, IsSequence(s), NEW p \in 1..(Len(s) + 1), NEW e
    PROVE  LET t == InsertAt(s, p, e) IN
           /\ IsSequence(t) /\ Len(t) = Len(s) + 1
           /\ \A k \in 1..(Len(s) + 1) :
                 t[k] = IF k < p THEN s[k] ELSE IF k = p THEN e ELSE s[k - 1]
<1> DEFINE S == {s[k] : k \in DOMAIN s} \cup {e}
<1>1. Len(s) \in Nat /\ DOMAIN s = 1..Len(s) /\ s = [k \in 1..Len(s) |-> s[k]]
  BY DEF IsSequence
<1>2. s \in Seq(S)
  <2>1. [k \in 1..Len(s) |-> s[k]] \in [1..Len(s) -> S]
    BY <1>1
  <2> QED
    BY <1>1, <2>1, SeqDef
<1>3. e \in S
  OBVIOUS
<1> HIDE DEF S
<1> DEFINE t == InsertAt(s, p, e)
<1>4. /\ t \in Seq(S) /\ Len(t) = Len(s) + 1
      /\ \A k \in 1..(Len(s) + 1) :
            t[k] = IF k < p THEN s[k] ELSE IF k = p THEN e ELSE s[k - 1]
  <2> DEFINE a == SubSeq(s, 1, p - 1)
             b == SubSeq(s, p, Len(s))
             ae == a \o <<e>>
  <2>1. a \in Seq(S) /\ Len(a) = p - 1 /\ \A k \in 1..(p - 1) : a[k] = s[k]
    BY <1>1, <1>2
  <2>2. /\ b \in Seq(S) /\ Len(b) = Len(s) + 1 - p
        /\ \A k \in 1..(Len(s) + 1 - p) : b[k] = s[k + p - 1]
    BY <1>1, <1>2
  <2> HIDE DEF a, b
  <2>3. <<e>> \in Seq(S) /\ Len(<<e>>) = 1 /\ <<e>>[1] = e
    BY <1>3
  <2>4. /\ ae \in Seq(S) /\ Len(ae) = p
        /\ \A k \in 1..(p - 1) : ae[k] = s[k]
        /\ ae[p] = e
    BY <1>1, <2>1, <2>3
  <2> HIDE DEF ae
  <2>5. /\ ae \o b \in Seq(S) /\ Len(ae \o b) = Len(s) + 1
        /\ \A k \in 1..(Len(s) + 1) : (ae \o b)[k] = IF k <= p THEN ae[k] ELSE b[k - p]
    BY <1>1, <2>2, <2>4
  <2>6. ASSUME NEW k \in 1..(Len(s) + 1)
        PROVE  (ae \o b)[k] = IF k < p THEN s[k] ELSE IF k = p THEN e ELSE s[k - 1]
    <3>1. k \in Int /\ p \in Int /\ Len(s) \in Int /\ p \in 1..(Len(s) + 1)
      BY <1>1
    <3>2. CASE k <= p
      BY <2>4, <2>5, <3>1, <3>2
    <3>3. CASE p < k
      <4>1. k - p \in 1..(Len(s) + 1 - p) /\ k - p + p - 1 = k - 1
        BY <3>1, <3>3
      <4>2. (ae \o b)[k] = b[k - p]
        BY <2>5, <3>1, <3>3
      <4> QED
        BY <2>2, <3>1, <3>3, <4>1, <4>2
    <3> QED
      <4>1. k <= p \/ p < k
        BY <3>1
      <4> QED
        BY <3>2, <3>3, <4>1
  <2>7. t = ae \o b
    BY DEF InsertAt, a, b, ae
  <2> HIDE DEF t
  <2> QED
    BY <2>5, <2>6, <2>7
<1> HIDE DEF t
<1>5. IsSequence(t)
  BY <1>4, SeqIsSequence
<1> QED
  BY <1>4, <1>5 DEF t

\* A sequence one element of which changed.
LEMMA Changed ==
    ASSUME NEW s, IsSequence(s), NEW i, NEW e
    PROVE  LET t == [s EXCEPT ![i] = e] IN
           /\ IsSequence(t) /\ Len(t) = Len(s) /\ DOMAIN t = DOMAIN s
           /\ Len(s) \in Nat /\ DOMAIN s = 1..Len(s)
           /\ \A k \in DOMAIN s : t[k] = IF k = i THEN e ELSE s[k]
<1> DEFINE t == [s EXCEPT ![i] = e]
           S == {t[k] : k \in DOMAIN t}
<1>1. Len(s) \in Nat /\ DOMAIN s = 1..Len(s)
  BY DEF IsSequence
<1>2. /\ DOMAIN t = 1..Len(s)
      /\ \A k \in 1..Len(s) : t[k] = IF k = i THEN e ELSE s[k]
      /\ t = [k \in 1..Len(s) |-> t[k]]
  BY <1>1
<1> HIDE DEF t
<1>3. [k \in 1..Len(s) |-> t[k]] \in [1..Len(s) -> S]
  BY <1>2
<1>4. t \in Seq(S)
  BY <1>1, <1>2, <1>3, SeqDef
<1>5. IsSequence(t) /\ Len(t) = Len(s)
  BY <1>1, <1>2, <1>4 DEF IsSequence
<1>6. t[i] = t[i]
  OBVIOUS
<1> QED
  BY <1>1, <1>2, <1>5 DEF t

-----------------------------------------------------------------------------
(* Digests, and what a write and a fault do to the chain.                  *)

\* A digest tells apart what it covers, and damage is no digest.
LEMMA DigestTells ==
    ASSUME NEW p, NEW n, NEW x, NEW q, NEW m, NEW y
    PROVE  /\ EventDigest(p, n, x) = EventDigest(q, m, y) => p = q /\ n = m /\ x = y
           /\ EventDigest(p, n, x) # BrokenHash /\ BrokenHash # NoHash
  BY DEF EventDigest, BrokenHash, NoHash

\* Rows that fit the same digest are the same.
LEMMA RowByDigest ==
    ASSUME NEW a, NEW b, IsRow(a), IsRow(b), Fits(a), Fits(b), a.hash = b.hash
    PROVE  a = b
<1>1. a.previous = b.previous /\ a.sequence = b.sequence /\ a.content = b.content
  BY DEF Fits, EventDigest
<1> QED
  BY <1>1 DEF IsRow

\* A row is never the absent one.
LEMMA RowIsSome == ASSUME NEW a, IsRow(a) PROVE a # None
<1>1. DOMAIN a = {"sequence", "content", "previous", "hash"}
  BY DEF IsRow
<1>2. DOMAIN None = {}
  BY DEF None
<1> QED
  BY <1>1, <1>2

\* What an event says, damage does not look like.
LEMMA ContentIsWhole ==
    ASSUME WrittenOK, NEW w \in written, writes \in Nat
    PROVE  /\ w.event.content # Garbage /\ w.event.content.write \in 1..writes
           /\ w.event.hash = EventDigest(w.event.previous, w.event.sequence, w.event.content)
           /\ w.event.hash # BrokenHash /\ w.event.hash # NoHash
<1>1. w.event.content \in [type : EventTypes, write : 1..writes] /\ Fits(w.event)
  BY DEF WrittenOK
<1>2. w.event.content \in [type : EventTypes, write : Nat] /\ w.event.content.write \in 1..writes
  BY <1>1
<1>3. w.event.hash = EventDigest(w.event.previous, w.event.sequence, w.event.content)
  BY <1>1 DEF Fits
<1> QED
  BY <1>2, <1>3, GarbageAssumption, DigestTells, DigestIsSome

\* The digest of an event that is yet to be written is on no row.
LEMMA NewDigestIsNew ==
    ASSUME CountsOK, WrittenOK, RowsOK, NEW p, NEW n, NEW type \in EventTypes
    PROVE  LET new == EventDigest(p, n, [type |-> type, write |-> writes + 1]) IN
           /\ \A w \in written : w.event.hash # new
           /\ new \notin KnownHashes
           /\ \A i \in DOMAIN events : events[i].hash # new /\ events[i].hash \in KnownHashes
<1> DEFINE content == [type |-> type, write |-> writes + 1]
           new == EventDigest(p, n, content)
<1>1. writes \in Nat /\ content.write = writes + 1
  BY DEF CountsOK
<1> HIDE DEF content
<1>2. ASSUME NEW w \in written PROVE w.event.hash # new
  <2>1. /\ w.event.content.write \in 1..writes
        /\ w.event.hash = EventDigest(w.event.previous, w.event.sequence, w.event.content)
    BY <1>1, ContentIsWhole
  <2>2. w.event.content # content
    BY <1>1, <2>1
  <2> QED
    BY <2>1, <2>2, DigestTells
<1>3. new \notin KnownHashes
  BY <1>2, DigestTells DEF KnownHashes
<1>4. ASSUME NEW i \in DOMAIN events PROVE events[i].hash \in KnownHashes
  BY DEF RowsOK, KnownHashes, RemainsOf
<1> HIDE DEF new
<1>5. /\ \A w \in written : w.event.hash # new
      /\ new \notin KnownHashes
      /\ \A i \in DOMAIN events : events[i].hash # new /\ events[i].hash \in KnownHashes
  BY <1>2, <1>3, <1>4
<1> QED
  BY <1>5 DEF new, content

\* What RecordEvent adds.
LEMMA Recorded ==
    ASSUME CountsOK, NEW type \in EventTypes, RecordEvent(type)
    PROVE  LET n == Len(events)
               e == events'[n + 1]
           IN  /\ n \in Nat /\ DOMAIN events = 1..n /\ DOMAIN events' = 1..(n + 1)
               /\ IsSequence(events') /\ Len(events') = n + 1 /\ events' # << >>
               /\ \A i \in 1..n : events'[i] = events[i]
               /\ e = NewEvent(events, [type |-> type, write |-> writes + 1])
               /\ IsRow(e) /\ Fits(e) /\ e.previous = HeadHash(events)
               /\ e.content = [type |-> type, write |-> writes + 1]
               /\ written' = written \cup
                     {[event |-> e, after |-> IF n = 0 THEN None ELSE events[n]]}
               /\ writes' = writes + 1 /\ faults' = faults
<1> DEFINE n == Len(events)
           content == [type |-> type, write |-> writes + 1]
           new == NewEvent(events, content)
           e == events'[n + 1]
<1>1. /\ events' = Append(events, new) /\ writes' = writes + 1 /\ faults' = faults
      /\ written' = written \cup {Link(events', Len(events'))}
  BY DEF RecordEvent
<1>2. /\ n \in Nat /\ DOMAIN events = 1..n /\ DOMAIN events' = 1..(n + 1)
      /\ IsSequence(events') /\ Len(events') = n + 1 /\ events' # << >>
      /\ \A i \in 1..n : events'[i] = events[i]
      /\ e = new
  BY <1>1, Appended DEF CountsOK
<1>3. IsRow(new) /\ Fits(new) /\ new.previous = HeadHash(events) /\ new.content = content
  BY DEF NewEvent, IsRow, Fits
<1> HIDE DEF new, content
<1>4. Link(events', n + 1) = [event |-> e, after |-> IF n = 0 THEN None ELSE events[n]]
  <2>1. CASE n = 0
    BY <2>1 DEF Link
  <2>2. CASE n # 0
    <3>1. n + 1 # 1 /\ n + 1 - 1 = n /\ n \in 1..n
      BY <1>2, <2>2
    <3> QED
      BY <1>2, <2>2, <3>1 DEF Link
  <2> QED
    BY <2>1, <2>2
<1> QED
  BY <1>1, <1>2, <1>3, <1>4 DEF content, new

\* The head of a chain is the digest of its last row.
LEMMA HeadOfChain ==
    ASSUME NEW chain, IsSequence(chain)
    PROVE  /\ Len(chain) = 0 => HeadHash(chain) = NoHash
           /\ Len(chain) # 0 => HeadHash(chain) = chain[Len(chain)].hash
<1>1. chain = << >> <=> Len(chain) = 0
  BY DEF IsSequence
<1> QED
  BY <1>1 DEF HeadHash

\* What an event followed is known when it is appended.
LEMMA RecordKeepsWritten ==
    ASSUME CountsOK, WrittenOK, RowsOK, NEW type \in EventTypes, RecordEvent(type)
    PROVE  WrittenOK'
<1> DEFINE n == Len(events)
           e == events'[n + 1]
           new == [event |-> e, after |-> IF n = 0 THEN None ELSE events[n]]
<1>1. /\ n \in Nat /\ DOMAIN events = 1..n
      /\ IsRow(e) /\ Fits(e) /\ e.previous = HeadHash(events)
      /\ e.content = [type |-> type, write |-> writes + 1]
      /\ written' = written \cup {new} /\ writes' = writes + 1
  BY Recorded
<1>2. KnownHashes \subseteq KnownHashes' /\ writes \in Nat
  BY <1>1 DEF KnownHashes, CountsOK
<1>3. ASSUME NEW w \in written
      PROVE  /\ w = [event |-> w.event, after |-> w.after]
             /\ IsRow(w.event) /\ Fits(w.event)
             /\ w.event.content \in [type : EventTypes, write : 1..writes']
             /\ w.after = None => w.event.previous = NoHash
             /\ w.after # None =>
                   /\ IsRow(w.after) /\ w.after.hash \in KnownHashes'
                   /\ w.event.previous = w.after.hash
  <2>1. /\ w = [event |-> w.event, after |-> w.after]
        /\ IsRow(w.event) /\ Fits(w.event)
        /\ w.event.content \in [type : EventTypes, write : 1..writes]
        /\ w.after = None => w.event.previous = NoHash
        /\ w.after # None =>
              /\ IsRow(w.after) /\ w.after.hash \in KnownHashes
              /\ w.event.previous = w.after.hash
    BY DEF WrittenOK
  <2>2. 1..writes \subseteq 1..writes'
    BY <1>1, <1>2
  <2> QED
    BY <1>2, <2>1, <2>2
<1>4. /\ new.event = e /\ e.content \in [type : EventTypes, write : 1..writes']
      /\ n = 0 => new.after = None
      /\ n # 0 => new.after = events[n]
  <2>1. writes + 1 \in 1..writes'
    BY <1>1, <1>2
  <2> QED
    BY <1>1, <2>1
<1>5. /\ new.after = None => e.previous = NoHash
      /\ new.after # None =>
            /\ IsRow(new.after) /\ new.after.hash \in KnownHashes'
            /\ e.previous = new.after.hash
  <2>1. IsSequence(events)
    BY DEF CountsOK
  <2>2. CASE n = 0
    BY <1>1, <1>4, <2>1, <2>2, HeadOfChain
  <2>3. CASE n # 0
    <3>1. n \in DOMAIN events
      BY <1>1, <2>3
    <3>2. IsRow(events[n]) /\ events[n].hash \in KnownHashes
      BY <3>1, NewDigestIsNew DEF RowsOK
    <3>3. e.previous = events[n].hash
      BY <1>1, <2>1, <2>3, HeadOfChain
    <3> HIDE DEF new
    <3> QED
      BY <1>2, <1>4, <2>3, <3>2, <3>3, RowIsSome
  <2> QED
    BY <2>2, <2>3
<1> HIDE DEF e
<1>6. new = [event |-> new.event, after |-> new.after]
  OBVIOUS
<1> HIDE DEF new
<1>7. ASSUME NEW w \in written'
      PROVE  /\ w = [event |-> w.event, after |-> w.after]
             /\ IsRow(w.event) /\ Fits(w.event)
             /\ w.event.content \in [type : EventTypes, write : 1..writes']
             /\ w.after = None => w.event.previous = NoHash
             /\ w.after # None =>
                   /\ IsRow(w.after) /\ w.after.hash \in KnownHashes'
                   /\ w.event.previous = w.after.hash
  <2>1. CASE w \in written
    BY <1>3, <2>1
  <2>2. CASE w = new
    BY <1>1, <1>4, <1>5, <1>6, <2>2
  <2> QED
    BY <1>1, <2>1, <2>2
<1> QED
  BY <1>7 DEF WrittenOK, KnownHashes, IsRow, Fits

\* The new row is a new event's.
LEMMA RecordKeepsRows ==
    ASSUME CountsOK, WrittenOK, RowsOK, NEW type \in EventTypes, RecordEvent(type)
    PROVE  RowsOK'
<1> DEFINE n == Len(events)
           e == events'[n + 1]
           new == [event |-> e, after |-> IF n = 0 THEN None ELSE events[n]]
           content == [type |-> type, write |-> writes + 1]
<1>1. /\ n \in Nat /\ DOMAIN events = 1..n /\ DOMAIN events' = 1..(n + 1)
      /\ \A i \in 1..n : events'[i] = events[i]
      /\ IsRow(e) /\ Fits(e) /\ e.content = content
      /\ new \in written' /\ written \subseteq written'
  BY Recorded
<1>2. e.hash = EventDigest(e.previous, e.sequence, content)
  BY <1>1 DEF Fits
<1> HIDE DEF content
<1>3. \A i \in 1..n : events[i].hash # e.hash
  BY <1>1, <1>2, NewDigestIsNew DEF content
<1>4. new.event = e
  OBVIOUS
<1>5. RemainsOf(e, e)
  BY DEF RemainsOf
<1> HIDE DEF new, e
<1>6. ASSUME NEW i \in DOMAIN events'
      PROVE  /\ IsRow(events'[i])
             /\ events'[i].hash # BrokenHash =>
                   /\ \E w \in written' : RemainsOf(events'[i], w.event)
                   /\ \A j \in DOMAIN events' : events'[j].hash = events'[i].hash => j = i
  <2>1. CASE i \in 1..n
    <3>1. /\ IsRow(events[i])
          /\ events[i].hash # BrokenHash =>
                /\ \E w \in written : RemainsOf(events[i], w.event)
                /\ \A j \in DOMAIN events : events[j].hash = events[i].hash => j = i
      BY <1>1, <2>1 DEF RowsOK
    <3>2. events'[n + 1].hash # events[i].hash
      BY <1>3, <2>1 DEF e
    <3> QED
      BY <1>1, <2>1, <3>1, <3>2
  <2>2. CASE i = n + 1
    <3>1. IsRow(events'[i]) /\ RemainsOf(events'[i], new.event)
      BY <1>1, <1>4, <1>5, <2>2 DEF e
    <3>2. ASSUME NEW j \in DOMAIN events', events'[j].hash = events'[i].hash
          PROVE  j = i
      BY <1>1, <1>3, <2>2, <3>2 DEF e
    <3> QED
      BY <1>1, <3>1, <3>2
  <2> QED
    BY <1>1, <2>1, <2>2
<1> QED
  BY <1>6 DEF RowsOK, IsRow, RemainsOf, BrokenHash

\* An event is appended to the last row as it is.
LEMMA RecordKeepsDamage ==
    ASSUME CountsOK, WrittenOK, RowsOK, DamageStays, NEW type \in EventTypes, RecordEvent(type)
    PROVE  DamageStays'
<1> DEFINE n == Len(events)
           e == events'[n + 1]
           new == [event |-> e, after |-> IF n = 0 THEN None ELSE events[n]]
           content == [type |-> type, write |-> writes + 1]
<1>1. /\ n \in Nat /\ DOMAIN events = 1..n /\ DOMAIN events' = 1..(n + 1)
      /\ \A i \in 1..n : events'[i] = events[i]
      /\ IsRow(e) /\ Fits(e) /\ e.content = content
      /\ written' = written \cup {new}
  BY Recorded
<1>2. e.hash = EventDigest(e.previous, e.sequence, content)
  BY <1>1 DEF Fits
<1> HIDE DEF content
<1>3. (\A i \in 1..n : events[i].hash # e.hash /\ events[i].hash \in KnownHashes)
         /\ e.hash \notin KnownHashes
  BY <1>1, <1>2, NewDigestIsNew DEF content
<1>4. (n = 0 => new.after = None) /\ (n # 0 => new.after = events[n])
  OBVIOUS
<1> HIDE DEF new, e
<1>5. ASSUME NEW w \in written', NEW i \in DOMAIN events', w.after # None,
             events'[i].hash = w.after.hash, Fits(events'[i])
      PROVE  Fits(w.after)
  <2>1. w.after.hash \in KnownHashes
    <3>1. CASE w \in written
      BY <1>5, <3>1 DEF WrittenOK
    <3>2. CASE w = new
      BY <1>1, <1>3, <1>4, <1>5, <3>2
    <3> QED
      BY <1>1, <3>1, <3>2
  <2>2. i \in 1..n /\ events'[i] = events[i]
    BY <1>1, <1>3, <1>5, <2>1 DEF e
  <2>3. CASE w \in written
    BY <1>1, <1>5, <2>2, <2>3 DEF DamageStays
  <2>4. CASE w = new
    <3>1. n # 0 /\ w.after = events[n] /\ n \in 1..n
      BY <1>1, <1>4, <1>5, <2>4
    <3>2. events[i].hash # BrokenHash
      BY <1>5, <2>2, DigestTells DEF Fits
    <3>3. n = i
      BY <1>1, <1>5, <2>2, <3>1, <3>2 DEF RowsOK
    <3> QED
      BY <1>5, <2>2, <3>1, <3>3
  <2> QED
    BY <1>1, <2>3, <2>4
<1> QED
  BY <1>5 DEF DamageStays, Fits

\* A row that is the same, or is worse for what a fault did to it.
Worn(row, before) ==
    /\ IsRow(row)
    /\ row.hash # BrokenHash =>
          /\ row.hash = before.hash
          /\ row.previous \in {before.previous, BrokenHash}
          /\ row.content \in {before.content, Garbage}
          /\ Fits(row) => Fits(before)

\* Rows may go and wear, as long as none turns up twice.
LEMMA FaultKeeps ==
    ASSUME RowsOK, DamageStays, written' = written, NEW from,
           \A i \in DOMAIN events' :
              from[i] \in DOMAIN events /\ Worn(events'[i], events[from[i]]),
           \A i, j \in DOMAIN events' : from[i] = from[j] => i = j
    PROVE  RowsOK' /\ DamageStays'
<1>1. ASSUME NEW i \in DOMAIN events', events'[i].hash # BrokenHash
      PROVE  /\ \E w \in written : RemainsOf(events'[i], w.event)
             /\ \A j \in DOMAIN events' : events'[j].hash = events'[i].hash => j = i
  <2>1. events[from[i]].hash # BrokenHash /\ events[from[i]].hash = events'[i].hash
    BY <1>1 DEF Worn
  <2>2. PICK w \in written : RemainsOf(events[from[i]], w.event)
    BY <2>1 DEF RowsOK
  <2>3. RemainsOf(events'[i], w.event)
    BY <1>1, <2>2 DEF Worn, RemainsOf
  <2>4. ASSUME NEW j \in DOMAIN events', events'[j].hash = events'[i].hash
        PROVE  j = i
    <3>1. events[from[j]].hash = events'[j].hash
      BY <1>1, <2>4 DEF Worn
    <3>2. from[j] = from[i]
      BY <2>1, <2>4, <3>1 DEF RowsOK
    <3> QED
      BY <3>2
  <2> QED
    BY <2>3, <2>4
<1>2. \A i \in DOMAIN events' : IsRow(events'[i])
  BY DEF Worn
<1>3. RowsOK'
  BY <1>1, <1>2 DEF RowsOK, IsRow, RemainsOf, BrokenHash
<1>4. ASSUME NEW w \in written, NEW i \in DOMAIN events', w.after # None,
             events'[i].hash = w.after.hash, Fits(events'[i])
      PROVE  Fits(w.after)
  <2>1. events'[i].hash # BrokenHash
    BY <1>4, DigestTells DEF Fits
  <2>2. Fits(events[from[i]]) /\ events[from[i]].hash = w.after.hash
    BY <1>4, <2>1 DEF Worn
  <2> QED
    BY <1>4, <2>2 DEF DamageStays
<1>5. DamageStays'
  BY <1>4 DEF DamageStays, Fits
<1> QED
  BY <1>3, <1>5

\* A row is as good as itself, and damage to a field makes it no better.
LEMMA DamageWears ==
    ASSUME CountsOK, WrittenOK, RowsOK, NEW i \in DOMAIN events
    PROVE  /\ Worn(events[i], events[i])
           /\ Worn([events[i] EXCEPT !.content = Garbage], events[i])
           /\ Worn([events[i] EXCEPT !.previous = BrokenHash], events[i])
           /\ Worn([events[i] EXCEPT !.hash = BrokenHash], events[i])
           /\ \A n : EventDigest(events[i].previous, n, events[i].content) # events[i].hash =>
                 Worn([events[i] EXCEPT !.sequence = n], events[i])
<1> DEFINE e == events[i]
<1>1. /\ IsRow(e)
      /\ e.hash # BrokenHash => \E w \in written : RemainsOf(e, w.event)
  BY DEF RowsOK
<1> HIDE DEF e
<1>2. Worn(e, e)
  BY <1>1 DEF Worn
<1>3. Worn([e EXCEPT !.content = Garbage], e)
  <2> DEFINE row == [e EXCEPT !.content = Garbage]
  <2>1. /\ IsRow(row) /\ row.hash = e.hash /\ row.content = Garbage
        /\ row.previous = e.previous /\ row.sequence = e.sequence
    BY <1>1 DEF IsRow
  <2>2. ASSUME e.hash # BrokenHash PROVE ~Fits(row)
    <3>1. PICK w \in written : RemainsOf(e, w.event)
      BY <1>1, <2>2
    <3>2. /\ w.event.content # Garbage
          /\ w.event.hash = EventDigest(w.event.previous, w.event.sequence, w.event.content)
      BY ContentIsWhole DEF CountsOK
    <3> QED
      BY <2>1, <3>1, <3>2, DigestTells DEF Fits, RemainsOf
  <2> HIDE DEF row
  <2>3. Worn(row, e)
    BY <2>1, <2>2 DEF Worn
  <2> QED
    BY <2>3 DEF row
<1>4. Worn([e EXCEPT !.previous = BrokenHash], e)
  <2> DEFINE row == [e EXCEPT !.previous = BrokenHash]
  <2>1. /\ IsRow(row) /\ row.hash = e.hash /\ row.previous = BrokenHash
        /\ row.content = e.content /\ row.sequence = e.sequence
    BY <1>1 DEF IsRow
  <2>2. ASSUME e.hash # BrokenHash, Fits(row) PROVE Fits(e)
    <3>1. PICK w \in written : RemainsOf(e, w.event)
      BY <1>1, <2>2
    <3>2. w.event.hash = EventDigest(w.event.previous, w.event.sequence, w.event.content)
      BY ContentIsWhole DEF CountsOK
    <3>3. e.hash = EventDigest(BrokenHash, e.sequence, e.content)
      BY <2>1, <2>2 DEF Fits
    <3>4. w.event.previous = BrokenHash
      BY <3>1, <3>2, <3>3, DigestTells DEF RemainsOf
    <3>5. e.previous = BrokenHash
      BY <3>1, <3>4 DEF RemainsOf
    <3> QED
      BY <3>3, <3>5 DEF Fits
  <2> HIDE DEF row
  <2>3. Worn(row, e)
    BY <2>1, <2>2 DEF Worn
  <2> QED
    BY <2>3 DEF row
<1>5. Worn([e EXCEPT !.hash = BrokenHash], e)
  BY <1>1 DEF Worn, IsRow
<1>6. ASSUME NEW n, EventDigest(e.previous, n, e.content) # e.hash
      PROVE  Worn([e EXCEPT !.sequence = n], e)
  <2> DEFINE row == [e EXCEPT !.sequence = n]
  <2>1. /\ IsRow(row) /\ row.hash = e.hash /\ row.previous = e.previous
        /\ row.content = e.content /\ row.sequence = n
    BY <1>1 DEF IsRow
  <2> HIDE DEF row
  <2>2. ~Fits(row)
    BY <1>6, <2>1 DEF Fits
  <2>3. Worn(row, e)
    BY <2>1, <2>2 DEF Worn
  <2> QED
    BY <2>3 DEF row
<1> QED
  BY <1>2, <1>3, <1>4, <1>5, <1>6 DEF e

\* A row that is lost leaves the others.
LEMMA LosingKeeps ==
    ASSUME CountsOK, WrittenOK, RowsOK, DamageStays, NEW i \in DOMAIN events, LoseEvent(i)
    PROVE  RowsOK' /\ DamageStays' /\ IsSequence(events')
<1> DEFINE n == Len(events)
           from == [k \in 1..(n - 1) |-> IF k < i THEN k ELSE k + 1]
<1>1. /\ n \in Nat /\ DOMAIN events = 1..n /\ IsSequence(events') /\ Len(events') = n - 1
      /\ \A k \in 1..(n - 1) : events'[k] = IF k < i THEN events[k] ELSE events[k + 1]
  BY Removed DEF CountsOK, LoseEvent
<1>2. DOMAIN events' = 1..(n - 1)
  BY <1>1 DEF IsSequence
<1>3. /\ \A k \in 1..(n - 1) : from[k] \in 1..n /\ events'[k] = events[from[k]]
      /\ \A k, m \in 1..(n - 1) : from[k] = from[m] => k = m
  BY <1>1
<1>4. \A k \in 1..n : Worn(events[k], events[k])
  BY <1>1, DamageWears
<1>5. written' = written
  BY DEF LoseEvent, Fault
<1> HIDE DEF from
<1>6. \A k \in DOMAIN events' :
         from[k] \in DOMAIN events /\ Worn(events'[k], events[from[k]])
  BY <1>1, <1>2, <1>3, <1>4
<1>7. \A k, m \in DOMAIN events' : from[k] = from[m] => k = m
  BY <1>2, <1>3
<1>8. RowsOK' /\ DamageStays'
  BY <1>5, <1>6, <1>7, FaultKeeps
<1> QED
  BY <1>1, <1>8

\* A row that changes stays where it is.
LEMMA DamagingKeeps ==
    ASSUME CountsOK, WrittenOK, RowsOK, DamageStays, NEW i \in DOMAIN events, DamageEvent(i)
    PROVE  RowsOK' /\ DamageStays' /\ IsSequence(events')
<1>1. PICK row : events' = [events EXCEPT ![i] = row] /\ Worn(row, events[i])
  BY DamageWears DEF DamageEvent
<1>2. /\ IsSequence(events') /\ DOMAIN events' = DOMAIN events
      /\ \A k \in DOMAIN events : events'[k] = IF k = i THEN row ELSE events[k]
  BY <1>1, Changed DEF CountsOK
<1>3. \A k \in DOMAIN events : Worn(events'[k], events[k])
  BY <1>1, <1>2, DamageWears
<1> DEFINE from == [k \in DOMAIN events |-> k]
<1>4. \A k \in DOMAIN events' : from[k] \in DOMAIN events /\ Worn(events'[k], events[from[k]])
  BY <1>2, <1>3
<1>5. \A k, m \in DOMAIN events' : from[k] = from[m] => k = m
  BY <1>2
<1>6. written' = written
  BY DEF DamageEvent, Fault
<1> HIDE DEF from
<1> QED
  BY <1>2, <1>4, <1>5, <1>6, FaultKeeps

\* A row that changes its number changes its place.
LEMMA RenumberingKeeps ==
    ASSUME CountsOK, WrittenOK, RowsOK, DamageStays, NEW i \in DOMAIN events, NEW x,
           RenumberEvent(i, x)
    PROVE  RowsOK' /\ DamageStays' /\ IsSequence(events')
<1> DEFINE n == Len(events)
           rest == RemoveAt(events, i)
           less == {j \in DOMAIN rest : rest[j].sequence < x}
           place == Cardinality(less) + 1
           row == [events[i] EXCEPT !.sequence = x]
           old == [k \in 1..(n - 1) |-> IF k < i THEN k ELSE k + 1]
           from == [k \in 1..n |-> IF k < place THEN old[k] ELSE IF k = place THEN i ELSE old[k - 1]]
<1>1. /\ n \in Nat /\ DOMAIN events = 1..n /\ i \in 1..n
      /\ IsSequence(rest) /\ Len(rest) = n - 1
      /\ \A k \in 1..(n - 1) : rest[k] = IF k < i THEN events[k] ELSE events[k + 1]
  BY Removed DEF CountsOK
<1> HIDE DEF rest
<1>2. place \in 1..n
  <2>1. DOMAIN rest = 1..(n - 1)
    BY <1>1 DEF IsSequence
  <2>2. IsFiniteSet(1..(n - 1)) /\ Cardinality(1..(n - 1)) = n - 1
    <3>1. n - 1 \in Int /\ 1 \in Int /\ (1 > n - 1 => n - 1 = 0)
      BY <1>1
    <3>2. /\ IsFiniteSet(1..(n - 1))
          /\ Cardinality(1..(n - 1)) = IF 1 > n - 1 THEN 0 ELSE n - 1 - 1 + 1
      BY <3>1, FS_Interval
    <3> QED
      BY <3>1, <3>2
  <2>3. Cardinality(less) \in Nat /\ Cardinality(less) <= n - 1
    BY <2>1, <2>2, FS_Subset, FS_CardinalityType
  <2> QED
    BY <1>1, <2>3
<1>3. events' = InsertAt(rest, place, row) /\ written' = written
  BY DEF RenumberEvent, Fault, rest
<1>4. Worn(row, events[i]) /\ \A k \in 1..n : Worn(events[k], events[k])
  BY <1>1, DamageWears DEF RenumberEvent
<1> HIDE DEF less, row, place
<1>5. /\ IsSequence(events') /\ Len(events') = n
      /\ \A k \in 1..n :
            events'[k] = IF k < place THEN rest[k] ELSE IF k = place THEN row ELSE rest[k - 1]
  <2>1. Len(rest) + 1 = n
    BY <1>1
  <2> QED
    BY <1>1, <1>2, <1>3, <2>1, Inserted
<1>6. DOMAIN events' = 1..n
  BY <1>1, <1>5 DEF IsSequence
<1>7. /\ \A k \in 1..(n - 1) : old[k] \in 1..n /\ old[k] # i /\ rest[k] = events[old[k]]
      /\ \A k, m \in 1..(n - 1) : old[k] = old[m] => k = m
  BY <1>1
<1> HIDE DEF old
<1>8. ASSUME NEW k \in 1..n
      PROVE  from[k] \in 1..n /\ Worn(events'[k], events[from[k]])
  <2>1. k \in Int /\ place \in Int /\ (k < place => k \in 1..(n - 1))
           /\ (k > place => k - 1 \in 1..(n - 1))
    BY <1>1, <1>2
  <2>2. CASE k < place
    BY <1>4, <1>5, <1>7, <2>1, <2>2
  <2>3. CASE k = place
    BY <1>1, <1>4, <1>5, <2>1, <2>3
  <2>4. CASE k > place
    BY <1>4, <1>5, <1>7, <2>1, <2>4
  <2> QED
    BY <2>1, <2>2, <2>3, <2>4
<1>9. ASSUME NEW k \in 1..n, NEW m \in 1..n, from[k] = from[m]
      PROVE  k = m
  <2>1. k \in Int /\ m \in Int /\ place \in Int /\ n \in Int
    BY <1>1, <1>2
  <2>2. \A y \in 1..n : from[y] = i => y = place
    BY <1>1, <1>2, <1>7
  <2>3. from[place] = i
    BY <1>2, <2>1
  <2>4. CASE k = place \/ m = place
    BY <1>9, <2>2, <2>3, <2>4
  <2>5. CASE k # place /\ m # place
    <3> DEFINE y == IF k < place THEN k ELSE k - 1
               z == IF m < place THEN m ELSE m - 1
    <3>1. y \in 1..(n - 1) /\ z \in 1..(n - 1)
      BY <1>1, <1>2, <2>1, <2>5
    <3>2. old[y] = old[z]
      BY <1>9, <2>1, <2>5
    <3>3. y = z
      BY <1>7, <3>1, <3>2
    <3> QED
      BY <2>1, <2>5, <3>3
  <2> QED
    BY <2>4, <2>5
<1> HIDE DEF from
<1>10. \A k \in DOMAIN events' : from[k] \in DOMAIN events /\ Worn(events'[k], events[from[k]])
  BY <1>1, <1>6, <1>8
<1>11. \A k, m \in DOMAIN events' : from[k] = from[m] => k = m
  BY <1>6, <1>9
<1> QED
  BY <1>3, <1>5, <1>10, <1>11, FaultKeeps

-----------------------------------------------------------------------------
(* Snapshots and dossiers.                                                 *)

\* A snapshot's digest is told from its fields, and from damage.
LEMMA SnapshotDigestTells ==
    ASSUME NEW s, IsSnapshot(s)
    PROVE  /\ SnapshotDigest(s) = <<[f \in SnapshotFields |-> IF f = "digest" THEN NoHash ELSE s[f]]>>
           /\ SnapshotDigest(s) # BrokenHash /\ s # None
<1>1. s = [f \in SnapshotFields |-> s[f]] /\ DOMAIN s = SnapshotFields
  BY DEF IsSnapshot
<1>2. [s EXCEPT !.digest = NoHash] = [f \in SnapshotFields |-> IF f = "digest" THEN NoHash ELSE s[f]]
  BY <1>1
<1>3. SnapshotFields # {} /\ DOMAIN None = {}
  BY DEF SnapshotFields, None
<1>4. SnapshotDigest(s) # BrokenHash
  BY DEF SnapshotDigest, BrokenHash
<1> QED
  BY <1>1, <1>2, <1>3, <1>4 DEF SnapshotDigest

\* Two snapshots that fit one digest are the same.
LEMMA SnapshotByDigest ==
    ASSUME NEW s, NEW t, IsSnapshot(s), IsSnapshot(t),
           SnapshotDigest(s) = s.digest, SnapshotDigest(t) = t.digest, s.digest = t.digest
    PROVE  s = t
<1>1. s = [f \in SnapshotFields |-> s[f]] /\ t = [f \in SnapshotFields |-> t[f]]
  BY DEF IsSnapshot
<1>2. [f \in SnapshotFields |-> IF f = "digest" THEN NoHash ELSE s[f]]
         = [f \in SnapshotFields |-> IF f = "digest" THEN NoHash ELSE t[f]]
  <2>1. <<[f \in SnapshotFields |-> IF f = "digest" THEN NoHash ELSE s[f]]>>
           = <<[f \in SnapshotFields |-> IF f = "digest" THEN NoHash ELSE t[f]]>>
    BY SnapshotDigestTells
  <2> QED
    BY <2>1
<1>3. ASSUME NEW f \in SnapshotFields PROVE s[f] = t[f]
  <2>1. CASE f = "digest"
    BY <2>1
  <2>2. CASE f # "digest"
    BY <1>2, <2>2
  <2> QED
    BY <2>1, <2>2
<1> QED
  BY <1>1, <1>3

\* The snapshot of a submission fits its digest.
LEMMA SnapshotIsMade ==
    ASSUME NEW facts \in Facts
    PROVE  LET s == MakeSnapshot(facts) IN
           IsSnapshot(s) /\ SnapshotDigest(s) = s.digest
<1> DEFINE blank == [id |-> writes + 1, drill |-> "drill", baselineVersion |-> 1,
                     ruleVersion |-> "rules", digest |-> NoHash,
                     baseline |-> facts.baseline, observations |-> facts.observations,
                     findings |-> facts.findings, checklist |-> facts.checklist]
           s == [blank EXCEPT !.digest = SnapshotDigest(blank)]
<1>1. IsFiniteSet(facts.checklist) /\ facts.checklist \subseteq Int
  BY FactsAssumption
<1>2. /\ blank = [f \in SnapshotFields |-> blank[f]] /\ blank.digest = NoHash
      /\ blank.checklist = facts.checklist
  BY DEF SnapshotFields, FactsFields
<1>3. MakeSnapshot(facts) = s
  BY DEF MakeSnapshot
<1> HIDE DEF blank
<1>4. [blank EXCEPT !.digest = NoHash] = blank
  BY <1>2
<1>5. SnapshotDigest(blank) = <<blank>>
  BY <1>4 DEF SnapshotDigest
<1>6. /\ s = [f \in SnapshotFields |-> IF f = "digest" THEN <<blank>> ELSE blank[f]]
      /\ s.digest = <<blank>> /\ s.checklist = facts.checklist
  BY <1>2, <1>5 DEF SnapshotFields, FactsFields
<1> HIDE DEF s
<1>7. IsSnapshot(s)
  BY <1>1, <1>6 DEF IsSnapshot
<1>8. [s EXCEPT !.digest = NoHash] = blank
  BY <1>2, <1>6
<1>9. SnapshotDigest(s) = s.digest
  BY <1>6, <1>8 DEF SnapshotDigest
<1> QED
  BY <1>3, <1>7, <1>9

\* A snapshot in which a field changed, its checklist to another one.
LEMMA SnapshotChanged ==
    ASSUME NEW s, IsSnapshot(s), NEW f, NEW x,
           f = "checklist" => IsFiniteSet(x) /\ x \subseteq Int
    PROVE  /\ IsSnapshot([s EXCEPT ![f] = x])
           /\ f # "digest" => [s EXCEPT ![f] = x].digest = s.digest
<1> DEFINE t == [s EXCEPT ![f] = x]
<1>1. s = [k \in SnapshotFields |-> s[k]]
  BY DEF IsSnapshot
<1>2. /\ t = [k \in SnapshotFields |-> IF k = f THEN x ELSE s[k]]
  BY <1>1
<1>3. "checklist" \in SnapshotFields /\ "digest" \in SnapshotFields
  BY DEF SnapshotFields, FactsFields
<1> HIDE DEF t
<1>4. t.checklist = IF "checklist" = f THEN x ELSE s.checklist
  BY <1>2, <1>3
<1>5. IsSnapshot(t)
  BY <1>2, <1>4 DEF IsSnapshot
<1>6. f # "digest" => t.digest = s.digest
  BY <1>2, <1>3
<1> QED
  BY <1>5, <1>6 DEF t

\* What a dossier repeats of its payload.
PayloadOf(d) == [f \in PayloadFields |-> d[f]]

\* What a generated dossier says.
LEMMA DossierIsGenerated ==
    ASSUME NEW s, NEW d
    PROVE  LET g == GenerateDossier(s, d) IN
           /\ IsDossier(g)
           /\ g.drill = s.drill /\ g.snapshot = s.id /\ g.decision = "approved"
           /\ g.reviewer = d.reviewer /\ g.head = d.head
           /\ g.checklistDigest = d.checklistDigest
           /\ g.passed = d.passed /\ g.results = d.results
           /\ g.canonical = PayloadOf(g) /\ g.document = <<PayloadOf(g)>>
<1> DEFINE payload == NewPayload(s, d)
           rest == [results |-> d.results, canonical |-> payload, document |-> <<payload>>]
           g == GenerateDossier(s, d)
<1>1. g = [f \in DossierFields |-> IF f \in PayloadFields THEN payload[f] ELSE rest[f]]
  BY DEF GenerateDossier
<1>2. /\ payload = [f \in PayloadFields |-> payload[f]]
      /\ payload.drill = s.drill /\ payload.snapshot = s.id /\ payload.decision = "approved"
      /\ payload.reviewer = d.reviewer /\ payload.head = d.head
      /\ payload.checklistDigest = d.checklistDigest
      /\ payload.passed = d.passed
  BY DEF NewPayload, PayloadFields
<1>3. rest.results = d.results /\ rest.canonical = payload /\ rest.document = <<payload>>
  OBVIOUS
<1> HIDE DEF payload, rest, g
<1>4. /\ IsDossier(g)
      /\ \A f \in PayloadFields : g[f] = payload[f]
      /\ g.results = d.results /\ g.canonical = payload /\ g.document = <<payload>>
  BY <1>1, <1>3 DEF DossierFields, PayloadFields, IsDossier
<1>5. payload = PayloadOf(g)
  BY <1>2, <1>4 DEF PayloadOf
<1>6. /\ g.drill = s.drill /\ g.snapshot = s.id /\ g.decision = "approved"
      /\ g.reviewer = d.reviewer /\ g.head = d.head
      /\ g.checklistDigest = d.checklistDigest /\ g.passed = d.passed
  BY <1>2, <1>4 DEF PayloadFields
<1> QED
  BY <1>4, <1>5, <1>6 DEF g

-----------------------------------------------------------------------------
(* The invariant, step by step.                                            *)

\* A write keeps what the chain's part of the invariant says.
LEMMA RecordKeeps ==
    ASSUME ArchiveInv, NEW type \in EventTypes, RecordEvent(type)
    PROVE  /\ (CountsOK /\ WrittenOK /\ RowsOK /\ DamageStays)'
           /\ events' # << >>
           /\ faults' = 0 => VerifyChain(events') /\ Len(events') = writes'
<1>1. CountsOK /\ WrittenOK /\ RowsOK /\ DamageStays /\ FaultFree
  BY DEF ArchiveInv
<1>2. /\ IsSequence(events') /\ Len(events') = Len(events) + 1 /\ events' # << >>
      /\ writes' = writes + 1 /\ faults' = faults
  BY <1>1, Recorded
<1>3. CountsOK'
  BY <1>1, <1>2 DEF CountsOK
<1>4. faults' = 0 => VerifyChain(events') /\ Len(events') = writes'
  BY <1>1, <1>2, AppendVerifies DEF FaultFree, CountsOK, RecordEvent
<1> QED
  BY <1>1, <1>2, <1>3, <1>4, RecordKeepsWritten, RecordKeepsRows, RecordKeepsDamage

\* Nothing of the drill's row is read or written by a write that decides
\* nothing.
LEMMA WriteKeeps == ASSUME ArchiveInv, Write PROVE ArchiveInv'
<1>1. /\ state = "open" /\ (\E type \in EventTypes : RecordEvent(type))
      /\ state' = state /\ snapshot' = snapshot /\ dossier' = dossier /\ sealed' = sealed
  <2>1. RecordEvent("write") /\ "write" \in EventTypes
    BY DEF Write, EventTypes
  <2>2. \E type \in EventTypes : RecordEvent(type)
    BY <2>1, Zenon
  <2> QED
    BY <2>2 DEF Write
<1>2. /\ (CountsOK /\ WrittenOK /\ RowsOK /\ DamageStays)'
      /\ events' # << >>
      /\ faults' = 0 => VerifyChain(events') /\ Len(events') = writes'
  <2>1. PICK type \in EventTypes : RecordEvent(type)
    BY <1>1
  <2> QED
    BY <2>1, RecordKeeps
<1>3. SealOK'
  <2>1. (snapshot # None => IsSnapshot(snapshot)) /\ (dossier # None => state = "certified")
    BY DEF ArchiveInv, SealOK
  <2> QED
    BY <1>1, <2>1 DEF SealOK, IsSnapshot
<1>4. FaultFree'
  BY <1>1, <1>2 DEF FaultFree
<1> QED
  BY <1>2, <1>3, <1>4 DEF ArchiveInv

\* A submission takes a snapshot that fits its digest.
LEMMA SubmitKeeps ==
    ASSUME ArchiveInv, NEW facts \in Facts, SubmitReview(facts)
    PROVE  ArchiveInv'
<1>1. /\ state = "open" /\ (\E type \in EventTypes : RecordEvent(type))
      /\ state' = "review" /\ dossier' = dossier
      /\ snapshot' = MakeSnapshot(facts)
  <2>1. RecordEvent("review.submitted") /\ "review.submitted" \in EventTypes
    BY DEF SubmitReview, EventTypes
  <2>2. \E type \in EventTypes : RecordEvent(type)
    BY <2>1, Zenon
  <2> QED
    BY <2>2 DEF SubmitReview
<1>2. /\ (CountsOK /\ WrittenOK /\ RowsOK /\ DamageStays)'
      /\ events' # << >>
      /\ faults' = 0 => VerifyChain(events') /\ Len(events') = writes'
  <2>1. PICK type \in EventTypes : RecordEvent(type)
    BY <1>1
  <2> QED
    BY <2>1, RecordKeeps
<1>3. IsSnapshot(snapshot') /\ SnapshotDigest(snapshot') = snapshot'.digest
  BY <1>1, SnapshotIsMade
<1>4. snapshot' # None
  BY <1>3, SnapshotDigestTells
<1>5. dossier = None
  BY <1>1 DEF ArchiveInv, SealOK
<1>6. SealOK'
  BY <1>1, <1>3, <1>4, <1>5 DEF SealOK, IsSnapshot, None
<1>7. FaultFree'
  BY <1>1, <1>2, <1>3 DEF FaultFree, SnapshotDigest, NoHash
<1> QED
  BY <1>2, <1>6, <1>7 DEF ArchiveInv

\* A return clears the snapshot.
LEMMA ReturnKeeps == ASSUME ArchiveInv, ReturnReview PROVE ArchiveInv'
<1>1. /\ state = "review" /\ (\E type \in EventTypes : RecordEvent(type))
      /\ state' = "open" /\ dossier' = dossier /\ snapshot' = None
  <2>1. RecordEvent("review.returned") /\ "review.returned" \in EventTypes
    BY DEF ReturnReview, EventTypes
  <2>2. \E type \in EventTypes : RecordEvent(type)
    BY <2>1, Zenon
  <2> QED
    BY <2>2 DEF ReturnReview, Decidable
<1>2. /\ (CountsOK /\ WrittenOK /\ RowsOK /\ DamageStays)'
      /\ events' # << >>
      /\ faults' = 0 => VerifyChain(events') /\ Len(events') = writes'
  <2>1. PICK type \in EventTypes : RecordEvent(type)
    BY <1>1
  <2> QED
    BY <2>1, RecordKeeps
<1>3. dossier = None
  BY <1>1 DEF ArchiveInv, SealOK
<1>4. SealOK'
  BY <1>1, <1>3 DEF SealOK, IsSnapshot, None
<1>5. FaultFree'
  BY <1>1, <1>2 DEF FaultFree
<1> QED
  BY <1>2, <1>4, <1>5 DEF ArchiveInv

\* An approval seals what it found to fit.
LEMMA ApproveKeeps ==
    ASSUME ArchiveInv, NEW r \in Reviewers, NEW results \in Passing(snapshot.checklist),
           ApproveReview(r, results), IsSequence(results)
    PROVE  ArchiveInv'
<1> DEFINE d == Decision(r, HeadHash(events), ChecklistDigest(results), Len(results), results)
<1>1. /\ state = "review" /\ SnapshotDigest(snapshot) = snapshot.digest
      /\ VerifyChain(events) /\ (\E type \in EventTypes : RecordEvent(type))
      /\ state' = "certified" /\ snapshot' = snapshot
      /\ dossier' = GenerateDossier(snapshot, d)
      /\ sealed' = [snapshot |-> snapshot, dossier |-> dossier', events |-> events]
  <2>1. RecordEvent("review.approved") /\ "review.approved" \in EventTypes
    BY DEF ApproveReview, EventTypes
  <2>2. \E type \in EventTypes : RecordEvent(type)
    BY <2>1, Zenon
  <2> QED
    BY <2>2 DEF ApproveReview, Decidable
<1>2. /\ (CountsOK /\ WrittenOK /\ RowsOK /\ DamageStays)'
      /\ events' # << >>
      /\ faults' = 0 => VerifyChain(events') /\ Len(events') = writes'
  <2>1. PICK type \in EventTypes : RecordEvent(type)
    BY <1>1
  <2> QED
    BY <2>1, RecordKeeps
<1>3. /\ sealed'.snapshot = snapshot /\ sealed'.dossier = dossier' /\ sealed'.events = events
  BY <1>1
<1>4. IsSnapshot(snapshot) /\ snapshot # None
  BY <1>1 DEF ArchiveInv, SealOK
<1>5. /\ IsDossier(dossier')
      /\ dossier'.results = results /\ dossier'.head = HeadHash(events)
  <2>1. d.results = results /\ d.head = HeadHash(events)
    BY DEF Decision
  <2> HIDE DEF d
  <2> QED
    BY <1>1, <2>1, DossierIsGenerated
<1>6. dossier' # None
  <2>1. DOMAIN dossier' = DossierFields
    BY <1>5 DEF IsDossier
  <2> QED
    BY <2>1 DEF DossierFields, None
<1>7. Approved(snapshot, dossier', events)
  BY <1>1 DEF Approved
<1>8. IsSequence(events) /\ \A i \in DOMAIN events : IsRow(events[i])
  BY DEF ArchiveInv, CountsOK, RowsOK
<1>9. SealOK'
  <2>1. /\ IsSnapshot(sealed'.snapshot)
        /\ sealed'.snapshot.digest = SnapshotDigest(sealed'.snapshot)
        /\ Approved(sealed'.snapshot, sealed'.dossier, sealed'.events)
        /\ IsSequence(sealed'.events) /\ VerifyChain(sealed'.events)
        /\ \A i \in DOMAIN sealed'.events : IsRow(sealed'.events[i])
        /\ snapshot' # None /\ snapshot'.digest \in {sealed'.snapshot.digest, BrokenHash}
        /\ dossier' # None /\ IsDossier(dossier')
        /\ IsSequence(dossier'.results)
        /\ dossier'.document \in {sealed'.dossier.document, BrokenHash}
    BY <1>1, <1>3, <1>4, <1>5, <1>6, <1>7, <1>8
  <2>2. IsSnapshot(snapshot')
    BY <1>1, <1>4
  <2> QED
    BY <1>1, <2>1, <2>2 DEF SealOK, IsSnapshot, None, Approved, SnapshotDigest, NoHash,
       BrokenHash, IsDossier, IsRow
<1>10. FaultFree'
  <2>1. ASSUME faults' = 0 PROVE HeadFound(dossier', events')
    <3>1. faults = 0 /\ writes \in Nat
      BY <1>1, <2>1 DEF RecordEvent, ArchiveInv, CountsOK
    <3>2. Len(events) # 0
      BY <3>1, <1>8 DEF ArchiveInv, FaultFree, IsSequence
    <3>3. HeadHash(events) = events[Len(events)].hash /\ Len(events) \in DOMAIN events
      BY <1>8, <3>2, HeadOfChain DEF IsSequence
    <3>4. /\ DOMAIN events' = 1..(Len(events) + 1) /\ Len(events) \in Nat
          /\ \A i \in 1..Len(events) : events'[i] = events[i]
      <4>1. PICK type \in EventTypes : RecordEvent(type)
        BY <1>1
      <4> QED
        BY <4>1, Recorded DEF ArchiveInv
    <3>5. Len(events) \in DOMAIN events' /\ events'[Len(events)].hash = dossier'.head
      BY <1>5, <3>2, <3>3, <3>4
    <3> QED
      BY <3>5 DEF HeadFound
  <2> QED
    BY <1>1, <1>2, <1>3, <2>1 DEF FaultFree, HeadFound, NoHash
<1> QED
  BY <1>2, <1>9, <1>10 DEF ArchiveInv

\* A fault of the chain leaves the drill's row and what was written.
LEMMA ChainFaultKeeps ==
    ASSUME ArchiveInv, Fault, UNCHANGED <<snapshot, dossier>>,
           RowsOK', DamageStays', IsSequence(events')
    PROVE  ArchiveInv'
<1>1. /\ faults' = faults + 1 /\ writes' = writes /\ written' = written
      /\ state' = state /\ sealed' = sealed /\ snapshot' = snapshot /\ dossier' = dossier
  BY DEF Fault
<1>2. CountsOK'
  BY <1>1 DEF ArchiveInv, CountsOK
<1>3. WrittenOK'
  BY <1>1 DEF ArchiveInv, WrittenOK, IsRow, Fits, KnownHashes
<1>4. SealOK'
  BY <1>1 DEF ArchiveInv, SealOK, IsSnapshot, IsDossier, Approved, IsRow
<1>5. FaultFree'
  BY <1>1 DEF ArchiveInv, CountsOK, FaultFree
<1> QED
  BY <1>2, <1>3, <1>4, <1>5 DEF ArchiveInv

\* A fault of the drill's row leaves the chain.
LEMMA RowFaultKeeps ==
    ASSUME ArchiveInv, Fault, events' = events, SealOK'
    PROVE  ArchiveInv'
<1>1. /\ faults' = faults + 1 /\ writes' = writes /\ written' = written
      /\ state' = state /\ sealed' = sealed
  BY DEF Fault
<1>2. CountsOK'
  BY <1>1 DEF ArchiveInv, CountsOK
<1>3. WrittenOK'
  BY <1>1 DEF ArchiveInv, WrittenOK, IsRow, Fits, KnownHashes
<1>4. RowsOK' /\ DamageStays'
  BY <1>1 DEF ArchiveInv, RowsOK, DamageStays, IsRow, Fits, RemainsOf
<1>5. FaultFree'
  BY <1>1 DEF ArchiveInv, CountsOK, FaultFree
<1> QED
  BY <1>2, <1>3, <1>4, <1>5 DEF ArchiveInv

LEMMA LoseKeeps ==
    ASSUME ArchiveInv, NEW i \in DOMAIN events, LoseEvent(i)
    PROVE  ArchiveInv'
<1>1. RowsOK' /\ DamageStays' /\ IsSequence(events')
  BY LosingKeeps DEF ArchiveInv
<1> QED
  BY <1>1, ChainFaultKeeps DEF LoseEvent

LEMMA DamageKeeps ==
    ASSUME ArchiveInv, NEW i \in DOMAIN events, DamageEvent(i)
    PROVE  ArchiveInv'
<1>1. RowsOK' /\ DamageStays' /\ IsSequence(events')
  BY DamagingKeeps DEF ArchiveInv
<1> QED
  BY <1>1, ChainFaultKeeps DEF DamageEvent

LEMMA RenumberKeeps ==
    ASSUME ArchiveInv, NEW i \in DOMAIN events, NEW n, RenumberEvent(i, n)
    PROVE  ArchiveInv'
<1>1. RowsOK' /\ DamageStays' /\ IsSequence(events')
  BY RenumberingKeeps DEF ArchiveInv
<1> QED
  BY <1>1, ChainFaultKeeps DEF RenumberEvent

\* A damaged snapshot keeps its digest or has none.
LEMMA DamageSnapshotKeeps == ASSUME ArchiveInv, DamageSnapshot PROVE ArchiveInv'
<1>1. /\ Fault /\ snapshot # None /\ dossier' = dossier /\ events' = events
      /\ state' = state /\ sealed' = sealed
  BY DEF DamageSnapshot, Fault
<1>2. IsSnapshot(snapshot)
  BY <1>1 DEF ArchiveInv, SealOK
<1>3. IsSnapshot(snapshot') /\ snapshot'.digest \in {snapshot.digest, BrokenHash}
  <2>1. CASE snapshot' = [snapshot EXCEPT !.digest = BrokenHash]
    <3>1. "digest" \in DOMAIN snapshot
      BY <1>2 DEF IsSnapshot, SnapshotFields
    <3>2. IsSnapshot([snapshot EXCEPT !["digest"] = BrokenHash])
      BY <1>2, SnapshotChanged
    <3> QED
      BY <2>1, <3>1, <3>2
  <2>2. ASSUME NEW f \in {"id", "drill", "baselineVersion", "ruleVersion"},
               snapshot' = [snapshot EXCEPT ![f] = Garbage]
        PROVE  IsSnapshot(snapshot') /\ snapshot'.digest = snapshot.digest
    <3>1. f # "checklist" /\ f # "digest"
      OBVIOUS
    <3> QED
      BY <1>2, <2>2, <3>1, SnapshotChanged
  <2>3. ASSUME NEW f \in FactsFields, NEW other \in Facts,
               snapshot' = [snapshot EXCEPT ![f] = other[f]]
        PROVE  IsSnapshot(snapshot') /\ snapshot'.digest = snapshot.digest
    <3>1. f # "digest"
      BY DEF FactsFields
    <3>2. f = "checklist" => IsFiniteSet(other[f]) /\ other[f] \subseteq Int
      BY FactsAssumption
    <3> QED
      BY <1>2, <2>3, <3>1, <3>2, SnapshotChanged
  <2> QED
    BY <2>1, <2>2, <2>3 DEF DamageSnapshot
<1>4. snapshot' # None
  BY <1>3, SnapshotDigestTells
<1>5. SealOK'
  <2>1. state = "certified" => snapshot'.digest \in {sealed.snapshot.digest, BrokenHash}
    BY <1>3 DEF ArchiveInv, SealOK
  <2>2. /\ dossier # None => state = "certified"
        /\ state = "certified" =>
              /\ IsSnapshot(sealed.snapshot)
              /\ sealed.snapshot.digest = SnapshotDigest(sealed.snapshot)
              /\ Approved(sealed.snapshot, sealed.dossier, sealed.events)
              /\ IsSequence(sealed.events) /\ VerifyChain(sealed.events)
              /\ \A i \in DOMAIN sealed.events : IsRow(sealed.events[i])
              /\ dossier # None /\ IsDossier(dossier) /\ IsSequence(dossier.results)
              /\ dossier.document \in {sealed.dossier.document, BrokenHash}
    BY DEF ArchiveInv, SealOK
  <2> QED
    BY <1>1, <1>3, <1>4, <2>1, <2>2 DEF SealOK, IsSnapshot, IsDossier, Approved, IsRow
<1> QED
  BY <1>1, <1>5, RowFaultKeeps

\* A field of a dossier changed that is neither its results nor its digest.
LEMMA DossierChanged ==
    ASSUME NEW d, IsDossier(d), IsSequence(d.results), NEW f, NEW x,
           f # "results" \/ IsSequence(x), f # "document" \/ x = BrokenHash
    PROVE  LET t == [d EXCEPT ![f] = x] IN
           /\ IsDossier(t) /\ IsSequence(t.results) /\ t # None
           /\ t.document \in {d.document, BrokenHash}
<1> DEFINE t == [d EXCEPT ![f] = x]
<1>1. t = [k \in DossierFields |-> IF k = f THEN x ELSE d[k]]
  BY DEF IsDossier
<1>2. "results" \in DossierFields /\ "document" \in DossierFields
  BY DEF DossierFields
<1> HIDE DEF t
<1>3. /\ t.results = IF "results" = f THEN x ELSE d.results
      /\ t.document = IF "document" = f THEN x ELSE d.document
  BY <1>1, <1>2
<1>4. IsDossier(t)
  BY <1>1 DEF IsDossier
<1>5. t # None
  BY <1>1, <1>2 DEF None
<1>6. IsSequence(t.results) /\ t.document \in {d.document, BrokenHash}
  BY <1>3
<1> QED
  BY <1>4, <1>5, <1>6 DEF t

\* A damaged dossier keeps its digest or has none.
LEMMA DamageDossierKeeps == ASSUME ArchiveInv, DamageDossier PROVE ArchiveInv'
<1>1. /\ Fault /\ dossier # None /\ snapshot' = snapshot /\ events' = events
      /\ state' = state /\ sealed' = sealed
  BY DEF DamageDossier, Fault
<1>2. /\ state = "certified" /\ IsDossier(dossier) /\ IsSequence(dossier.results)
      /\ dossier.document \in {sealed.dossier.document, BrokenHash}
  BY <1>1 DEF ArchiveInv, SealOK
<1>3. PICK f, x : /\ dossier' = [dossier EXCEPT ![f] = x]
                  /\ f # "results" \/ IsSequence(x)
                  /\ f # "document" \/ x = BrokenHash
  <2>1. ASSUME dossier' = [dossier EXCEPT !.document = BrokenHash]
        PROVE  dossier' = [dossier EXCEPT !["document"] = BrokenHash]
    BY <2>1
  <2>2. ASSUME dossier' = [dossier EXCEPT !.passed = @ + 1]
        PROVE  \E x : dossier' = [dossier EXCEPT !["passed"] = x]
    BY <2>2
  <2>3. ASSUME NEW i \in DOMAIN dossier.results, NEW row,
               dossier' = [dossier EXCEPT !.results = [dossier.results EXCEPT ![i] = row]]
        PROVE  \E x : dossier' = [dossier EXCEPT !["results"] = x] /\ IsSequence(x)
    <3>1. IsSequence([dossier.results EXCEPT ![i] = row])
      BY <1>2, Changed
    <3> QED
      BY <2>3, <3>1
  <2>4. ASSUME NEW i \in DOMAIN dossier.results,
               dossier' = [dossier EXCEPT !.results = RemoveAt(@, i)]
        PROVE  \E x : dossier' = [dossier EXCEPT !["results"] = x] /\ IsSequence(x)
    <3>1. IsSequence(RemoveAt(dossier.results, i))
      BY <1>2, Removed
    <3> QED
      BY <2>4, <3>1
  <2>5. ASSUME NEW i \in DOMAIN dossier.results,
               \/ dossier' = [dossier EXCEPT !.results[i].opinion = Garbage]
               \/ dossier' = [dossier EXCEPT !.results[i].conclusion = "returned"]
               \/ dossier' = [dossier EXCEPT !.results[i].item = @ + 1]
        PROVE  \E row : dossier' = [dossier EXCEPT !.results =
                                        [dossier.results EXCEPT ![i] = row]]
    BY <2>5
  <2> QED
    BY <2>1, <2>2, <2>3, <2>4, <2>5 DEF DamageDossier
<1>4. /\ IsDossier(dossier') /\ IsSequence(dossier'.results) /\ dossier' # None
      /\ dossier'.document \in {dossier.document, BrokenHash}
  BY <1>2, <1>3, DossierChanged
<1>5. SealOK'
  <2>1. dossier'.document \in {sealed.dossier.document, BrokenHash}
    BY <1>2, <1>4
  <2>2. /\ snapshot # None => IsSnapshot(snapshot)
        /\ IsSnapshot(sealed.snapshot)
        /\ sealed.snapshot.digest = SnapshotDigest(sealed.snapshot)
        /\ Approved(sealed.snapshot, sealed.dossier, sealed.events)
        /\ IsSequence(sealed.events) /\ VerifyChain(sealed.events)
        /\ \A i \in DOMAIN sealed.events : IsRow(sealed.events[i])
        /\ snapshot # None /\ snapshot.digest \in {sealed.snapshot.digest, BrokenHash}
    BY <1>2 DEF ArchiveInv, SealOK
  <2> QED
    BY <1>1, <1>2, <1>4, <2>1, <2>2 DEF SealOK, IsSnapshot, IsDossier, Approved, IsRow
<1> QED
  BY <1>1, <1>5, RowFaultKeeps

\* The results of an approval: every item once.
LEMMA PassingResults ==
    ASSUME NEW checklist, IsFiniteSet(checklist), NEW results \in Passing(checklist)
    PROVE  /\ IsSequence(results) /\ Len(results) = Cardinality(checklist)
           /\ \A i \in DOMAIN results :
                 /\ results[i].conclusion = "passed" /\ results[i].item \in checklist
                 /\ \A j \in DOMAIN results : results[j].item = results[i].item => j = i
<1> DEFINE n == Cardinality(checklist)
<1>1. n \in Nat
  BY FS_CardinalityType
<1>2. PICK order \in SetToSeqs(checklist) :
         results = [i \in DOMAIN order |-> [item |-> order[i], conclusion |-> "passed",
                                            opinion |-> "fine"]]
  BY DEF Passing
<1>3. /\ order \in [1..n -> checklist]
      /\ \A i, j \in 1..n : i # j => order[i] # order[j]
  BY <1>2 DEF SetToSeqs
<1> HIDE DEF n
<1>4. /\ DOMAIN results = 1..n
      /\ \A i \in 1..n : /\ results[i] = [item |-> order[i], conclusion |-> "passed",
                                          opinion |-> "fine"]
                         /\ results[i].item = order[i] /\ results[i].conclusion = "passed"
  BY <1>2, <1>3
<1>5. results \in [1..n -> {results[i] : i \in 1..n}]
  BY <1>2, <1>3, <1>4
<1>6. results \in Seq({results[i] : i \in 1..n}) /\ Len(results) = n
  BY <1>1, <1>4, <1>5, SeqDef
<1>7. IsSequence(results)
  BY <1>6, SeqIsSequence
<1>8. \A i \in DOMAIN results :
         /\ results[i].conclusion = "passed" /\ results[i].item \in checklist
         /\ \A j \in DOMAIN results : results[j].item = results[i].item => j = i
  BY <1>3, <1>4
<1> QED
  BY <1>6, <1>7, <1>8 DEF n

\* The drill is stored with its first event.
LEMMA InitInv == ASSUME Init PROVE ArchiveInv
<1> DEFINE content == [type |-> "drill.created", write |-> 1]
           e == NewEvent(<< >>, content)
<1>1. /\ state = "open" /\ snapshot = None /\ dossier = None /\ writes = 1 /\ faults = 0
      /\ events = <<e>> /\ written = {Link(events, 1)}
  BY DEF Init
<1>2. /\ IsRow(e) /\ Fits(e) /\ e.previous = NoHash /\ e.content = content
  BY DEF NewEvent, IsRow, Fits, HeadHash
<1>3. content \in [type : EventTypes, write : 1..1]
  BY DEF EventTypes
<1> HIDE DEF content, e
<1>4. /\ IsSequence(events) /\ Len(events) = 1 /\ DOMAIN events = {1} /\ events[1] = e
      /\ events # << >>
  <2>1. events \in Seq({e}) /\ Len(events) = 1 /\ events[1] = e /\ events # << >>
    BY <1>1
  <2>2. DOMAIN events = 1..1
    BY <2>1
  <2>3. IsSequence(events)
    BY <2>1, SeqIsSequence
  <2> QED
    BY <2>1, <2>2, <2>3
<1>5. written = {[event |-> e, after |-> None]}
  BY <1>1, <1>4 DEF Link
<1>6. CountsOK
  BY <1>1, <1>4 DEF CountsOK
<1>7. WrittenOK
  <2>1. ASSUME NEW w \in written
        PROVE  w.event = e /\ w.after = None /\ w = [event |-> w.event, after |-> w.after]
    BY <1>5
  <2> QED
    BY <1>1, <1>2, <1>3, <2>1 DEF WrittenOK
<1>8. RowsOK
  <2>1. PICK w \in written : w.event = e
    BY <1>5
  <2> QED
    BY <1>2, <1>4, <2>1 DEF RowsOK, RemainsOf
<1>9. DamageStays
  BY <1>5 DEF DamageStays
<1>10. SealOK
  BY <1>1 DEF SealOK
<1>11. VerifyChain(events)
  <2>1. IsSequence(<< >>) /\ VerifyChain(<< >>)
    <3>1. << >> \in Seq({}) /\ DOMAIN << >> = {}
      OBVIOUS
    <3>2. IsSequence(<< >>)
      BY <3>1, SeqIsSequence
    <3>3. VerifyChain(<< >>)
      BY <3>1 DEF VerifyChain
    <3> QED
      BY <3>2, <3>3
  <2>2. VerifyChain(Append(<< >>, NewEvent(<< >>, content)))
    BY <2>1, AppendVerifies
  <2>3. Append(<< >>, e) = <<e>>
    OBVIOUS
  <2> QED
    BY <1>1, <2>2, <2>3 DEF e
<1>12. FaultFree
  BY <1>1, <1>4, <1>11 DEF FaultFree
<1> QED
  BY <1>6, <1>7, <1>8, <1>9, <1>10, <1>12 DEF ArchiveInv

LEMMA StutterKeeps == ASSUME ArchiveInv, UNCHANGED vars PROVE ArchiveInv'
<1>1. /\ state' = state /\ snapshot' = snapshot /\ dossier' = dossier /\ events' = events
      /\ writes' = writes /\ faults' = faults /\ written' = written /\ sealed' = sealed
  BY DEF vars
<1> QED
  BY <1>1 DEF ArchiveInv, CountsOK, WrittenOK, RowsOK, DamageStays, SealOK, FaultFree,
     IsRow, Fits, RemainsOf, KnownHashes, IsSnapshot, IsDossier, Approved, HeadFound

LEMMA NextInv == ASSUME ArchiveInv, [Next]_vars PROVE ArchiveInv'
<1>1. CASE Write
  BY <1>1, WriteKeeps
<1>2. CASE ReturnReview
  BY <1>2, ReturnKeeps
<1>3. CASE DamageSnapshot
  BY <1>3, DamageSnapshotKeeps
<1>4. CASE DamageDossier
  BY <1>4, DamageDossierKeeps
<1>5. ASSUME NEW facts \in Facts, SubmitReview(facts) PROVE ArchiveInv'
  BY <1>5, SubmitKeeps
<1>6. ASSUME state = "review", NEW r \in Reviewers, NEW results \in Passing(snapshot.checklist),
             ApproveReview(r, results)
      PROVE  ArchiveInv'
  <2>1. IsFiniteSet(snapshot.checklist)
    BY <1>6 DEF ArchiveInv, SealOK, IsSnapshot
  <2>2. IsSequence(results)
    BY <2>1, PassingResults
  <2> QED
    BY <1>6, <2>2, ApproveKeeps
<1>7. ASSUME NEW i \in DOMAIN events, LoseEvent(i) PROVE ArchiveInv'
  BY <1>7, LoseKeeps
<1>8. ASSUME NEW i \in DOMAIN events, DamageEvent(i) PROVE ArchiveInv'
  BY <1>8, DamageKeeps
<1>9. ASSUME NEW i \in DOMAIN events, NEW n \in 0..(MaxWrites + 1), RenumberEvent(i, n)
      PROVE  ArchiveInv'
  BY <1>9, RenumberKeeps
<1>10. CASE UNCHANGED vars
  BY <1>10, StutterKeeps
<1> QED
  BY <1>1, <1>2, <1>3, <1>4, <1>5, <1>6, <1>7, <1>8, <1>9, <1>10 DEF Next

\* What the rows of an archive can have become, in every reachable state.
THEOREM ArchiveInvariant == Spec => []ArchiveInv
  BY InitInv, NextInv, PTL DEF Spec

-----------------------------------------------------------------------------
(* What a verified chain and a valid dossier are worth.                    *)

\* What verifies has verified before the last event.
LEMMA BeginningVerifies ==
    ASSUME NEW chain, IsSequence(chain), NEW e, VerifyChain(Append(chain, e))
    PROVE  VerifyChain(chain)
<1> DEFINE t == Append(chain, e)
           n == Len(chain)
<1>1. /\ n \in Nat /\ DOMAIN chain = 1..n /\ DOMAIN t = 1..(n + 1)
      /\ \A i \in 1..n : t[i] = chain[i]
  BY Appended
<1>2. \A i \in 1..n : SubSeq(t, 1, i - 1) = SubSeq(chain, 1, i - 1)
  BY <1>1, AppendKeepsBeginnings
<1> HIDE DEF t
<1>3. \A i \in 1..n : /\ t[i].sequence = i
                      /\ t[i].previous = HeadHash(SubSeq(t, 1, i - 1))
                      /\ t[i].hash = EventDigest(t[i].previous, t[i].sequence, t[i].content)
  BY <1>1 DEF VerifyChain, t
<1> QED
  BY <1>1, <1>2, <1>3 DEF VerifyChain

\* In a chain that verifies, a row fits its digest and names the row before.
LEMMA VerifiedRow ==
    ASSUME NEW chain, IsSequence(chain), VerifyChain(chain), NEW i \in DOMAIN chain
    PROVE  /\ Fits(chain[i]) /\ chain[i].sequence = i
           /\ chain[i].hash # BrokenHash /\ chain[i].hash # NoHash
           /\ i = 1 => chain[i].previous = NoHash
           /\ i # 1 => i - 1 \in DOMAIN chain /\ chain[i].previous = chain[i - 1].hash
<1>1. Len(chain) \in Nat /\ DOMAIN chain = 1..Len(chain)
  BY DEF IsSequence
<1>2. /\ Fits(chain[i]) /\ chain[i].sequence = i
      /\ chain[i].previous = HeadHash(SubSeq(chain, 1, i - 1))
  BY DEF VerifyChain, Fits
<1>3. chain[i].hash # BrokenHash /\ chain[i].hash # NoHash
  BY <1>2, DigestTells, DigestIsSome DEF Fits
<1> DEFINE b == SubSeq(chain, 1, i - 1)
<1>4. IsSequence(b) /\ Len(b) = i - 1 /\ \A k \in 1..(i - 1) : b[k] = chain[k]
  <2>1. i - 1 \in 0..Len(chain)
    BY <1>1
  <2> QED
    BY <2>1, Beginning
<1> HIDE DEF b
<1>5. CASE i = 1
  <2>1. Len(b) = 0
    BY <1>4, <1>5
  <2>2. HeadHash(b) = NoHash
    BY <1>4, <2>1, HeadOfChain
  <2> QED
    BY <1>2, <1>3, <1>5, <2>2 DEF b
<1>6. CASE i # 1
  <2>1. i - 1 \in 1..Len(chain) /\ i - 1 \in 1..(i - 1) /\ Len(b) # 0
    BY <1>1, <1>4, <1>6
  <2>2. HeadHash(b) = chain[i - 1].hash
    BY <1>4, <2>1, HeadOfChain
  <2> QED
    BY <1>1, <1>2, <1>3, <1>6, <2>1, <2>2 DEF b
<1> QED
  BY <1>5, <1>6

\* Every event of a verified chain is an event that was written, after the
\* row it now follows.
LEMMA VerifiedWasWritten == ASSUME ArchiveInv PROVE VerifiedChainWasWritten
<1> SUFFICES ASSUME VerifyChain(events), NEW i \in DOMAIN events
             PROVE  Link(events, i) \in written
  BY DEF VerifiedChainWasWritten
<1>1. CountsOK /\ WrittenOK /\ RowsOK /\ DamageStays /\ IsSequence(events)
  BY DEF ArchiveInv, CountsOK
<1>2. /\ Fits(events[i]) /\ events[i].hash # BrokenHash
      /\ i = 1 => events[i].previous = NoHash
      /\ i # 1 => /\ i - 1 \in DOMAIN events /\ Fits(events[i - 1])
                  /\ events[i].previous = events[i - 1].hash
                  /\ events[i - 1].hash # NoHash
  BY <1>1, VerifiedRow
<1>3. PICK w \in written : w.event.hash = events[i].hash
  BY <1>1, <1>2 DEF RowsOK, RemainsOf
<1>4. /\ w = [event |-> w.event, after |-> w.after]
      /\ IsRow(w.event) /\ Fits(w.event) /\ IsRow(events[i])
      /\ w.after = None => w.event.previous = NoHash
      /\ w.after # None => IsRow(w.after) /\ w.event.previous = w.after.hash
                              /\ w.after.hash \in KnownHashes
  BY <1>1 DEF WrittenOK, RowsOK
<1>5. w.event = events[i]
  BY <1>2, <1>3, <1>4, RowByDigest
<1>6. i = 1 => w.after = None
  <2>1. NoHash \notin KnownHashes
    BY <1>1, ContentIsWhole, DigestTells DEF KnownHashes, CountsOK
  <2> QED
    BY <1>2, <1>4, <1>5, <2>1
<1>7. i # 1 => w.after = events[i - 1]
  <2>1. SUFFICES ASSUME i # 1 PROVE w.after = events[i - 1]
    OBVIOUS
  <2> DEFINE a == events[i - 1]
  <2>2. i - 1 \in DOMAIN events /\ Fits(a) /\ a.hash # NoHash /\ IsRow(a)
           /\ events[i].previous = a.hash
    BY <1>1, <1>2, <2>1 DEF RowsOK
  <2>3. w.after # None /\ IsRow(w.after) /\ w.after.hash = a.hash
    BY <1>4, <1>5, <2>2
  <2>4. Fits(w.after)
    BY <1>1, <2>2, <2>3 DEF DamageStays
  <2> HIDE DEF a
  <2>5. w.after = a
    BY <2>2, <2>3, <2>4, RowByDigest
  <2> QED
    BY <2>5 DEF a
<1>8. Link(events, i) = [event |-> events[i], after |-> IF i = 1 THEN None ELSE events[i - 1]]
  BY DEF Link
<1> QED
  BY <1>3, <1>4, <1>5, <1>6, <1>7, <1>8

\* What verifies was written (VerifyChain, appendEvent): every event of a
\* chain that verifies is as it was appended, and so is the row before it.
THEOREM VerifiedIsWritten == Spec => []VerifiedChainWasWritten
  BY ArchiveInvariant, VerifiedWasWritten, PTL

\* No write mends a broken chain: what one start of the service reports, every
\* later one reports (appendEvent, VerifyAllEventChains).
THEOREM BrokenForGood == Spec => BrokenStaysBroken
<1>1. ASSUME ArchiveInv, [Next]_vars
      PROVE  [faults' = faults /\ ~VerifyChain(events) => ~VerifyChain(events')]_vars
  <2>1. SUFFICES ASSUME Next, faults' = faults, VerifyChain(events')
                 PROVE  VerifyChain(events)
    BY <1>1
  <2>2. ASSUME Fault PROVE FALSE
    BY <1>1, <2>1, <2>2 DEF Fault, ArchiveInv, CountsOK
  <2>3. \E e : events' = Append(events, e)
    BY <2>1, <2>2 DEF Next, Write, ReturnReview, DamageSnapshot, DamageDossier, SubmitReview,
       ApproveReview, LoseEvent, DamageEvent, RenumberEvent, RecordEvent
  <2> QED
    BY <1>1, <2>1, <2>3, BeginningVerifies DEF ArchiveInv, CountsOK
<1> QED
  BY <1>1, ArchiveInvariant, PTL DEF Spec, BrokenStaysBroken

\* As long as storage keeps what it was given, nothing fails to verify.
LEMMA NoFault == ASSUME ArchiveInv PROVE NoFalseAlarm
<1> SUFFICES ASSUME faults = 0
             PROVE  /\ VerifyChain(events) /\ Len(events) = writes
                    /\ state = "review" => Decidable
                    /\ dossier # None => Valid
  BY DEF NoFalseAlarm
<1>1. VerifyChain(events) /\ Len(events) = writes
  BY DEF ArchiveInv, FaultFree
<1>2. state = "review" => Decidable
  BY DEF ArchiveInv, FaultFree, Decidable
<1>3. ASSUME dossier # None PROVE Valid
  <2>1. /\ state = "certified" /\ snapshot # None
        /\ IsSnapshot(snapshot) /\ SnapshotDigest(snapshot) = snapshot.digest
        /\ Approved(snapshot, dossier, sealed.events)
        /\ HeadFound(dossier, events)
    BY <1>3 DEF ArchiveInv, SealOK, FaultFree
  <2>2. PICK r \in Reviewers, results \in Passing(snapshot.checklist) :
           dossier = GenerateDossier(snapshot, Decision(r, HeadHash(sealed.events),
                        ChecklistDigest(results), Len(results), results))
    BY <2>1 DEF Approved
  <2> DEFINE d == Decision(r, HeadHash(sealed.events), ChecklistDigest(results),
                           Len(results), results)
  <2>3. /\ d.results = results /\ d.passed = Len(results)
        /\ d.checklistDigest = ChecklistDigest(results)
        /\ d = Decision(d.reviewer, d.head, d.checklistDigest, d.passed, d.results)
    BY DEF Decision
  <2>4. dossier = GenerateDossier(snapshot, d)
    BY <2>2
  <2> HIDE DEF d
  <2>5. /\ dossier.drill = snapshot.drill /\ dossier.snapshot = snapshot.id
        /\ dossier.decision = "approved"
        /\ dossier.reviewer = d.reviewer /\ dossier.head = d.head
        /\ dossier.checklistDigest = d.checklistDigest
        /\ dossier.passed = d.passed /\ dossier.results = d.results
    BY <2>4, DossierIsGenerated
  <2>6. DecisionOf(dossier) = d
    BY <2>3, <2>5 DEF DecisionOf
  <2>7. NothingDrifted(dossier, snapshot)
    BY <2>1, <2>4, <2>6 DEF NothingDrifted
  <2>8. ChecklistDigest(dossier.results) = dossier.checklistDigest
    BY <2>3, <2>5
  <2>9. ChecklistPassed(dossier, snapshot)
    <3>1. /\ IsSequence(results) /\ Len(results) = Cardinality(snapshot.checklist)
          /\ \A i \in DOMAIN results :
                /\ results[i].conclusion = "passed" /\ results[i].item \in snapshot.checklist
                /\ \A j \in DOMAIN results : results[j].item = results[i].item => j = i
      BY <2>1, PassingResults DEF IsSnapshot
    <3>2. DOMAIN results = 1..Len(results) /\ Len(results) \in Nat
      BY <3>1 DEF IsSequence
    <3>3. ASSUME NEW i \in DOMAIN results, NEW j \in 1..(i - 1)
          PROVE  results[j].item # results[i].item
      <4>1. j \in DOMAIN results /\ j # i
        BY <3>2
      <4> QED
        BY <3>1, <4>1
    <3> QED
      BY <2>3, <2>5, <3>1, <3>3 DEF ChecklistPassed
  <2> QED
    BY <1>1, <1>3, <2>1, <2>5, <2>7, <2>8, <2>9 DEF Valid, VerifyDossier
<1> QED
  BY <1>1, <1>2, <1>3

\* Nothing cries wolf (VerifyChain, ReviewDecision, VerifyDossier): without a
\* fault the chain verifies at any time, a review can be decided, and a
\* dossier is valid from its approval on.
THEOREM NoAlarmWithoutFault == Spec => []NoFalseAlarm
  BY ArchiveInvariant, NoFault, PTL

\* Sorting gives every result a place of its own.
LEMMA SortedPlaces ==
    ASSUME NEW results, IsSequence(results),
           \A i \in DOMAIN results : results[i].item \in Int,
           NEW n, n = Len(results), NEW place,
           place = [i \in 1..n |-> Cardinality(SortedBefore(results, i)) + 1]
    PROVE  /\ n \in Nat /\ DOMAIN results = 1..n
           /\ place \in Injection(1..n, 1..n) /\ place \in Surjection(1..n, 1..n)
<1>1. n \in Nat /\ DOMAIN results = 1..n
  BY DEF IsSequence
<1> DEFINE before(i) == SortedBefore(results, i)
<1>2. \A i \in 1..n : IsFiniteSet(1..n) /\ before(i) \subseteq (1..n) \ {i}
  <2>1. IsFiniteSet(1..n)
    BY <1>1, FS_Interval
  <2> QED
    BY <1>1, <2>1 DEF SortedBefore
<1>3. ASSUME NEW i \in 1..n
      PROVE  /\ IsFiniteSet(before(i)) /\ Cardinality(before(i)) \in Nat
             /\ place[i] = Cardinality(before(i)) + 1 /\ place[i] \in 1..n
  <2>1. Cardinality(1..n) = n
    <3>1. 1 \in Int /\ n \in Int
      BY <1>1
    <3>2. Cardinality(1..n) = IF 1 > n THEN 0 ELSE n - 1 + 1
      BY <3>1, FS_Interval
    <3> QED
      BY <1>1, <3>2
  <2>2. /\ IsFiniteSet((1..n) \ {i}) /\ Cardinality((1..n) \ {i}) = n - 1
    BY <1>2, <2>1, FS_RemoveElement
  <2>3. /\ IsFiniteSet(before(i)) /\ Cardinality(before(i)) \in Nat
        /\ Cardinality(before(i)) <= n - 1
    BY <1>2, <2>2, FS_Subset, FS_CardinalityType
  <2> HIDE DEF before
  <2>4. place[i] = Cardinality(before(i)) + 1
    BY DEF before
  <2> QED
    BY <1>1, <2>3, <2>4
<1>4. ASSUME NEW i \in 1..n, NEW j \in 1..n, j \in before(i)
      PROVE  place[j] < place[i]
  <2>1. before(j) \cup {j} \subseteq before(i)
    <3>1. ASSUME NEW k \in before(j) PROVE k \in before(i)
      <4>1. k \in 1..n /\ results[k].item \in Int /\ results[j].item \in Int
               /\ results[i].item \in Int
        BY <1>1 DEF SortedBefore
      <4> QED
        BY <1>1, <1>4, <4>1 DEF SortedBefore
    <3> QED
      BY <1>4, <3>1
  <2>2. j \notin before(j)
    BY <1>2
  <2> HIDE DEF before
  <2>3. Cardinality(before(j) \cup {j}) = Cardinality(before(j)) + 1
    BY <1>3, <2>2, FS_AddElement
  <2>4. Cardinality(before(j) \cup {j}) <= Cardinality(before(i))
    BY <1>3, <2>1, FS_Subset
  <2> QED
    BY <1>3, <2>3, <2>4
<1>5. ASSUME NEW i \in 1..n, NEW j \in 1..n, i # j
      PROVE  i \in before(j) \/ j \in before(i)
  BY <1>1, <1>5 DEF SortedBefore
<1> HIDE DEF before
<1>6. ASSUME NEW i \in 1..n, NEW j \in 1..n, place[i] = place[j]
      PROVE  i = j
  <2>1. place[i] \in Int /\ place[j] \in Int
    BY <1>3
  <2> QED
    BY <1>4, <1>5, <1>6, <2>1
<1>7. place \in [1..n -> 1..n]
  BY <1>3
<1>8. place \in Injection(1..n, 1..n)
  BY <1>6, <1>7 DEF Injection, IsInjective
<1>9. place \in Surjection(1..n, 1..n)
  <2>1. IsFiniteSet(1..n)
    BY <1>1, FS_Interval
  <2> QED
    BY <1>8, <2>1, FS_Injection
<1> QED
  BY <1>1, <1>8, <1>9

\* A digest over the sorted results covers these results and no others.
LEMMA DigestCoversResults ==
    ASSUME NEW results, IsSequence(results),
           \A i \in DOMAIN results : results[i].item \in Int
    PROVE  ToSet(ChecklistDigest(results)) = ToSet(results)
<1> DEFINE n == Len(results)
           place == [i \in 1..n |-> Cardinality(SortedBefore(results, i)) + 1]
           digest == ChecklistDigest(results)
           at(k) == CHOOSE i \in DOMAIN results :
                       Cardinality(SortedBefore(results, i)) = k - 1
<1>1. /\ n \in Nat /\ DOMAIN results = 1..n
      /\ place \in Injection(1..n, 1..n) /\ place \in Surjection(1..n, 1..n)
  BY SortedPlaces
<1>2. \A i \in 1..n : IsFiniteSet(SortedBefore(results, i))
                         /\ Cardinality(SortedBefore(results, i)) \in Nat
  <2>1. IsFiniteSet(1..n)
    BY <1>1, FS_Interval
  <2>2. \A i \in 1..n : SortedBefore(results, i) \subseteq 1..n
    BY <1>1 DEF SortedBefore
  <2> QED
    BY <2>1, <2>2, FS_Subset, FS_CardinalityType
<1>3. DOMAIN digest = 1..n /\ \A k \in 1..n : digest[k] = results[at(k)]
  BY <1>1 DEF ChecklistDigest
<1>4. ASSUME NEW k \in 1..n
      PROVE  at(k) \in 1..n /\ place[at(k)] = k
  <2>1. PICK i \in 1..n : place[i] = k
    BY <1>1 DEF Surjection
  <2>2. Cardinality(SortedBefore(results, i)) = k - 1
    BY <1>1, <1>2, <2>1
  <2>3. at(k) \in DOMAIN results /\ Cardinality(SortedBefore(results, at(k))) = k - 1
    BY <1>1, <2>2
  <2> HIDE DEF at
  <2> QED
    BY <1>1, <2>3
<1>5. ASSUME NEW i \in 1..n
      PROVE  place[i] \in 1..n /\ at(place[i]) = i
  <2>1. place[i] \in 1..n
    BY <1>1 DEF Injection
  <2>2. at(place[i]) \in 1..n /\ place[at(place[i])] = place[i]
    BY <1>4, <2>1
  <2> HIDE DEF at, place
  <2> QED
    BY <1>1, <2>1, <2>2 DEF Injection, IsInjective
<1> HIDE DEF at, place, digest
<1>6. \A k \in 1..n : \E i \in 1..n : digest[k] = results[i]
  BY <1>3, <1>4
<1>7. ASSUME NEW i \in 1..n PROVE \E k \in 1..n : digest[k] = results[i]
  <2>1. place[i] \in 1..n /\ at(place[i]) = i
    BY <1>5
  <2>2. digest[place[i]] = results[at(place[i])]
    BY <1>3, <2>1
  <2> QED
    BY <2>1, <2>2
<1>8. /\ ToSet(digest) = {digest[k] : k \in 1..n}
      /\ ToSet(results) = {results[i] : i \in 1..n}
  BY <1>1, <1>3 DEF ToSet
<1> QED
  BY <1>6, <1>7, <1>8 DEF digest

\* Two chains that verify and share a digest are the same up to it.
LEMMA SameHeadSameChain ==
    ASSUME NEW a, NEW b, IsSequence(a), IsSequence(b), VerifyChain(a), VerifyChain(b),
           \A i \in DOMAIN a : IsRow(a[i]), \A i \in DOMAIN b : IsRow(b[i]),
           NEW m \in DOMAIN a, NEW k \in DOMAIN b, a[m].hash = b[k].hash
    PROVE  m = k /\ \A i \in 1..m : i \in DOMAIN a /\ i \in DOMAIN b /\ a[i] = b[i]
<1>1. /\ Len(a) \in Nat /\ DOMAIN a = 1..Len(a) /\ Len(b) \in Nat /\ DOMAIN b = 1..Len(b)
  BY DEF IsSequence
<1>2. a[m] = b[k]
  BY VerifiedRow, RowByDigest
<1>3. m = k
  <2>1. a[m].sequence = m /\ b[k].sequence = k
    BY VerifiedRow
  <2> QED
    BY <1>2, <2>1
<1> DEFINE T == {d \in Nat : d < m => a[m - d] = b[m - d]}
<1>4. 0 \in T
  BY <1>1, <1>2, <1>3
<1>5. ASSUME NEW d \in Nat, d \in T PROVE d + 1 \in T
  <2>1. SUFFICES ASSUME d + 1 < m PROVE a[m - (d + 1)] = b[m - (d + 1)]
    OBVIOUS
  <2> DEFINE i == m - d
  <2>2. /\ i \in 1..m /\ i # 1 /\ m - (d + 1) = i - 1
        /\ i \in DOMAIN a /\ i \in DOMAIN b /\ d < m
    BY <1>1, <1>3, <2>1
  <2>3. a[i] = b[i]
    BY <1>5, <2>2
  <2> HIDE DEF i
  <2>4. /\ i - 1 \in DOMAIN a /\ i - 1 \in DOMAIN b
        /\ a[i].previous = a[i - 1].hash /\ b[i].previous = b[i - 1].hash
        /\ Fits(a[i - 1]) /\ Fits(b[i - 1])
    BY <2>2, VerifiedRow
  <2>5. a[i - 1] = b[i - 1]
    BY <2>3, <2>4, RowByDigest
  <2> QED
    BY <2>2, <2>5
<1>6. \A d \in Nat : d \in T
  <2> HIDE DEF T
  <2> QED
    BY <1>4, <1>5, EveryNumber
<1>7. ASSUME NEW i \in 1..m
      PROVE  i \in DOMAIN a /\ i \in DOMAIN b /\ a[i] = b[i]
  <2>1. m - i \in Nat /\ m - i < m /\ m - (m - i) = i /\ i \in DOMAIN a /\ i \in DOMAIN b
    BY <1>1, <1>3
  <2>2. m - i \in T
    BY <1>6, <2>1
  <2> QED
    BY <2>1, <2>2
<1> QED
  BY <1>3, <1>7

\* What the digests of a valid dossier vouch for.
LEMMA ValidVouches == ASSUME ArchiveInv PROVE ValidDossierVouches
<1> SUFFICES ASSUME Valid
             PROVE  /\ snapshot = sealed.snapshot
                    /\ \A f \in DOMAIN dossier \ (Restated \cup {"results"}) :
                          dossier[f] = sealed.dossier[f]
                    /\ ToSet(dossier.results) = ToSet(sealed.dossier.results)
                    /\ SubSeq(events, 1, Len(sealed.events)) = sealed.events
  BY DEF ValidDossierVouches
<1> DEFINE s == sealed.snapshot
           sd == sealed.dossier
           chain == sealed.events
           expected == GenerateDossier(snapshot, DecisionOf(dossier))
<1>1. /\ dossier # None /\ snapshot # None
      /\ dossier.decision = "approved" /\ dossier.drill = snapshot.drill
      /\ dossier.snapshot = snapshot.id
      /\ VerifyChain(events) /\ HeadFound(dossier, events)
      /\ ChecklistDigest(dossier.results) = dossier.checklistDigest
      /\ ChecklistPassed(dossier, snapshot)
      /\ SnapshotDigest(snapshot) = snapshot.digest
      /\ expected.canonical = dossier.canonical
      /\ expected.document = dossier.document
  BY DEF Valid, VerifyDossier, NothingDrifted
<1>2. /\ IsSnapshot(snapshot) /\ IsSnapshot(s) /\ s.digest = SnapshotDigest(s)
      /\ snapshot.digest \in {s.digest, BrokenHash}
      /\ Approved(s, sd, chain) /\ IsSequence(chain) /\ VerifyChain(chain)
      /\ \A i \in DOMAIN chain : IsRow(chain[i])
      /\ IsDossier(dossier) /\ IsSequence(dossier.results)
      /\ dossier.document \in {sd.document, BrokenHash}
      /\ IsSequence(events) /\ \A i \in DOMAIN events : IsRow(events[i])
  BY <1>1 DEF ArchiveInv, SealOK, CountsOK, RowsOK
<1>3. snapshot = s
  BY <1>1, <1>2, SnapshotDigestTells, SnapshotByDigest
<1>4. PICK r \in Reviewers, results \in Passing(s.checklist) :
         sd = GenerateDossier(s, Decision(r, HeadHash(chain), ChecklistDigest(results),
                                          Len(results), results))
  BY <1>2 DEF Approved
<1> HIDE DEF s, sd, chain, expected
<1>5. /\ sd.results = results /\ sd.head = HeadHash(chain)
      /\ sd.checklistDigest = ChecklistDigest(results)
      /\ sd.decision = "approved"
      /\ sd.canonical = PayloadOf(sd) /\ sd.document = <<PayloadOf(sd)>>
  <2> DEFINE d == Decision(r, HeadHash(chain), ChecklistDigest(results), Len(results), results)
  <2>1. /\ d.results = results /\ d.head = HeadHash(chain)
        /\ d.checklistDigest = ChecklistDigest(results)
    BY DEF Decision
  <2>2. sd = GenerateDossier(s, d)
    BY <1>4
  <2> HIDE DEF d
  <2> QED
    BY <2>1, <2>2, DossierIsGenerated
<1>6. /\ expected.drill = snapshot.drill /\ expected.snapshot = snapshot.id
      /\ expected.decision = "approved"
      /\ expected.reviewer = dossier.reviewer /\ expected.head = dossier.head
      /\ expected.checklistDigest = dossier.checklistDigest
      /\ expected.passed = dossier.passed
      /\ expected.canonical = PayloadOf(expected)
      /\ expected.document = <<PayloadOf(expected)>>
  <2> DEFINE d == DecisionOf(dossier)
  <2>1. /\ d.reviewer = dossier.reviewer /\ d.head = dossier.head
        /\ d.checklistDigest = dossier.checklistDigest /\ d.passed = dossier.passed
    BY DEF DecisionOf, Decision
  <2>2. expected = GenerateDossier(snapshot, d)
    BY DEF expected
  <2> HIDE DEF d
  <2> QED
    BY <2>1, <2>2, DossierIsGenerated
<1>7. PayloadOf(expected) = PayloadOf(sd) /\ dossier.document = sd.document
  <2>1. <<PayloadOf(expected)>> # BrokenHash
    BY DEF BrokenHash
  <2>2. <<PayloadOf(expected)>> = <<PayloadOf(sd)>>
    BY <1>1, <1>2, <1>5, <1>6, <2>1
  <2> QED
    BY <1>1, <1>5, <1>6, <2>2
<1>8. \A f \in PayloadFields : expected[f] = sd[f]
  BY <1>7 DEF PayloadOf
<1>9. /\ dossier.drill = sd.drill /\ dossier.snapshot = sd.snapshot
      /\ dossier.decision = sd.decision /\ dossier.reviewer = sd.reviewer
      /\ dossier.head = sd.head /\ dossier.checklistDigest = sd.checklistDigest
      /\ dossier.passed = sd.passed
  BY <1>1, <1>6, <1>8 DEF PayloadFields
<1>10. dossier.canonical = sd.canonical
  BY <1>1, <1>5, <1>6, <1>7
<1>11. ASSUME NEW f \in DOMAIN dossier \ (Restated \cup {"results"})
       PROVE  dossier[f] = sd[f]
  <2>1. f \in {"drill", "snapshot", "decision", "reviewer", "head", "checklistDigest", "passed",
               "canonical", "document"}
    BY <1>2 DEF IsDossier, DossierFields, PayloadFields, Restated
  <2> QED
    BY <1>7, <1>9, <1>10, <2>1
<1>12. ToSet(dossier.results) = ToSet(sd.results)
  <2>1. /\ IsSequence(results) /\ \A i \in DOMAIN results : results[i].item \in Int
    BY <1>2, PassingResults DEF IsSnapshot
  <2>2. \A i \in DOMAIN dossier.results : dossier.results[i].item \in Int
    BY <1>1, <1>2 DEF ChecklistPassed, IsSnapshot
  <2>3. ChecklistDigest(dossier.results) = ChecklistDigest(results)
    BY <1>1, <1>5, <1>9
  <2> QED
    BY <1>2, <1>5, <2>1, <2>2, <2>3, DigestCoversResults
<1>13. SubSeq(events, 1, Len(chain)) = chain
  <2>1. Len(chain) \in Nat /\ DOMAIN chain = 1..Len(chain)
           /\ Len(events) \in Nat /\ DOMAIN events = 1..Len(events)
    BY <1>2 DEF IsSequence
  <2>2. Len(chain) \in 0..Len(events) /\ \A i \in 1..Len(chain) : events[i] = chain[i]
    <3>1. CASE Len(chain) = 0
      BY <2>1, <3>1
    <3>2. CASE Len(chain) # 0
      <4>1. Len(chain) \in DOMAIN chain /\ dossier.head = chain[Len(chain)].hash
        BY <1>2, <1>5, <1>9, <2>1, <3>2, HeadOfChain
      <4>2. chain[Len(chain)].hash # NoHash
        BY <1>2, <4>1, VerifiedRow
      <4>3. PICK k \in DOMAIN events : events[k].hash = dossier.head
        BY <1>1, <4>1, <4>2 DEF HeadFound
      <4>4. /\ Len(chain) = k
            /\ \A i \in 1..Len(chain) : i \in DOMAIN events /\ chain[i] = events[i]
        BY <1>1, <1>2, <4>1, <4>3, SameHeadSameChain
      <4> QED
        BY <2>1, <4>3, <4>4
    <3> QED
      BY <3>1, <3>2
  <2> DEFINE b == SubSeq(events, 1, Len(chain))
  <2>3. IsSequence(b) /\ Len(b) = Len(chain) /\ \A i \in 1..Len(chain) : b[i] = events[i]
    BY <1>2, <2>2, Beginning
  <2> HIDE DEF b
  <2>4. b = chain
    BY <1>2, <2>2, <2>3, SameSequence
  <2> QED
    BY <2>4 DEF b
<1> QED
  BY <1>3, <1>11, <1>12, <1>13 DEF s, sd, chain

\* A dossier found valid vouches for the review (VerifyDossier,
\* GenerateDossier): snapshot, decision, reviewer and results are those of the
\* approval, and every event before it is there as the approval saw it.
THEOREM ValidMeansApproved == Spec => []ValidDossierVouches
  BY ArchiveInvariant, ValidVouches, PTL
=============================================================================
