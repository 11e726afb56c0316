----------------------------- MODULE AuditChain -----------------------------
(***************************************************************************)
(* The digest chain over the events of one drill (internal/audit/event.go).*)
(* SHA-256 over canonical JSON is taken to tell any two inputs apart, so a *)
(* digest is the very data it covers.                                      *)
(***************************************************************************)
EXTENDS Naturals, Sequences

\* s is a sequence, whatever it holds.
IsSequence(s) == s \in Seq({s[i] : i \in DOMAIN s})

\* The previous hash of a first event, "" in the code.
NoHash == << >>

\* Mutated form of EventDigest: the payload is not covered.
EventDigestOfPlace(previous, sequence, content) == <<previous, sequence>>

\* A digest covers the event before it, the event's number and what it says.
EventDigest(previous, sequence, content) == <<previous, sequence, content>>

HeadHash(events) == IF events = << >> THEN NoHash ELSE events[Len(events)].hash

LastSequence(events) == IF events = << >> THEN 0 ELSE events[Len(events)].sequence

\* Mutated form of NewEvent: numbered from zero.
NewEventFromZero(events, content) ==
    LET n == LastSequence(events) IN
    [sequence |-> n, content |-> content, previous |-> HeadHash(events),
     hash |-> EventDigest(HeadHash(events), n, content)]

\* The next event: number and previous digest come from the last row.
NewEvent(events, content) ==
    LET n == LastSequence(events) + 1 IN
    [sequence |-> n, content |-> content, previous |-> HeadHash(events),
     hash |-> EventDigest(HeadHash(events), n, content)]

\* Mutated form of VerifyChain: only what was added last is looked at.
VerifyLast(events) ==
    events # << >> =>
       LET last == events[Len(events)] IN
       /\ last.sequence = Len(events)
       /\ last.hash = EventDigest(last.previous, last.sequence, last.content)

VerifyChain(events) ==
    \A i \in DOMAIN events :
       /\ events[i].sequence = i
       /\ events[i].previous = HeadHash(SubSeq(events, 1, i - 1))
       /\ events[i].hash =
             EventDigest(events[i].previous, events[i].sequence, events[i].content)
=============================================================================
