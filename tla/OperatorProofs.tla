--------------------------- MODULE OperatorProofs ---------------------------
(* What the operators of the models compute, for data of any size: the two *)
(* judgements of a checkpoint, sequences that grow at their end and the    *)
(* digest chain over them, folds over a set and over a sequence.           *)
EXTENDS DrillRules, AuditChain, FiniteSetsExt, FiniteSetTheorems, SequenceTheorems,
        WellFoundedInduction, TLAPS

-----------------------------------------------------------------------------
(* Induction on numbers.                                                   *)

\* A set of numbers that is not empty has a least element.
LEMMA Least ==
    ASSUME NEW T, T \subseteq Nat, T # {}
    PROVE  \E n \in T : \A m \in T : n <= m
<1> DEFINE R == OpToRel(<, Nat)
<1>1. IsWellFoundedOn(R, Nat)
  BY NatLessThanWellFounded
<1> HIDE DEF R
<1>2. PICK n \in T : \A m \in T : <<m, n>> \notin R
  BY <1>1, WFMin
<1>3. \A m \in T : m < n => <<m, n>> \in R
  BY DEF R, OpToRel
<1>4. ASSUME NEW m \in T PROVE n <= m
  <2>1. m \in Nat /\ n \in Nat /\ ~(m < n)
    BY <1>2, <1>3
  <2> QED
    BY <2>1
<1> QED
  BY <1>4

\* Induction, for a set of numbers.
LEMMA EveryNumber ==
    ASSUME NEW T, 0 \in T, \A n \in Nat : n \in T => n + 1 \in T
    PROVE  \A n \in Nat : n \in T
<1> SUFFICES ASSUME Nat \ T # {} PROVE FALSE
  OBVIOUS
<1>1. PICK n \in Nat \ T : \A m \in Nat \ T : n <= m
  BY Least
<1>2. n # 0 /\ n - 1 \in Nat
  BY <1>1
<1>3. n - 1 \in T
  BY <1>1, <1>2
<1> QED
  BY <1>1, <1>2, <1>3

-----------------------------------------------------------------------------
(* The two judgements of a checkpoint.                                     *)

\* The items of a receipt, rule by rule.
LEMMA ReceiptItems ==
    ASSUME NEW cp \in CheckpointType, NEW m \in MetricsType
    PROVE  LET items == BuildJudgmentReceipt(cp, m) IN
           /\ DOMAIN items = RuleCodes
           /\ \A r \in RuleCodes : items[r].severity = Severity(r)
           /\ items["CAPACITY_MIN"].deviation = Positive(cp.capacity - m.participants)
           /\ items["TIME_LIMIT"].deviation = Positive(m.elapsed - cp.limit)
           /\ items["COMMUNICATION"].deviation = 0
           /\ items["ACCESSIBILITY"].deviation = 0
           /\ items["CAPACITY_MIN"].passed <=> Positive(cp.capacity - m.participants) = 0
           /\ items["TIME_LIMIT"].passed <=> Positive(m.elapsed - cp.limit) = 0
           /\ items["COMMUNICATION"].passed <=> (cp.comm => m.comm)
           /\ items["ACCESSIBILITY"].passed <=> (cp.access => m.access)
<1> DEFINE items == BuildJudgmentReceipt(cp, m)
<1>1. DOMAIN items = RuleCodes
  BY DEF BuildJudgmentReceipt
<1>2. /\ items["CAPACITY_MIN"] =
           [passed |-> Positive(cp.capacity - m.participants) = 0,
            deviation |-> Positive(cp.capacity - m.participants), severity |-> "critical"]
      /\ items["TIME_LIMIT"] =
           [passed |-> Positive(m.elapsed - cp.limit) = 0,
            deviation |-> Positive(m.elapsed - cp.limit), severity |-> "major"]
      /\ items["COMMUNICATION"] =
           [passed |-> (cp.comm => m.comm), deviation |-> 0, severity |-> "critical"]
      /\ items["ACCESSIBILITY"] =
           [passed |-> (cp.access => m.access), deviation |-> 0, severity |-> "major"]
  BY DEF BuildJudgmentReceipt, RuleCodes
<1> HIDE DEF items
<1>3. /\ items["CAPACITY_MIN"].passed = (Positive(cp.capacity - m.participants) = 0)
      /\ items["TIME_LIMIT"].passed = (Positive(m.elapsed - cp.limit) = 0)
      /\ items["COMMUNICATION"].passed = (cp.comm => m.comm)
      /\ items["ACCESSIBILITY"].passed = (cp.access => m.access)
  BY <1>2
<1>4. /\ items["CAPACITY_MIN"].deviation = Positive(cp.capacity - m.participants)
      /\ items["TIME_LIMIT"].deviation = Positive(m.elapsed - cp.limit)
      /\ items["COMMUNICATION"].deviation = 0
      /\ items["ACCESSIBILITY"].deviation = 0
  BY <1>2
<1>5. \A r \in RuleCodes : items[r].severity = Severity(r)
  BY <1>2 DEF Severity, RuleCodes
<1> QED
  BY <1>1, <1>3, <1>4, <1>5 DEF items

\* BuildJudgmentReceipt and Evaluate judge every reading alike.
THEOREM ReceiptAgreesWithEvaluation ==
    \A cp \in CheckpointType, m \in MetricsType : JudgedAlike(cp, m)
<1> SUFFICES ASSUME NEW cp \in CheckpointType, NEW m \in MetricsType
             PROVE  JudgedAlike(cp, m)
  OBVIOUS
<1> DEFINE items == BuildJudgmentReceipt(cp, m)
<1>1. /\ cp.capacity \in Nat /\ cp.limit \in Nat
      /\ m.participants \in Nat /\ m.elapsed \in Nat
  BY DEF CheckpointType, MetricsType
<1>2. /\ DOMAIN items = RuleCodes
      /\ \A r \in RuleCodes : items[r].severity = Severity(r)
  BY ReceiptItems
<1>3. /\ items["CAPACITY_MIN"].passed <=> ~(m.participants < cp.capacity)
      /\ items["TIME_LIMIT"].passed <=> ~(m.elapsed > cp.limit)
      /\ items["COMMUNICATION"].passed <=> ~(cp.comm /\ ~m.comm)
      /\ items["ACCESSIBILITY"].passed <=> ~(cp.access /\ ~m.access)
  BY <1>1, ReceiptItems DEF Positive
<1>4. /\ items["CAPACITY_MIN"].deviation >= 0 /\ items["TIME_LIMIT"].deviation >= 0
      /\ items["COMMUNICATION"].deviation >= 0 /\ items["ACCESSIBILITY"].deviation >= 0
      /\ items["CAPACITY_MIN"].deviation > 0 <=> m.participants < cp.capacity
      /\ items["TIME_LIMIT"].deviation > 0 <=> m.elapsed > cp.limit
  BY <1>1, ReceiptItems DEF Positive
<1> HIDE DEF items
<1>5. FailedItems(items) = Evaluate(cp, m)
  BY <1>2, <1>3 DEF FailedItems, Evaluate, RuleCodes
<1>6. \A r \in RuleCodes : items[r].deviation >= 0
  BY <1>4 DEF RuleCodes
<1>7. \A r \in {"CAPACITY_MIN", "TIME_LIMIT"} : items[r].deviation > 0 <=> ~items[r].passed
  BY <1>3, <1>4
<1> QED
  BY <1>2, <1>5, <1>6, <1>7 DEF JudgedAlike, items

-----------------------------------------------------------------------------
(* Sequences that grow at their end, and chains.                           *)

\* A sequence over any set is a sequence.
LEMMA SeqIsSequence ==
    ASSUME NEW S, NEW s \in Seq(S)
    PROVE  IsSequence(s)
<1>1. Len(s) \in Nat /\ DOMAIN s = 1..Len(s) /\ s = [i \in 1..Len(s) |-> s[i]]
  OBVIOUS
<1>2. [i \in 1..Len(s) |-> s[i]] \in [1..Len(s) -> {s[i] : i \in DOMAIN s}]
  BY <1>1
<1> QED
  BY <1>1, <1>2, SeqDef DEF IsSequence

\* Two sequences of one length with the same elements are the same.
LEMMA SameSequence ==
    ASSUME NEW s, NEW t, IsSequence(s), IsSequence(t), Len(s) = Len(t),
           \A i \in 1..Len(s) : s[i] = t[i]
    PROVE  s = t
<1>1. /\ DOMAIN s = 1..Len(s) /\ s = [i \in 1..Len(s) |-> s[i]]
      /\ DOMAIN t = 1..Len(t) /\ t = [i \in 1..Len(t) |-> t[i]]
  BY DEF IsSequence
<1> QED
  BY <1>1

\* What a sequence is after an element was appended.
LEMMA Appended ==
    ASSUME NEW s, IsSequence(s), NEW e
    PROVE  LET t == Append(s, e) IN
           /\ IsSequence(t) /\ t # << >>
           /\ Len(s) \in Nat /\ DOMAIN s = 1..Len(s)
           /\ Len(t) = Len(s) + 1 /\ DOMAIN t = 1..(Len(s) + 1)
           /\ t[Len(s) + 1] = e /\ \A i \in 1..Len(s) : t[i] = s[i]
<1> DEFINE S == {s[i] : i \in DOMAIN s} \cup {e}
           t == Append(s, e)
<1>1. Len(s) \in Nat /\ DOMAIN s = 1..Len(s) /\ s = [i \in 1..Len(s) |-> s[i]]
  BY DEF IsSequence
<1>2. s \in Seq(S)
  <2>1. [i \in 1..Len(s) |-> s[i]] \in [1..Len(s) -> S]
    BY <1>1
  <2> QED
    BY <1>1, <2>1, SeqDef
<1>3. e \in S
  OBVIOUS
<1> HIDE DEF S
<1>4. /\ t \in Seq(S) /\ t # << >>
      /\ Len(t) = Len(s) + 1 /\ DOMAIN t = 1..(Len(s) + 1)
      /\ t[Len(s) + 1] = e /\ \A i \in 1..Len(s) : t[i] = s[i]
  BY <1>1, <1>2, <1>3
<1>5. IsSequence(t)
  BY <1>4, SeqIsSequence
<1> QED
  BY <1>1, <1>4, <1>5

\* A beginning of a sequence, element by element.
LEMMA Beginning ==
    ASSUME NEW s, IsSequence(s), NEW n \in 0..Len(s)
    PROVE  /\ IsSequence(SubSeq(s, 1, n)) /\ Len(SubSeq(s, 1, n)) = n
           /\ \A i \in 1..n : SubSeq(s, 1, n)[i] = s[i]
<1> DEFINE S == {s[i] : i \in DOMAIN s}
<1>1. s \in Seq(S) /\ Len(s) \in Nat
  BY DEF IsSequence
<1> HIDE DEF S
<1>2. /\ SubSeq(s, 1, n) \in Seq(S) /\ Len(SubSeq(s, 1, n)) = n
      /\ \A i \in 1..n : SubSeq(s, 1, n)[i] = s[i]
  BY <1>1
<1> QED
  BY <1>2, SeqIsSequence

\* Appending leaves the beginnings of a sequence alone.
LEMMA AppendKeepsBeginnings ==
    ASSUME NEW s, IsSequence(s), NEW e, NEW n \in 0..Len(s)
    PROVE  SubSeq(Append(s, e), 1, n) = SubSeq(s, 1, n)
<1> DEFINE t == Append(s, e)
<1>1. /\ IsSequence(t) /\ Len(s) \in Nat /\ Len(t) = Len(s) + 1
      /\ \A i \in 1..Len(s) : t[i] = s[i]
  BY Appended
<1> HIDE DEF t
<1>2. /\ IsSequence(SubSeq(s, 1, n)) /\ Len(SubSeq(s, 1, n)) = n
      /\ \A i \in 1..n : SubSeq(s, 1, n)[i] = s[i]
  BY Beginning
<1>3. /\ IsSequence(SubSeq(t, 1, n)) /\ Len(SubSeq(t, 1, n)) = n
      /\ \A i \in 1..n : SubSeq(t, 1, n)[i] = t[i]
  BY <1>1, Beginning
<1>4. SubSeq(t, 1, n) = SubSeq(s, 1, n)
  BY <1>1, <1>2, <1>3, SameSequence
<1> QED
  BY <1>4 DEF t

\* A whole sequence is its own beginning.
LEMMA WholeBeginning ==
    ASSUME NEW s, IsSequence(s)
    PROVE  SubSeq(s, 1, Len(s)) = s
<1>1. Len(s) \in Nat
  BY DEF IsSequence
<1>2. /\ IsSequence(SubSeq(s, 1, Len(s))) /\ Len(SubSeq(s, 1, Len(s))) = Len(s)
      /\ \A i \in 1..Len(s) : SubSeq(s, 1, Len(s))[i] = s[i]
  BY <1>1, Beginning
<1> QED
  BY <1>2, SameSequence

-----------------------------------------------------------------------------

\* A digest is never the absent one.
LEMMA DigestIsSome == \A p, n, x : EventDigest(p, n, x) # NoHash
  BY DEF EventDigest, NoHash

\* A chain that verifies has as many events as its last number.
LEMMA LastNumber ==
    ASSUME NEW events, IsSequence(events), VerifyChain(events)
    PROVE  LastSequence(events) = Len(events)
<1>1. Len(events) \in Nat /\ DOMAIN events = 1..Len(events)
      /\ (events # << >> => Len(events) # 0)
  BY DEF IsSequence
<1>2. events = << >> => Len(events) = 0
  OBVIOUS
<1> QED
  BY <1>1, <1>2 DEF LastSequence, VerifyChain

\* appendEvent extends a chain that verifies to one that does.
LEMMA AppendVerifies ==
    ASSUME NEW events, IsSequence(events), VerifyChain(events), NEW content
    PROVE  VerifyChain(Append(events, NewEvent(events, content)))
<1> DEFINE e == NewEvent(events, content)
           t == Append(events, e)
           n == Len(events)
<1>1. /\ n \in Nat /\ DOMAIN events = 1..n /\ DOMAIN t = 1..(n + 1)
      /\ t[n + 1] = e /\ \A i \in 1..n : t[i] = events[i]
  BY Appended
<1>2. /\ e.sequence = n + 1 /\ e.previous = HeadHash(events)
      /\ e.hash = EventDigest(e.previous, e.sequence, e.content)
  BY LastNumber DEF NewEvent
<1>3. \A i \in 1..(n + 1) : SubSeq(t, 1, i - 1) = SubSeq(events, 1, i - 1)
  BY <1>1, AppendKeepsBeginnings
<1>4. SubSeq(events, 1, n) = events
  BY WholeBeginning
<1> HIDE DEF e, t
<1>5. ASSUME NEW i \in DOMAIN t
      PROVE  /\ t[i].sequence = i
             /\ t[i].previous = HeadHash(SubSeq(t, 1, i - 1))
             /\ t[i].hash = EventDigest(t[i].previous, t[i].sequence, t[i].content)
  <2>1. CASE i \in 1..n
    BY <1>1, <1>3, <2>1 DEF VerifyChain
  <2>2. CASE i = n + 1
    <3>1. SubSeq(t, 1, i - 1) = events
      BY <1>1, <1>3, <1>4, <2>2
    <3> QED
      BY <1>1, <1>2, <2>2, <3>1
  <2> QED
    BY <1>1, <2>1, <2>2
<1>6. VerifyChain(t)
  BY <1>5 DEF VerifyChain
<1> QED
  BY <1>6 DEF t, e

-----------------------------------------------------------------------------
(* Folds over finite sets.  The library's MapThenFoldSet is a recursive    *)
(* function over the parts of a set; that it exists, and what it computes, *)
(* is proved by induction on the size of the parts.                        *)

\* The parts of a finite set, counted.
LEMMA PartsCounted ==
    ASSUME NEW S, IsFiniteSet(S)
    PROVE  \A s \in SUBSET S : /\ IsFiniteSet(s) /\ Cardinality(s) \in Nat
                               /\ Cardinality(s) = 0 <=> s = {}
                               /\ \A x \in s : Cardinality(s \ {x}) = Cardinality(s) - 1
<1> SUFFICES ASSUME NEW s \in SUBSET S
             PROVE  /\ IsFiniteSet(s) /\ Cardinality(s) \in Nat
                    /\ Cardinality(s) = 0 <=> s = {}
                    /\ \A x \in s : Cardinality(s \ {x}) = Cardinality(s) - 1
  OBVIOUS
<1>1. IsFiniteSet(s)
  BY FS_Subset
<1>2. ASSUME NEW x \in s PROVE Cardinality(s \ {x}) = Cardinality(s) - 1
  BY <1>1, FS_RemoveElement
<1> QED
  BY <1>1, <1>2, FS_CardinalityType, FS_EmptySet

\* F computes the fold of each part of S, taking the picked element last.
Computes(F, S, base, pick, op) ==
    F = [s \in SUBSET S |-> IF s = {} THEN base ELSE op[pick[s]][F[s \ {pick[s]}]]]

IsFold(F, S, V, base, pick, op) ==
    Computes(F, S, base, pick, op) /\ \A s \in SUBSET S : F[s] \in V

\* A fold over a finite set: whatever element is picked next, the recursive
\* definition of MapThenFoldSet has a solution.
LEMMA FoldDefined ==
    ASSUME NEW S, IsFiniteSet(S), NEW V, NEW base \in V,
           NEW pick, \A s \in (SUBSET S) \ {{}} : pick[s] \in s,
           NEW op, \A x \in S, v \in V : op[x][v] \in V
    PROVE  \E F : IsFold(F, S, V, base, pick, op)
<1> DEFINE Upto(n) == {s \in SUBSET S : Cardinality(s) <= n}
           Solves(F, n) == /\ F = [s \in Upto(n) |-> IF s = {} THEN base
                                                     ELSE op[pick[s]][F[s \ {pick[s]}]]]
                           /\ \A s \in Upto(n) : F[s] \in V
           T == {n \in Nat : \E F : Solves(F, n)}
<1>1. \A s \in SUBSET S : /\ IsFiniteSet(s) /\ Cardinality(s) \in Nat
                          /\ Cardinality(s) = 0 <=> s = {}
                          /\ \A x \in s : Cardinality(s \ {x}) = Cardinality(s) - 1
  BY PartsCounted
<1>2. 0 \in T
  <2> DEFINE F == [s \in Upto(0) |-> base]
  <2>1. \A s \in Upto(0) : s = {}
    BY <1>1
  <2>2. Solves(F, 0)
    BY <2>1
  <2> HIDE DEF F, Solves
  <2>3. \E G : Solves(G, 0)
    BY <2>2
  <2> QED
    BY <2>3
<1>3. ASSUME NEW n \in Nat, n \in T PROVE n + 1 \in T
  <2>1. PICK G : Solves(G, n)
    BY <1>3
  <2> DEFINE F == [s \in Upto(n + 1) |-> IF s = {} THEN base
                                         ELSE op[pick[s]][G[s \ {pick[s]}]]]
  <2>2. \A s \in Upto(n + 1) : s # {} => pick[s] \in S /\ s \ {pick[s]} \in Upto(n)
    BY <1>1
  <2>3. Upto(n) \subseteq Upto(n + 1)
    BY <1>1
  <2> HIDE DEF Upto
  <2>4. \A s \in Upto(n) : F[s] = G[s]
    BY <2>1, <2>3
  <2>5. \A s \in Upto(n + 1) : F[s] \in V
    BY <2>1, <2>2
  <2>6. F = [s \in Upto(n + 1) |-> IF s = {} THEN base ELSE op[pick[s]][F[s \ {pick[s]}]]]
    <3>1. \A s \in Upto(n + 1) : F[s] = IF s = {} THEN base ELSE op[pick[s]][F[s \ {pick[s]}]]
      BY <2>2, <2>4
    <3> QED
      BY <3>1, Zenon
  <2>7. Solves(F, n + 1)
    BY <2>5, <2>6
  <2> HIDE DEF F, Solves
  <2>8. \E H : Solves(H, n + 1)
    BY <2>7
  <2> QED
    BY <2>8
<1> HIDE DEF Upto, T
<1>4. \A n \in Nat : n \in T
  BY <1>2, <1>3, EveryNumber
<1>5. Upto(Cardinality(S)) = SUBSET S
  <2>1. \A s \in SUBSET S : Cardinality(s) <= Cardinality(S)
    BY FS_Subset
  <2> QED
    BY <2>1 DEF Upto
<1>6. Cardinality(S) \in T
  BY <1>1, <1>4
<1> HIDE DEF Solves
<1>7. PICK F : Solves(F, Cardinality(S))
  BY <1>6 DEF T
<1>8. IsFold(F, S, V, base, pick, op)
  BY <1>5, <1>7 DEF Solves, IsFold, Computes
<1> QED
  BY <1>8

\* What a sum over a set computes: the value of one element and the sum of the
\* others, whichever element that is.
IsSum(F, g, S) ==
    /\ F[{}] = 0
    /\ \A s \in SUBSET S : F[s] \in Int
    /\ \A s \in SUBSET S : \A x \in s : F[s] = g[x] + F[s \ {x}]

\* The fold of a sum, as MapThenSumSet makes it.
Picks(S) == [s \in SUBSET S |-> CHOOSE x \in s : TRUE]

Adds(g, S) == [x \in S |-> [v \in Int |-> g[x] + v]]

LEMMA SumSteps ==
    ASSUME NEW S, IsFiniteSet(S), NEW g, \A x \in S : g[x] \in Int,
           NEW F, IsFold(F, S, Int, 0, Picks(S), Adds(g, S))
    PROVE  IsSum(F, g, S)
<1> DEFINE pick == Picks(S)
           T == {n \in Nat : \A s \in SUBSET S : Cardinality(s) = n =>
                                \A x \in s : F[s] = g[x] + F[s \ {x}]}
<1>1. \A s \in SUBSET S : /\ Cardinality(s) \in Nat
                          /\ Cardinality(s) = 0 <=> s = {}
                          /\ \A x \in s : Cardinality(s \ {x}) = Cardinality(s) - 1
  BY PartsCounted
<1>2. \A s \in (SUBSET S) \ {{}} : pick[s] \in s
  BY DEF Picks
<1>3. F[{}] = 0 /\ \A s \in SUBSET S : F[s] \in Int
  BY DEF IsFold, Computes
<1>4. \A s \in (SUBSET S) \ {{}} : F[s] = g[pick[s]] + F[s \ {pick[s]}]
  BY <1>2, <1>3 DEF IsFold, Computes, Picks, Adds
<1> HIDE DEF pick
<1>5. 0 \in T
  BY <1>1
<1>6. ASSUME NEW n \in Nat, n \in T PROVE n + 1 \in T
  <2> SUFFICES ASSUME NEW s \in SUBSET S, Cardinality(s) = n + 1, NEW x \in s
               PROVE  F[s] = g[x] + F[s \ {x}]
    OBVIOUS
  <2> DEFINE y == pick[s]
             both == s \ {x, y}
  <2>1. y \in s /\ F[s] = g[y] + F[s \ {y}]
    BY <1>2, <1>4
  <2>2. CASE x = y
    BY <2>1, <2>2
  <2>3. CASE x # y
    <3>1. /\ x \in s \ {y} /\ y \in s \ {x}
          /\ Cardinality(s \ {x}) = n /\ Cardinality(s \ {y}) = n
      BY <1>1, <2>1, <2>3
    <3>2. (s \ {y}) \ {x} = both /\ (s \ {x}) \ {y} = both
      OBVIOUS
    <3>3. F[s \ {y}] = g[x] + F[both]
      BY <1>6, <3>1, <3>2
    <3>4. F[s \ {x}] = g[y] + F[both]
      BY <1>6, <2>1, <3>1, <3>2
    <3>5. g[x] \in Int /\ g[y] \in Int /\ F[both] \in Int
      BY <1>3, <2>1
    <3> QED
      BY <2>1, <3>3, <3>4, <3>5
  <2> QED
    BY <2>2, <2>3
<1> HIDE DEF T
<1>7. \A n \in Nat : n \in T
  BY <1>5, <1>6, EveryNumber
<1> QED
  BY <1>1, <1>3, <1>7 DEF T, IsSum

\* The recursive definition that MapThenSumSet evaluates.
AddsUp(F, g, S) ==
    F = [s \in SUBSET S |-> IF s = {} THEN 0
                            ELSE g[CHOOSE x \in s : TRUE] + F[s \ {CHOOSE x \in s : TRUE}]]

\* It has a solution over a finite set.
LEMMA SumDefined ==
    ASSUME NEW S, IsFiniteSet(S), NEW g, \A x \in S : g[x] \in Int
    PROVE  \E F : AddsUp(F, g, S)
<1> DEFINE pick == Picks(S)
           op == Adds(g, S)
<1>1. \A s \in SUBSET S : pick[s] = CHOOSE x \in s : TRUE
  BY DEF Picks
<1>2. \A s \in (SUBSET S) \ {{}} : pick[s] \in s
  BY DEF Picks
<1>3. \A x \in S, v \in Int : op[x][v] = g[x] + v /\ op[x][v] \in Int
  BY DEF Adds
<1> HIDE DEF pick, op
<1>4. PICK F : IsFold(F, S, Int, 0, pick, op)
  <2>1. 0 \in Int /\ \A x \in S, v \in Int : op[x][v] \in Int
    BY <1>3
  <2>2. \E F : IsFold(F, S, Int, 0, pick, op)
    BY <1>2, <2>1, FoldDefined, Zenon
  <2> QED
    BY <2>2
<1>5. /\ F = [s \in SUBSET S |-> IF s = {} THEN 0 ELSE op[pick[s]][F[s \ {pick[s]}]]]
      /\ \A s \in SUBSET S : F[s] \in Int
  BY <1>4 DEF IsFold, Computes
<1>6. \A s \in (SUBSET S) \ {{}} : op[pick[s]][F[s \ {pick[s]}]] = g[pick[s]] + F[s \ {pick[s]}]
  BY <1>2, <1>3, <1>5
<1>7. \A s \in SUBSET S :
         F[s] = IF s = {} THEN 0
                ELSE g[CHOOSE x \in s : TRUE] + F[s \ {CHOOSE x \in s : TRUE}]
  BY <1>1, <1>5, <1>6
<1>8. F = [s \in SUBSET S |-> F[s]]
  BY <1>5
<1>9. AddsUp(F, g, S)
  BY <1>7, <1>8, Zenon DEF AddsUp
<1> QED
  BY <1>9

\* And its solution is the sum.
LEMMA AddsUpIsSum ==
    ASSUME NEW S, IsFiniteSet(S), NEW g, \A x \in S : g[x] \in Int,
           NEW F, AddsUp(F, g, S)
    PROVE  IsSum(F, g, S)
<1> DEFINE T == {n \in Nat : \A s \in SUBSET S : Cardinality(s) = n => F[s] \in Int}
           pick == Picks(S)
           op == Adds(g, S)
<1>1. \A s \in SUBSET S : /\ Cardinality(s) \in Nat
                          /\ Cardinality(s) = 0 <=> s = {}
                          /\ \A x \in s : Cardinality(s \ {x}) = Cardinality(s) - 1
  BY PartsCounted
<1>2. \A s \in SUBSET S : pick[s] = CHOOSE x \in s : TRUE
  BY DEF Picks
<1>3. \A s \in (SUBSET S) \ {{}} : pick[s] \in s
  BY DEF Picks
<1>4. \A x \in S, v \in Int : op[x][v] = g[x] + v
  BY DEF Adds
<1>5. \A s \in SUBSET S : F[s] = IF s = {} THEN 0 ELSE g[pick[s]] + F[s \ {pick[s]}]
  BY <1>2 DEF AddsUp
<1> HIDE DEF pick, op
<1>6. 0 \in T
  <2>1. F[{}] = 0
    BY <1>5
  <2> QED
    BY <1>1, <2>1
<1>7. ASSUME NEW n \in Nat, n \in T PROVE n + 1 \in T
  <2> SUFFICES ASSUME NEW s \in SUBSET S, Cardinality(s) = n + 1 PROVE F[s] \in Int
    OBVIOUS
  <2>1. s # {} /\ pick[s] \in s /\ Cardinality(s \ {pick[s]}) = n
    BY <1>1, <1>3
  <2>2. F[s \ {pick[s]}] \in Int
    BY <1>7, <2>1
  <2> QED
    BY <1>5, <2>1, <2>2
<1> HIDE DEF T
<1>8. \A n \in Nat : n \in T
  BY <1>6, <1>7, EveryNumber
<1>9. \A s \in SUBSET S : F[s] \in Int
  BY <1>1, <1>8 DEF T
<1>10. \A s \in SUBSET S : F[s] = IF s = {} THEN 0 ELSE op[pick[s]][F[s \ {pick[s]}]]
  BY <1>3, <1>4, <1>5, <1>9
<1>11. F = [s \in SUBSET S |-> F[s]]
  BY DEF AddsUp
<1>12. Computes(F, S, 0, pick, op)
  BY <1>10, <1>11, Zenon DEF Computes
<1> QED
  BY <1>9, <1>12, SumSteps DEF IsFold, pick, op

\* A sum of natural numbers is one.
LEMMA SumIsNatural ==
    ASSUME NEW S, IsFiniteSet(S), NEW g, \A x \in S : g[x] \in Nat, NEW F, IsSum(F, g, S)
    PROVE  F[S] \in Nat
<1> DEFINE T == {n \in Nat : \A s \in SUBSET S : Cardinality(s) = n => F[s] \in Nat}
<1>1. \A s \in SUBSET S : /\ Cardinality(s) \in Nat
                          /\ Cardinality(s) = 0 <=> s = {}
                          /\ \A x \in s : Cardinality(s \ {x}) = Cardinality(s) - 1
  BY PartsCounted
<1>2. 0 \in T
  BY <1>1 DEF IsSum
<1>3. ASSUME NEW n \in Nat, n \in T PROVE n + 1 \in T
  <2> SUFFICES ASSUME NEW s \in SUBSET S, Cardinality(s) = n + 1 PROVE F[s] \in Nat
    OBVIOUS
  <2>1. PICK x \in s : Cardinality(s \ {x}) = n
    BY <1>1
  <2>2. F[s \ {x}] \in Nat /\ g[x] \in Nat
    BY <1>3, <2>1
  <2>3. F[s] = g[x] + F[s \ {x}]
    BY DEF IsSum
  <2> QED
    BY <2>2, <2>3
<1> HIDE DEF T
<1>4. \A n \in Nat : n \in T
  BY <1>2, <1>3, EveryNumber
<1> QED
  BY <1>1, <1>4 DEF T

\* Sums over sets whose elements correspond are the same.
LEMMA SumsCorrespond ==
    ASSUME NEW S, IsFiniteSet(S), NEW T, NEW f \in Bijection(S, T),
           NEW g, NEW h, \A x \in S : g[x] = h[f[x]],
           NEW F, IsSum(F, g, S), NEW H, IsSum(H, h, T)
    PROVE  F[S] = H[T]
<1> DEFINE image(s) == {f[x] : x \in s}
           N == {n \in Nat : \A s \in SUBSET S : Cardinality(s) = n => F[s] = H[image(s)]}
<1>1. \A s \in SUBSET S : /\ Cardinality(s) \in Nat
                          /\ Cardinality(s) = 0 <=> s = {}
                          /\ \A x \in s : Cardinality(s \ {x}) = Cardinality(s) - 1
  BY PartsCounted
<1>2. /\ \A x \in S : f[x] \in T
      /\ \A x, y \in S : f[x] = f[y] => x = y
      /\ \A t \in T : \E x \in S : f[x] = t
  BY DEF Bijection, Injection, Surjection, IsInjective
<1>3. image({}) = {} /\ image(S) = T
  BY <1>2
<1>4. 0 \in N
  BY <1>1, <1>3 DEF IsSum
<1>5. ASSUME NEW n \in Nat, n \in N PROVE n + 1 \in N
  <2> SUFFICES ASSUME NEW s \in SUBSET S, Cardinality(s) = n + 1 PROVE F[s] = H[image(s)]
    OBVIOUS
  <2>1. PICK x \in s : Cardinality(s \ {x}) = n
    BY <1>1
  <2>2. image(s \ {x}) = image(s) \ {f[x]} /\ f[x] \in image(s)
    BY <1>2
  <2>3. image(s) \in SUBSET T
    BY <1>2
  <2>4. F[s \ {x}] = H[image(s \ {x})]
    BY <1>5, <2>1
  <2> HIDE DEF image
  <2>5. F[s] = g[x] + F[s \ {x}]
    BY DEF IsSum
  <2>6. H[image(s)] = h[f[x]] + H[image(s) \ {f[x]}]
    BY <2>2, <2>3 DEF IsSum
  <2> QED
    BY <2>2, <2>4, <2>5, <2>6
<1> HIDE DEF N
<1>6. \A n \in Nat : n \in N
  BY <1>4, <1>5, EveryNumber
<1> QED
  BY <1>1, <1>3, <1>6 DEF N

\* A finite set of integers has a largest one.
LEMMA MaxIsLargest ==
    ASSUME NEW S, IsFiniteSet(S), S \subseteq Int, S # {}
    PROVE  Max(S) \in S /\ \A y \in S : Max(S) >= y
<1> DEFINE Has(s) == \E x \in s : \A y \in s : x >= y
           T == {n \in Nat : \A s \in SUBSET S : Cardinality(s) = n + 1 => Has(s)}
<1>1. \A s \in SUBSET S : /\ Cardinality(s) \in Nat
                          /\ Cardinality(s) = 0 <=> s = {}
                          /\ \A x \in s : Cardinality(s \ {x}) = Cardinality(s) - 1
  BY PartsCounted
<1>2. 0 \in T
  <2> SUFFICES ASSUME NEW s \in SUBSET S, Cardinality(s) = 1 PROVE Has(s)
    OBVIOUS
  <2>1. PICK x \in s : TRUE
    BY <1>1
  <2>2. s \ {x} = {}
    <3>1. s \ {x} \in SUBSET S /\ Cardinality(s \ {x}) = 0
      BY <1>1, <2>1
    <3> QED
      BY <1>1, <3>1
  <2>3. x \in Int /\ \A y \in s : y = x
    BY <2>1, <2>2
  <2> QED
    BY <2>1, <2>3
<1>3. ASSUME NEW n \in Nat, n \in T PROVE n + 1 \in T
  <2> SUFFICES ASSUME NEW s \in SUBSET S, Cardinality(s) = n + 2 PROVE Has(s)
    OBVIOUS
  <2>1. PICK x \in s : Cardinality(s \ {x}) = n + 1
    BY <1>1
  <2>2. PICK z \in s \ {x} : \A y \in s \ {x} : z >= y
    BY <1>3, <2>1
  <2> QED
    BY <2>1, <2>2
<1> HIDE DEF T
<1>4. \A n \in Nat : n \in T
  BY <1>2, <1>3, EveryNumber
<1>5. Has(S)
  <2>1. PICK n \in Nat : Cardinality(S) = n + 1
    <3>1. Cardinality(S) \in Nat /\ Cardinality(S) # 0
      BY <1>1, S \in SUBSET S
    <3>2. Cardinality(S) - 1 \in Nat /\ Cardinality(S) = (Cardinality(S) - 1) + 1
      BY <3>1
    <3> QED
      BY <3>2
  <2>2. n \in T
    BY <1>4
  <2> QED
    BY <2>1, <2>2 DEF T
<1> QED
  BY <1>5 DEF Max

\* A finite set has finitely many images.
LEMMA FiniteImage ==
    ASSUME NEW S, IsFiniteSet(S), NEW f, DOMAIN f = S, f = [x \in S |-> f[x]]
    PROVE  IsFiniteSet({f[x] : x \in S})
<1> DEFINE T == {f[x] : x \in S}
<1>1. f \in Surjection(S, T)
  <2>1. f \in [S -> T] /\ \A t \in T : \E x \in S : f[x] = t
    OBVIOUS
  <2> HIDE DEF T
  <2> QED
    BY <2>1 DEF Surjection
<1> HIDE DEF T
<1> QED
  BY <1>1, FS_Surjection DEF T
=============================================================================
