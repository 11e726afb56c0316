--------------------------- MODULE AlgorithmProofs ---------------------------
(* Proofs about the pure algorithms: the order of the todos, for any todos *)
(* at any time, and what the inputs of MCAlgorithms say of it and of the   *)
(* two judgements, for any bounds.                                         *)
EXTENDS MCAlgorithms, OperatorProofs

\* Due times a client may write, and the todos of findings.
Due == {DueTime(i, t) : i \in Nat, t \in Nat \ {0}}

TodoType ==
    [id : Int, severity : {"critical", "major", "minor"}, due : Due \cup {NoDue}]

LEMMA DueFields ==
    ASSUME NEW d \in Due \cup {NoDue}
    PROVE  d.text \in Nat /\ (d # NoDue => d.instant \in Nat)
  BY DEF Due, DueTime, NoDue

-----------------------------------------------------------------------------
(* The comparison the todos are sorted by.                                 *)

LEMMA Ranks ==
    ASSUME NEW a \in TodoType, NEW now \in Nat
    PROVE  /\ StatusOf(a, now) \in {"overdue", "near_due", "normal"}
           /\ DueRank(StatusOf(a, now)) \in 0..2 /\ SeverityRank(a.severity) \in 0..2
<1>1. StatusOf(a, now) \in {"overdue", "near_due", "normal"}
  BY DEF StatusOf, DueStatus
<1> QED
  BY <1>1 DEF TodoType, DueRank, SeverityRank

LEMMA SeveritiesRanked ==
    ASSUME NEW a \in TodoType, NEW b \in TodoType
    PROVE  a.severity = b.severity <=> SeverityRank(a.severity) = SeverityRank(b.severity)
  BY DEF TodoType, SeverityRank

\* The findings' todos are in one strict order at every time: of two todos
\* with different identifiers exactly one precedes, and precedence is
\* transitive, through classes, severities, missing due times and any texts.
THEOREM TodosAreStrictlyOrdered ==
    ASSUME NEW a \in TodoType, NEW b \in TodoType, NEW c \in TodoType, NEW now \in Nat
    PROVE  /\ a.id # b.id => (Precedes(a, b, now) <=> ~Precedes(b, a, now))
           /\ Precedes(a, b, now) /\ Precedes(b, c, now) => Precedes(a, c, now)
<1> DEFINE rank(x) == DueRank(StatusOf(x, now))
           weight(x) == SeverityRank(x.severity)
           todos == {a, b, c}
<1>1. \A x \in todos : /\ rank(x) \in 0..2 /\ weight(x) \in 0..2
                       /\ x.due.text \in Nat /\ x.id \in Int
  BY Ranks, DueFields DEF TodoType
<1>2. \A x, y \in todos :
         Precedes(x, y, now) <=>
            \/ rank(x) < rank(y)
            \/ rank(x) = rank(y) /\ weight(x) < weight(y)
            \/ /\ rank(x) = rank(y) /\ weight(x) = weight(y)
               /\ \/ x.due.text < y.due.text
                  \/ x.due.text = y.due.text /\ x.id < y.id
  <2>1. \A x, y \in todos : x.severity = y.severity <=> weight(x) = weight(y)
    BY SeveritiesRanked
  <2> QED
    BY <2>1 DEF Precedes
<1> HIDE DEF rank, weight
<1>3. a.id # b.id => (Precedes(a, b, now) <=> ~Precedes(b, a, now))
  BY <1>1, <1>2
<1>4. Precedes(a, b, now) /\ Precedes(b, c, now) => Precedes(a, c, now)
  BY <1>1, <1>2
<1> QED
  BY <1>3, <1>4

\* Classes follow time, and come before severity and text.
LEMMA EarlierClassFirst ==
    ASSUME NEW a \in TodoType, NEW b \in TodoType, NEW now \in Nat,
           a.due # NoDue, b.due # NoDue, a.due.instant < b.due.instant,
           StatusOf(a, now) # StatusOf(b, now)
    PROVE  Precedes(a, b, now)
<1>1. a.due.instant \in Nat /\ b.due.instant \in Nat
  BY DueFields DEF TodoType
<1>2. StatusOf(a, now) = DueStatus(a.due.instant, now) /\ StatusOf(b, now) = DueStatus(b.due.instant, now)
  BY DEF StatusOf
<1>3. DueRank(StatusOf(a, now)) < DueRank(StatusOf(b, now))
  BY <1>1, <1>2, NearDueAssumption DEF DueStatus, DueRank
<1> QED
  BY <1>3 DEF Precedes

-----------------------------------------------------------------------------
(* Sorting.                                                                *)

\* Any list of numbers has a sorted rearrangement: that by how many come first.
LEMMA CanBeSorted ==
    ASSUME NEW n \in Nat, NEW s, \A i \in 1..n : s[i] \in Int
    PROVE  \E p \in Bijection(1..n, 1..n) :
              \A i, j \in 1..n : i < j => s[p[i]] <= s[p[j]]
<1> DEFINE places == 1..n
           first(i, j) == s[i] < s[j] \/ (s[i] = s[j] /\ i < j)
           upto(j) == {i \in places : first(i, j) \/ i = j}
           rank == [j \in places |-> Cardinality(upto(j))]
<1>1. IsFiniteSet(places) /\ Cardinality(places) = n
  BY FS_Interval
<1>2. \A i, j, k \in places : /\ ~first(i, i)
                              /\ i # j => (first(i, j) <=> ~first(j, i))
                              /\ first(i, j) /\ first(j, k) => first(i, k)
  OBVIOUS
<1>3. \A j \in places : IsFiniteSet(upto(j)) /\ j \in upto(j) /\ rank[j] \in places
  <2> SUFFICES ASSUME NEW j \in places
               PROVE  IsFiniteSet(upto(j)) /\ j \in upto(j) /\ rank[j] \in places
    OBVIOUS
  <2>1. upto(j) \in SUBSET places /\ j \in upto(j)
    OBVIOUS
  <2> HIDE DEF upto
  <2>2. IsFiniteSet(upto(j)) /\ Cardinality(upto(j)) <= n
    BY <1>1, <2>1, FS_Subset
  <2>3. Cardinality(upto(j)) \in Nat /\ Cardinality(upto(j)) # 0
    BY <2>1, <2>2, FS_CardinalityType, FS_EmptySet
  <2> QED
    BY <2>1, <2>2, <2>3
<1>4. \A i, j \in places : first(i, j) => rank[i] < rank[j]
  <2> SUFFICES ASSUME NEW i \in places, NEW j \in places, first(i, j)
               PROVE  rank[i] < rank[j]
    OBVIOUS
  <2> HIDE DEF first
  <2>1. upto(i) \in SUBSET upto(j) /\ j \notin upto(i)
    BY <1>2
  <2>2. IsFiniteSet(upto(i)) /\ IsFiniteSet(upto(j)) /\ j \in upto(j)
    BY <1>3
  <2> HIDE DEF upto
  <2>3. Cardinality(upto(i)) <= Cardinality(upto(j)) /\ Cardinality(upto(i)) # Cardinality(upto(j))
    BY <2>1, <2>2, FS_Subset
  <2>4. Cardinality(upto(i)) \in Nat /\ Cardinality(upto(j)) \in Nat
    BY <2>2, FS_CardinalityType
  <2> QED
    BY <2>3, <2>4
<1> HIDE DEF upto
<1>5. rank \in [places -> places]
  BY <1>3
<1>6. \A i, j \in places : rank[i] = rank[j] => i = j
  <2> SUFFICES ASSUME NEW i \in places, NEW j \in places, i # j PROVE rank[i] # rank[j]
    OBVIOUS
  <2>1. rank[i] \in places /\ rank[j] \in places
    BY <1>5
  <2>2. rank[i] < rank[j] \/ rank[j] < rank[i]
    BY <1>2, <1>4
  <2> QED
    BY <2>1, <2>2
<1> HIDE DEF rank, first, places
<1>7. rank \in Injection(places, places)
  BY <1>5, <1>6 DEF Injection, IsInjective
<1>8. rank \in Surjection(places, places)
  BY <1>1, <1>7, FS_Injection
<1>9. \A k \in places : \E j \in places : rank[j] = k
  BY <1>8 DEF Surjection
<1> DEFINE p == [k \in places |-> CHOOSE j \in places : rank[j] = k]
<1>10. \A k \in places : p[k] \in places /\ rank[p[k]] = k
  BY <1>9
<1> HIDE DEF p
<1>11. p \in Bijection(places, places)
  <2>1. p \in [places -> places]
    BY <1>10 DEF p
  <2>2. \A k, m \in places : p[k] = p[m] => k = m
    BY <1>10
  <2>3. \A j \in places : \E k \in places : p[k] = j
    <3> SUFFICES ASSUME NEW j \in places PROVE \E k \in places : p[k] = j
      OBVIOUS
    <3>1. rank[j] \in places
      BY <1>5
    <3>2. p[rank[j]] \in places /\ rank[p[rank[j]]] = rank[j]
      BY <1>10, <3>1
    <3>3. p[rank[j]] = j
      BY <1>6, <3>2
    <3> QED
      BY <3>1, <3>3
  <2> QED
    BY <2>1, <2>2, <2>3 DEF Bijection, Injection, Surjection, IsInjective
<1>12. ASSUME NEW k \in places, NEW m \in places, k < m PROVE s[p[k]] <= s[p[m]]
  <2>1. p[k] \in places /\ p[m] \in places /\ rank[p[k]] = k /\ rank[p[m]] = m
    BY <1>10
  <2>2. ~first(p[m], p[k])
    <3> SUFFICES ASSUME first(p[m], p[k]) PROVE FALSE
      OBVIOUS
    <3>1. m < k
      BY <1>4, <2>1
    <3> QED
      BY <1>12, <3>1 DEF places
  <2> QED
    BY <2>1, <2>2 DEF first, places
<1> QED
  BY <1>11, <1>12 DEF places

\* sortCheckpoints rearranges the list into order.
LEMMA Sorted ==
    ASSUME NEW n \in Nat, NEW s, DOMAIN s = 1..n, \A i \in 1..n : s[i] \in Int
    PROVE  /\ SortCheckpoints(s) \in [1..n -> Int]
           /\ \A i, j \in 1..n : i < j => SortCheckpoints(s)[i] <= SortCheckpoints(s)[j]
<1> DEFINE order == CHOOSE p \in Bijection(1..n, 1..n) :
                       \A i, j \in 1..n : i < j => s[p[i]] <= s[p[j]]
<1>1. /\ order \in Bijection(1..n, 1..n)
      /\ \A i, j \in 1..n : i < j => s[order[i]] <= s[order[j]]
  BY CanBeSorted
<1>2. \A i \in 1..n : order[i] \in 1..n
  BY <1>1 DEF Bijection, Injection
<1>3. SortCheckpoints(s) = [i \in 1..n |-> s[order[i]]]
  BY DEF SortCheckpoints
<1> HIDE DEF order
<1>4. \A i \in 1..n : s[order[i]] \in Int
  BY <1>2
<1>5. [i \in 1..n |-> s[order[i]]] \in [1..n -> Int]
  BY <1>4
<1>6. \A i, j \in 1..n : i < j => SortCheckpoints(s)[i] <= SortCheckpoints(s)[j]
  BY <1>1, <1>3
<1> QED
  BY <1>3, <1>5, <1>6

\* A draft that is accepted is stored with each checkpoint at the place of its
\* number, however many there are and in whatever order the client sent them.
THEOREM CheckpointsStandAtTheirNumbers ==
    ASSUME NEW n \in Nat, NEW s, DOMAIN s = 1..n, \A i \in 1..n : s[i] \in Int,
           NumbersOK(SortCheckpoints(s))
    PROVE  \A i \in 1..n : SortCheckpoints(s)[i] = i
<1> DEFINE t == SortCheckpoints(s)
<1>1. t \in [1..n -> Int] /\ \A i, j \in 1..n : i < j => t[i] <= t[j]
  BY Sorted
<1>2. Len(t) = n
  <2> HIDE DEF t
  <2>1. t \in Seq(Int)
    BY <1>1, SeqDef
  <2> QED
    BY <1>1, <2>1
<1> HIDE DEF t
<1>3. /\ \A i \in 1..n : t[i] > 0 /\ \A j \in 1..(i - 1) : t[j] # t[i]
      /\ \A k \in 1..n : \E i \in 1..n : t[i] = k
  BY <1>1, <1>2 DEF NumbersOK, t
<1>4. \A i, j \in 1..n : i < j => t[i] < t[j]
  <2> SUFFICES ASSUME NEW i \in 1..n, NEW j \in 1..n, i < j PROVE t[i] < t[j]
    OBVIOUS
  <2>1. i \in 1..(j - 1)
    OBVIOUS
  <2>2. t[i] # t[j] /\ t[i] <= t[j] /\ t[i] \in Int /\ t[j] \in Int
    BY <1>1, <1>3, <2>1
  <2> QED
    BY <2>2
<1> DEFINE wrong == {i \in 1..n : t[i] # i}
<1>5. SUFFICES ASSUME wrong # {} PROVE FALSE
  BY DEF t
<1>6. PICK i \in wrong : \A j \in wrong : i <= j
  <2>1. wrong \subseteq Nat
    OBVIOUS
  <2> HIDE DEF wrong
  <2> QED
    BY <1>5, <2>1, Least
<1>7. \A j \in 1..n : j < i => t[j] = j
  BY <1>6
<1>8. t[i] > i
  <2>1. t[i] \in Int /\ t[i] > 0 /\ t[i] # i /\ i \in 1..n
    BY <1>1, <1>3, <1>6
  <2>2. CASE t[i] < i
    <3>1. t[i] \in 1..n
      BY <2>1, <2>2
    <3>2. t[t[i]] = t[i]
      BY <1>7, <2>2, <3>1
    <3>3. t[t[i]] < t[i]
      BY <1>4, <2>1, <2>2, <3>1
    <3> QED
      BY <2>1, <3>2, <3>3
  <2> QED
    BY <2>1, <2>2
<1>9. PICK j \in 1..n : t[j] = i
  BY <1>3, <1>6
<1> QED
  <2>1. CASE j < i
    BY <1>7, <1>9, <2>1
  <2>2. CASE j = i
    BY <1>6, <1>9, <2>2
  <2>3. CASE j > i
    <3>1. t[i] < t[j]
      BY <1>4, <1>6, <2>3
    <3> QED
      BY <1>1, <1>6, <1>8, <1>9, <3>1
  <2> QED
    BY <1>6, <1>9, <2>1, <2>2, <2>3

-----------------------------------------------------------------------------
(* The review's checklist.                                                 *)

ItemsOf(results, k) == {results[i].item : i \in 1..k}

ItemsReturned(results, k) ==
    {results[i].item : i \in {i \in 1..k : results[i].conclusion = "returned"}}

\* What the first k results say, taken one by one.
Explained(expected, results, k) ==
    \A i \in 1..k : /\ results[i].item \in expected
                    /\ \A j \in 1..(i - 1) : results[j].item # results[i].item
                    /\ results[i].conclusion \in {"passed", "returned"}
                    /\ results[i].opinion # Blank

\* What validateChecklist remembers after k results.
Remembered(expected, results, k, soFar) ==
    /\ soFar \in [seen : SUBSET expected, passed : Nat, returned : Seq(Int), errors : BOOLEAN]
    /\ soFar.errors <=> ~Explained(expected, results, k)
    /\ Explained(expected, results, k) =>
          /\ soFar.seen = ItemsOf(results, k)
          /\ IsFiniteSet(soFar.seen) /\ Cardinality(soFar.seen) = k
          /\ soFar.passed + Len(soFar.returned) = k
          /\ ToSet(soFar.returned) = ItemsReturned(results, k)

NothingSeen == [seen |-> {}, passed |-> 0, returned |-> << >>, errors |-> FALSE]

LEMMA AppendedElements ==
    ASSUME NEW s \in Seq(Int), NEW e \in Int
    PROVE  ToSet(Append(s, e)) = ToSet(s) \cup {e}
<1>1. /\ Len(s) \in Nat /\ DOMAIN s = 1..Len(s) /\ DOMAIN Append(s, e) = 1..(Len(s) + 1)
      /\ \A i \in 1..Len(s) : Append(s, e)[i] = s[i]
      /\ Append(s, e)[Len(s) + 1] = e
  OBVIOUS
<1>2. 1..(Len(s) + 1) = (1..Len(s)) \cup {Len(s) + 1}
  BY <1>1
<1> QED
  BY <1>1, <1>2 DEF ToSet

LEMMA RememberedFirst ==
    ASSUME NEW expected, NEW results
    PROVE  Remembered(expected, results, 0, NothingSeen)
<1>1. Explained(expected, results, 0) /\ 1..0 = {}
  BY DEF Explained
<1>2. IsFiniteSet({}) /\ Cardinality({}) = 0
  BY FS_EmptySet
<1>3. << >> \in Seq(Int) /\ Len(<< >>) = 0 /\ ToSet(<< >>) = {}
  BY DEF ToSet
<1> QED
  BY <1>1, <1>2, <1>3 DEF Remembered, NothingSeen, ItemsOf, ItemsReturned

LEMMA RememberedNext ==
    ASSUME NEW expected, expected \subseteq Int, NEW n \in Nat, NEW R, NEW results \in [1..n -> R],
           NEW k \in 0..(n - 1), NEW soFar, Remembered(expected, results, k, soFar)
    PROVE  Remembered(expected, results, k + 1, ChecklistStep(expected, soFar, results[k + 1]))
<1> DEFINE r == results[k + 1]
           next == ChecklistStep(expected, soFar, r)
<1>1. /\ k + 1 \in 1..n /\ k \in Nat /\ 1..(k + 1) = (1..k) \cup {k + 1} /\ k + 1 \notin 1..k
  OBVIOUS
<1>2. /\ soFar \in [seen : SUBSET expected, passed : Nat, returned : Seq(Int), errors : BOOLEAN]
      /\ soFar.errors <=> ~Explained(expected, results, k)
  BY DEF Remembered
<1>3. Explained(expected, results, k + 1) <=>
         /\ Explained(expected, results, k)
         /\ r.item \in expected /\ r.item \notin ItemsOf(results, k)
         /\ r.conclusion \in {"passed", "returned"} /\ r.opinion # Blank
  <2>1. (k + 1) - 1 = k
    BY <1>1
  <2> QED
    BY <1>1, <2>1 DEF Explained, ItemsOf
<1>4. CASE r.item \notin expected \/ r.item \in soFar.seen
  <2>1. ~Explained(expected, results, k + 1)
    BY <1>3, <1>4 DEF Remembered
  <2>2. next = [soFar EXCEPT !.errors = TRUE]
    BY <1>4 DEF ChecklistStep
  <2>3. /\ next \in [seen : SUBSET expected, passed : Nat, returned : Seq(Int), errors : BOOLEAN]
        /\ next.errors = TRUE
    BY <1>2, <2>2
  <2> HIDE DEF next
  <2> QED
    BY <2>1, <2>3 DEF Remembered, next
<1>5. CASE r.item \in expected /\ r.item \notin soFar.seen
  <2>1. /\ next.seen = soFar.seen \cup {r.item}
        /\ next.passed = soFar.passed + IF r.conclusion = "passed" THEN 1 ELSE 0
        /\ next.returned = IF r.conclusion = "returned" THEN Append(soFar.returned, r.item)
                           ELSE soFar.returned
        /\ next.errors = (\/ soFar.errors \/ r.opinion = Blank
                          \/ r.conclusion \notin {"passed", "returned"})
        /\ next = [seen |-> next.seen, passed |-> next.passed, returned |-> next.returned,
                   errors |-> next.errors]
    BY <1>5 DEF ChecklistStep
  <2> HIDE DEF next
  <2>2. r.item \in Int /\ soFar.seen \in SUBSET expected /\ soFar.passed \in Nat
        /\ soFar.returned \in Seq(Int) /\ soFar.errors \in BOOLEAN
    BY <1>2, <1>5
  <2>3. /\ next.seen \in SUBSET expected /\ next.passed \in Nat /\ next.returned \in Seq(Int)
        /\ next.errors \in BOOLEAN
    BY <1>5, <2>1, <2>2
  <2>4. next \in [seen : SUBSET expected, passed : Nat, returned : Seq(Int), errors : BOOLEAN]
    BY <2>1, <2>3
  <2>5. next.errors <=> ~Explained(expected, results, k + 1)
    BY <1>2, <1>3, <1>5, <2>1 DEF Remembered
  <2>6. ASSUME Explained(expected, results, k + 1)
        PROVE  /\ next.seen = ItemsOf(results, k + 1)
               /\ IsFiniteSet(next.seen) /\ Cardinality(next.seen) = k + 1
               /\ next.passed + Len(next.returned) = k + 1
               /\ ToSet(next.returned) = ItemsReturned(results, k + 1)
    <3>1. /\ soFar.seen = ItemsOf(results, k)
          /\ IsFiniteSet(soFar.seen) /\ Cardinality(soFar.seen) = k
          /\ soFar.passed + Len(soFar.returned) = k
          /\ ToSet(soFar.returned) = ItemsReturned(results, k)
      BY <1>3, <2>6 DEF Remembered
    <3>2. next.seen = ItemsOf(results, k + 1)
      BY <1>1, <2>1, <3>1 DEF ItemsOf
    <3>3. IsFiniteSet(next.seen) /\ Cardinality(next.seen) = k + 1
      BY <1>5, <2>1, <3>1, FS_AddElement
    <3>4. CASE r.conclusion = "passed"
      <4>1. next.returned = soFar.returned /\ next.passed = soFar.passed + 1
        BY <2>1, <3>4
      <4>2. ItemsReturned(results, k + 1) = ItemsReturned(results, k)
        <5>1. {i \in 1..(k + 1) : results[i].conclusion = "returned"}
                 = {i \in 1..k : results[i].conclusion = "returned"}
          BY <1>1, <3>4
        <5> QED
          BY <5>1 DEF ItemsReturned
      <4>3. soFar.passed + Len(soFar.returned) = k
        BY <3>1
      <4>4. next.passed + Len(next.returned) = k + 1
        <5>1. Len(soFar.returned) \in Nat /\ soFar.passed \in Nat
          BY <2>2
        <5> QED
          BY <4>1, <4>3, <5>1
      <4>5. ToSet(next.returned) = ItemsReturned(results, k + 1)
        BY <3>1, <4>1, <4>2
      <4> QED
        BY <3>2, <3>3, <4>4, <4>5
    <3>5. CASE r.conclusion = "returned"
      <4>1. next.returned = Append(soFar.returned, r.item) /\ next.passed = soFar.passed
        BY <2>1, <2>2, <3>5
      <4>2. ItemsReturned(results, k + 1) = ItemsReturned(results, k) \cup {r.item}
        <5>1. {i \in 1..(k + 1) : results[i].conclusion = "returned"}
                 = {i \in 1..k : results[i].conclusion = "returned"} \cup {k + 1}
          BY <1>1, <3>5
        <5>2. \A before : {results[i].item : i \in before \cup {k + 1}}
                 = {results[i].item : i \in before} \cup {results[k + 1].item}
          OBVIOUS
        <5> QED
          BY <5>1, <5>2 DEF ItemsReturned
      <4>3. Len(soFar.returned) \in Nat /\ Len(next.returned) = Len(soFar.returned) + 1
        BY <2>2, <4>1
      <4>4. ToSet(next.returned) = ToSet(soFar.returned) \cup {r.item}
        BY <2>2, <4>1, AppendedElements
      <4>5. next.passed + Len(next.returned) = k + 1
        <5>1. soFar.passed + Len(soFar.returned) = k /\ soFar.passed \in Nat
          BY <2>2, <3>1
        <5> QED
          BY <4>1, <4>3, <5>1
      <4>6. ToSet(next.returned) = ItemsReturned(results, k + 1)
        BY <3>1, <4>2, <4>4
      <4> QED
        BY <3>2, <3>3, <4>5, <4>6
    <3> QED
      BY <1>3, <2>6, <3>4, <3>5
  <2> QED
    BY <2>4, <2>5, <2>6 DEF Remembered, next
<1> QED
  BY <1>4, <1>5

\* A beginning of the numbers: its last element, and what stands before that.
LEMMA LastOfBeginning ==
    ASSUME NEW n \in Nat
    PROVE  /\ IsFiniteSet(1..n) /\ 1..0 = {}
           /\ \A s \in (SUBSET (1..n)) \ {{}} : Max(s) \in s
           /\ \A k \in 1..n : /\ 1..k \in SUBSET (1..n) /\ 1..k # {}
                              /\ Max(1..k) = k /\ (1..k) \ {k} = 1..(k - 1)
<1>1. IsFiniteSet(1..n)
  BY FS_Interval
<1>2. ASSUME NEW s \in (SUBSET (1..n)) \ {{}}
      PROVE  Max(s) \in s /\ \A y \in s : Max(s) >= y
  <2>1. IsFiniteSet(s)
    BY <1>1, FS_Subset
  <2>2. s \subseteq Int /\ s # {}
    OBVIOUS
  <2> QED
    BY <2>1, <2>2, MaxIsLargest
<1>3. ASSUME NEW k \in 1..n
      PROVE  /\ 1..k \in SUBSET (1..n) /\ 1..k # {}
             /\ Max(1..k) = k /\ (1..k) \ {k} = 1..(k - 1)
  <2>1. 1..k \in SUBSET (1..n) /\ k \in 1..k
    OBVIOUS
  <2>2. Max(1..k) \in 1..k /\ Max(1..k) >= k
    BY <1>2, <2>1
  <2> QED
    BY <2>1, <2>2
<1> QED
  BY <1>1, <1>2, <1>3

\* What validateChecklist remembers in the end.
ReadWhole(expected, results) ==
    FoldLeft(LAMBDA soFar, r : ChecklistStep(expected, soFar, r), NothingSeen, results)

InTurn(acc, expected, results, n) ==
    /\ acc[{}] = NothingSeen
    /\ \A k \in 1..n : acc[1..k] = ChecklistStep(expected, acc[1..(k - 1)], results[k])
    /\ ReadWhole(expected, results) = acc[1..n]

\* The fold of validateChecklist takes the results in turn.
LEMMA ReadInTurn ==
    ASSUME NEW expected, expected \subseteq Int, NEW n \in Nat, NEW R, NEW results \in [1..n -> R]
    PROVE  \E acc : InTurn(acc, expected, results, n)
<1> DEFINE V == [seen : SUBSET expected, passed : Nat, returned : Seq(Int), errors : BOOLEAN]
           pick == [s \in SUBSET (1..n) |-> Max(s)]
           op == [i \in 1..n |-> [v \in V |-> ChecklistStep(expected, v, results[i])]]
           Is(f) == f = [s \in SUBSET (1..n) |->
                           IF s = {} THEN NothingSeen
                           ELSE ChecklistStep(expected, f[s \ {Max(s)}], results[Max(s)])]
           acc == CHOOSE f : Is(f)
<1>1. NothingSeen \in V
  BY DEF NothingSeen
<1>2. ASSUME NEW v \in V, NEW i \in 1..n PROVE op[i][v] \in V
  <2> DEFINE r == results[i]
  <2>1. op[i][v] = ChecklistStep(expected, v, r)
    OBVIOUS
  <2> HIDE DEF r, op
  <2>2. CASE r.item \notin expected \/ r.item \in v.seen
    BY <2>1, <2>2 DEF ChecklistStep
  <2>3. CASE r.item \in expected /\ r.item \notin v.seen
    <3>1. r.item \in Int
      BY <2>3
    <3>2. /\ v.seen \cup {r.item} \in SUBSET expected
          /\ (v.passed + IF r.conclusion = "passed" THEN 1 ELSE 0) \in Nat
          /\ (IF r.conclusion = "returned" THEN Append(v.returned, r.item) ELSE v.returned) \in Seq(Int)
          /\ (\/ v.errors \/ r.opinion = Blank
              \/ r.conclusion \notin {"passed", "returned"}) \in BOOLEAN
      BY <2>3, <3>1
    <3> QED
      BY <2>1, <2>3, <3>2 DEF ChecklistStep
  <2> QED
    BY <2>2, <2>3
<1>3. /\ IsFiniteSet(1..n) /\ 1..0 = {}
      /\ \A s \in (SUBSET (1..n)) \ {{}} : Max(s) \in s
      /\ \A k \in 1..n : /\ 1..k \in SUBSET (1..n) /\ 1..k # {}
                         /\ Max(1..k) = k /\ (1..k) \ {k} = 1..(k - 1)
  BY LastOfBeginning
<1>4. \A s \in (SUBSET (1..n)) \ {{}} : pick[s] \in s
  BY <1>3
<1>5. \E F : IsFold(F, 1..n, V, NothingSeen, pick, op)
  <2> HIDE DEF V, pick, op
  <2> QED
    BY <1>1, <1>2, <1>3, <1>4, FoldDefined
<1>6. PICK F : IsFold(F, 1..n, V, NothingSeen, pick, op)
  BY <1>5
<1>7. Is(F)
  <2>1. \A s \in (SUBSET (1..n)) \ {{}} :
           op[pick[s]][F[s \ {pick[s]}]] = ChecklistStep(expected, F[s \ {Max(s)}], results[Max(s)])
    BY <1>3, <1>6 DEF IsFold
  <2>2. F = [s \in SUBSET (1..n) |-> IF s = {} THEN NothingSeen ELSE op[pick[s]][F[s \ {pick[s]}]]]
    BY <1>6 DEF IsFold, Computes
  <2>3. \A s \in SUBSET (1..n) :
           F[s] = IF s = {} THEN NothingSeen
                  ELSE ChecklistStep(expected, F[s \ {Max(s)}], results[Max(s)])
    <3> HIDE DEF op, pick
    <3> QED
      BY <2>1, <2>2
  <2>4. F = [s \in SUBSET (1..n) |-> F[s]]
    <3> HIDE DEF op, pick
    <3> QED
      BY <2>2
  <2> QED
    BY <2>3, <2>4, Zenon
<1> HIDE DEF V, pick, op
<1>8. Is(acc)
  <2> HIDE DEF Is
  <2> QED
    BY <1>7
<1>9. ReadWhole(expected, results) = acc[1..n]
  <2>1. DOMAIN results = 1..n
    OBVIOUS
  <2> QED
    BY <2>1 DEF ReadWhole, FoldLeft, MapThenFoldSet
<1> HIDE DEF acc
<1>10. acc[{}] = NothingSeen
  BY <1>8
<1>11. ASSUME NEW k \in 1..n
       PROVE  acc[1..k] = ChecklistStep(expected, acc[1..(k - 1)], results[k])
  <2>1. 1..k \in SUBSET (1..n) /\ 1..k # {} /\ Max(1..k) = k /\ (1..k) \ {k} = 1..(k - 1)
    BY <1>3
  <2>2. acc[1..k] = IF 1..k = {} THEN NothingSeen
                    ELSE ChecklistStep(expected, acc[(1..k) \ {Max(1..k)}], results[Max(1..k)])
    BY <1>8, <2>1
  <2> QED
    BY <2>1, <2>2
<1> HIDE DEF Is
<1>12. InTurn(acc, expected, results, n)
  BY <1>9, <1>10, <1>11 DEF InTurn
<1> QED
  BY <1>12

\* After the whole list has been read.
LEMMA ReadToTheEnd ==
    ASSUME NEW expected, expected \subseteq Int, NEW n \in Nat, NEW R, NEW results \in [1..n -> R]
    PROVE  Remembered(expected, results, n, ReadWhole(expected, results))
<1>1. PICK acc : InTurn(acc, expected, results, n)
  BY ReadInTurn
<1> DEFINE T == {k \in Nat : k <= n => Remembered(expected, results, k, acc[1..k])}
<1>2. 0 \in T
  <2>1. 1..0 = {}
    OBVIOUS
  <2> QED
    BY <1>1, <2>1, RememberedFirst DEF InTurn
<1>3. ASSUME NEW k \in Nat, k \in T PROVE k + 1 \in T
  <2> SUFFICES ASSUME k + 1 <= n
               PROVE  Remembered(expected, results, k + 1, acc[1..(k + 1)])
    OBVIOUS
  <2>1. k \in 0..(n - 1) /\ k + 1 \in 1..n /\ (k + 1) - 1 = k
    OBVIOUS
  <2>2. Remembered(expected, results, k, acc[1..k])
    BY <1>3, <2>1
  <2>3. acc[1..(k + 1)] = ChecklistStep(expected, acc[1..k], results[k + 1])
    BY <1>1, <2>1 DEF InTurn
  <2> QED
    BY <2>1, <2>2, <2>3, RememberedNext
<1> HIDE DEF T
<1>4. n \in T
  BY <1>2, <1>3, EveryNumber
<1> QED
  BY <1>1, <1>4 DEF T, InTurn

\* Whole: one explained result of a known conclusion for every item and no others.
IsWhole(expected, results) ==
    /\ Len(results) = Cardinality(expected)
    /\ expected = {results[i].item : i \in DOMAIN results}
    /\ \A i \in DOMAIN results : /\ results[i].conclusion \in {"passed", "returned"}
                                 /\ results[i].opinion # Blank

\* What a checklist that is taken is taken for.
TakenWhole(expected, results, verdict) ==
    /\ verdict.passed + Len(verdict.returned) = Cardinality(expected)
    /\ \A i \in DOMAIN results :
          results[i].conclusion = "returned" <=> results[i].item \in ToSet(verdict.returned)
    /\ \A item \in ToSet(verdict.returned) : OpinionFor(results, item) # Blank
    /\ verdict.returned = << >> =>
          ChecklistPassed([results |-> results, passed |-> verdict.passed],
                          [checklist |-> expected])

\* No result is left over: each item has exactly one.
LEMMA OneForEach ==
    ASSUME NEW expected, IsFiniteSet(expected), NEW n \in Nat, NEW results,
           n = Cardinality(expected), expected = ItemsOf(results, n)
    PROVE  \A i, j \in 1..n : results[i].item = results[j].item => i = j
<1> DEFINE f == [i \in 1..n |-> results[i].item]
<1>1. f \in Surjection(1..n, expected)
  <2>1. f \in [1..n -> expected] /\ \A t \in expected : \E i \in 1..n : f[i] = t
    BY DEF ItemsOf
  <2> QED
    BY <2>1 DEF Surjection
<1>2. IsFiniteSet(1..n) /\ Cardinality(1..n) = n
  BY FS_Interval
<1> HIDE DEF f
<1>3. f \in Injection(1..n, expected)
  BY <1>1, <1>2, FS_Surjection, FS_SurjSameCardinalityImpliesInj
<1>4. \A i, j \in 1..n : f[i] = f[j] => i = j
  BY <1>3 DEF Injection, IsInjective
<1> QED
  BY <1>4 DEF f

\* A checklist is taken as a whole or not at all, whatever its items and
\* however many results the reviewer sends.
THEOREM ChecklistsTakenWhole ==
    ASSUME NEW expected, IsFiniteSet(expected), expected \subseteq Int,
           NEW n \in Nat, NEW R, NEW results \in [1..n -> R]
    PROVE  /\ ValidateChecklist(expected, results) # Refused <=> IsWhole(expected, results)
           /\ ValidateChecklist(expected, results) # Refused =>
                 TakenWhole(expected, results, ValidateChecklist(expected, results))
<1> DEFINE end == ReadWhole(expected, results)
           verdict == ValidateChecklist(expected, results)
<1>1. /\ verdict = IF ChecklistEnd(expected, end)
                   THEN [passed |-> end.passed, returned |-> end.returned] ELSE Refused
      /\ Remembered(expected, results, n, end)
  <2>1. verdict = IF ChecklistEnd(expected, end)
                  THEN [passed |-> end.passed, returned |-> end.returned] ELSE Refused
    BY DEF ValidateChecklist, ReadWhole, NothingSeen
  <2>2. Remembered(expected, results, n, end)
    BY ReadToTheEnd
  <2> HIDE DEF end, verdict
  <2> QED
    BY <2>1, <2>2
<1>2. DOMAIN results = 1..n /\ Len(results) = n
  <2>1. results \in Seq(R)
    BY SeqDef
  <2> QED
    BY <2>1
<1>3. Cardinality(expected) \in Nat
  BY FS_CardinalityType
<1> HIDE DEF end, verdict
<1>4. /\ end.passed \in Nat /\ end.returned \in Seq(Int) /\ Len(end.returned) \in Nat
      /\ end.errors \in BOOLEAN
      /\ end.errors <=> ~Explained(expected, results, n)
      /\ Explained(expected, results, n) =>
            /\ end.seen = ItemsOf(results, n)
            /\ end.passed + Len(end.returned) = n /\ Cardinality(end.seen) = n
            /\ ToSet(end.returned) = ItemsReturned(results, n)
  BY <1>1 DEF Remembered
<1>5. verdict # Refused <=> ~end.errors /\ end.seen = expected
  <2>1. [passed |-> end.passed, returned |-> end.returned] # Refused
    BY <1>4, RefusedAssumption
  <2> QED
    BY <1>1, <2>1 DEF ChecklistEnd
<1>6. verdict # Refused <=> IsWhole(expected, results)
  <2>1. ASSUME verdict # Refused PROVE IsWhole(expected, results)
    <3>1. Explained(expected, results, n) /\ expected = ItemsOf(results, n) /\ Cardinality(expected) = n
      BY <1>4, <1>5, <2>1
    <3> QED
      BY <1>2, <3>1 DEF IsWhole, Explained, ItemsOf
  <2>2. ASSUME IsWhole(expected, results) PROVE verdict # Refused
    <3>1. n = Cardinality(expected) /\ expected = ItemsOf(results, n)
      BY <1>2, <2>2 DEF IsWhole, ItemsOf
    <3>2. \A i, j \in 1..n : results[i].item = results[j].item => i = j
      BY <3>1, OneForEach
    <3>3. Explained(expected, results, n)
      <4>1. ASSUME NEW i \in 1..n, NEW j \in 1..(i - 1) PROVE results[j].item # results[i].item
        BY <3>2
      <4>2. \A i \in 1..n : /\ results[i].item \in expected
                            /\ results[i].conclusion \in {"passed", "returned"}
                            /\ results[i].opinion # Blank
        BY <1>2, <2>2 DEF IsWhole
      <4> QED
        BY <4>1, <4>2 DEF Explained
    <3> QED
      BY <1>4, <1>5, <3>1, <3>3
  <2> QED
    BY <2>1, <2>2
<1>7. ASSUME verdict # Refused PROVE TakenWhole(expected, results, verdict)
  <2>1. /\ Explained(expected, results, n) /\ expected = ItemsOf(results, n)
        /\ n = Cardinality(expected) /\ end.passed + Len(end.returned) = n
        /\ ToSet(end.returned) = ItemsReturned(results, n)
    BY <1>4, <1>5, <1>7
  <2>2. verdict.passed = end.passed /\ verdict.returned = end.returned
    BY <1>1, <1>7
  <2>3. \A i, j \in 1..n : results[i].item = results[j].item => i = j
    BY <2>1, OneForEach
  <2>4. \A i \in 1..n : results[i].conclusion = "returned" <=> results[i].item \in ToSet(verdict.returned)
    BY <2>1, <2>2, <2>3 DEF ItemsReturned
  <2>5. ASSUME NEW item \in ToSet(verdict.returned) PROVE OpinionFor(results, item) # Blank
    <3> DEFINE I == {i \in 1..Len(results) : results[i].item = item}
               first == SelectInSeq(results, LAMBDA r : r.item = item)
    <3>1. I # {} /\ I \subseteq 1..n
      BY <1>2, <2>1, <2>2 DEF ItemsReturned
    <3>2. first = Min(I)
      BY <3>1 DEF SelectInSeq
    <3>3. Min(I) \in I
      <4>1. I \subseteq Nat
        BY <3>1
      <4> HIDE DEF I
      <4> QED
        BY <3>1, <4>1, Least DEF Min
    <3> HIDE DEF I, first
    <3>4. first \in 1..n
      BY <3>1, <3>2, <3>3
    <3>5. OpinionFor(results, item) = results[first].opinion
      BY <3>4 DEF OpinionFor, first
    <3> QED
      BY <2>1, <3>4, <3>5 DEF Explained
  <2>6. ASSUME verdict.returned = << >>
        PROVE  ChecklistPassed([results |-> results, passed |-> verdict.passed],
                               [checklist |-> expected])
    <3>1. ToSet(verdict.returned) = {} /\ Len(verdict.returned) = 0
      BY <2>6 DEF ToSet
    <3>2. verdict.passed = n
      BY <1>4, <2>1, <2>2, <3>1
    <3>3. \A i \in 1..n : results[i].conclusion = "passed"
      BY <2>1, <2>4, <3>1 DEF Explained
    <3> QED
      BY <1>2, <2>1, <3>2, <3>3 DEF ChecklistPassed, Explained
  <2> QED
    BY <1>2, <2>1, <2>2, <2>4, <2>5, <2>6 DEF TakenWhole
<1> QED
  BY <1>6, <1>7 DEF verdict

-----------------------------------------------------------------------------
(* The inputs of MCAlgorithms.                                             *)

Inputs == mcJudgements \cup mcLists \cup mcChecklists \cup mcDrafts \cup {[kind |-> "none"]}

InputOK == input \in Inputs

LEMMA InputsInvariant == Spec => []InputOK
<1>1. Init => InputOK
  BY DEF Init, InputOK, Inputs
<1>2. InputOK /\ [Judge \/ SortTodos \/ Check \/ Draft]_input => InputOK'
  <2>1. /\ mcJudgements \subseteq Inputs /\ mcLists \subseteq Inputs
        /\ mcChecklists \subseteq Inputs /\ mcDrafts \subseteq Inputs
    BY DEF Inputs
  <2> QED
    BY <2>1 DEF InputOK, Judge, SortTodos, Check, Draft
<1> QED
  BY <1>1, <1>2, PTL DEF Spec

\* The two judgements agree on every input, whatever bounds the values.
THEOREM JudgementsAgree == Spec => []ReceiptMatchesEvaluation
<1>1. InputOK => ReceiptMatchesEvaluation
  <2> SUFFICES ASSUME InputOK, input.kind = "judgement" PROVE JudgedAlike(input.cp, input.m)
    BY DEF ReceiptMatchesEvaluation
  <2>1. input \in mcJudgements
    BY DEF InputOK, Inputs, mcLists, mcChecklists, mcDrafts
  <2>2. input.cp \in CheckpointType /\ input.m \in MetricsType
    BY <2>1, InputsAssumption DEF mcJudgements, mcNumbers, CheckpointType, MetricsType
  <2> QED
    BY <2>2, ReceiptAgreesWithEvaluation
<1> QED
  BY <1>1, InputsInvariant, PTL

\* The todos are in a strict order in which classes follow time, whatever
\* bounds the due times and in whatever way they are written.
THEOREM TodosSorted == Spec => []TodosAreOrdered
<1>1. InputOK => TodosAreOrdered
  <2> SUFFICES ASSUME InputOK, input.kind = "todos" PROVE TodosAreOrdered
    BY DEF TodosAreOrdered
  <2>1. input \in mcLists
    BY DEF InputOK, Inputs, mcJudgements, mcChecklists, mcDrafts
  <2>2. input.now \in Nat /\ input.todos \in mcTodos
    BY <2>1, InputsAssumption DEF mcLists
  <2>3. \A d \in mcDues : d \in Due \cup {NoDue}
    BY InputsAssumption DEF mcDues, mcNumbers, Due
  <2>4. \A i \in 1..3 : input.todos[i] \in TodoType
    BY <2>2, <2>3 DEF mcTodos, TodoType
  <2>5. \A i, j \in 1..3 : i # j => input.todos[i].id # input.todos[j].id
    BY <2>2 DEF mcTodos
  <2> DEFINE before(i, j) == Precedes(input.todos[i], input.todos[j], input.now)
             class(i) == StatusOf(input.todos[i], input.now)
  <2>6. \A i, j \in 1..3 : i # j => (before(i, j) <=> ~before(j, i))
    BY <2>2, <2>4, <2>5, TodosAreStrictlyOrdered
  <2>7. before(1, 2) /\ before(2, 3) => before(1, 3)
    BY <2>2, <2>4, TodosAreStrictlyOrdered
  <2>8. ASSUME NEW i \in 1..3, NEW j \in 1..3,
               NoDue \notin {input.todos[i].due, input.todos[j].due},
               input.todos[i].due.instant < input.todos[j].due.instant,
               class(i) # class(j)
        PROVE  before(i, j)
    BY <2>2, <2>4, <2>8, EarlierClassFirst
  <2> HIDE DEF before, class
  <2> QED
    BY <2>6, <2>7, <2>8 DEF TodosAreOrdered, before, class
<1> QED
  BY <1>1, InputsInvariant, PTL

\* Checkpoints are stored at the places of their numbers, whatever list is sent.
THEOREM PlacesAreNumbers == Spec => []PlaceIsNumber
<1>1. InputOK => PlaceIsNumber
  <2> SUFFICES ASSUME InputOK, input.kind = "numbers" PROVE PlaceIsNumber
    BY DEF PlaceIsNumber
  <2>1. input \in mcDrafts
    BY DEF InputOK, Inputs, mcJudgements, mcLists, mcChecklists
  <2>2. PICK n \in 0..3 : input.numbers \in [1..n -> 0..4]
    BY <2>1 DEF mcDrafts, UpTo
  <2>3. n \in Nat /\ DOMAIN input.numbers = 1..n /\ \A i \in 1..n : input.numbers[i] \in Int
    BY <2>2
  <2>4. DOMAIN SortCheckpoints(input.numbers) = 1..n
    BY <2>3, Sorted
  <2>5. NumbersOK(SortCheckpoints(input.numbers)) =>
           \A i \in 1..n : SortCheckpoints(input.numbers)[i] = i
    BY <2>3, CheckpointsStandAtTheirNumbers
  <2> QED
    BY <2>4, <2>5 DEF PlaceIsNumber
<1> QED
  BY <1>1, InputsInvariant, PTL

\* Every checklist is taken as a whole or not at all, whatever results are sent.
THEOREM ChecklistsWhole == Spec => []ChecklistTakenWhole
<1>1. InputOK => ChecklistTakenWhole
  <2> SUFFICES ASSUME InputOK, input.kind = "checklist" PROVE ChecklistTakenWhole
    BY DEF ChecklistTakenWhole
  <2> DEFINE expected == input.expected
             results == input.results
  <2>1. input \in mcChecklists
    BY DEF InputOK, Inputs, mcJudgements, mcLists, mcDrafts
  <2>2. /\ expected \in SUBSET (1..2)
        /\ results \in UpTo(3, [item : 1..3, conclusion : {"passed", "returned", "other"},
                                opinion : {Blank, Text}])
    BY <2>1 DEF mcChecklists
  <2> HIDE DEF expected, results
  <2> DEFINE R == [item : 1..3, conclusion : {"passed", "returned", "other"}, opinion : {Blank, Text}]
  <2>3. PICK n \in 0..3 : results \in [1..n -> R]
    BY <2>2 DEF UpTo
  <2>4. n \in Nat
    BY <2>3
  <2> HIDE DEF R
  <2>5. IsFiniteSet(expected) /\ expected \subseteq Int
    <3>1. \A k \in Nat : IsFiniteSet(1..k)
      BY FS_Interval
    <3>2. IsFiniteSet(1..2)
      BY <3>1
    <3>3. IsFiniteSet(expected)
      BY <2>2, <3>2, FS_Subset
    <3> QED
      BY <2>2, <3>3
  <2>6. /\ ValidateChecklist(expected, results) # Refused <=> IsWhole(expected, results)
        /\ ValidateChecklist(expected, results) # Refused =>
              TakenWhole(expected, results, ValidateChecklist(expected, results))
    BY <2>3, <2>4, <2>5, ChecklistsTakenWhole
  <2> QED
    BY <2>6 DEF ChecklistTakenWhole, IsWhole, TakenWhole, expected, results
<1> QED
  BY <1>1, InputsInvariant, PTL
=============================================================================
