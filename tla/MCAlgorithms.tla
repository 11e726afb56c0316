---------------------------- MODULE MCAlgorithms ----------------------------
(* The pure algorithms of the service, each on every input of a small size:*)
(* thresholds and readings on both sides of each other; three todos with   *)
(* due times whose texts are in any order, at every time; lists of up to   *)
(* three checklist results, unknown, repeated and unexplained ones among   *)
(* them; lists of up to three checkpoint numbers.                          *)
EXTENDS DrillRules, TodoOrder, InputChecks

CONSTANTS MaxValue,     \* bound: thresholds, readings and due times
          MaxTexts,     \* bound: ways to write due times
          Text          \* an opinion

ASSUME InputsAssumption == MaxValue \in Nat /\ MaxTexts \in Nat

VARIABLE input      \* what an algorithm is given

mcNumbers == 0..MaxValue

mcJudgements ==
    [kind : {"judgement"},
     cp : [limit : mcNumbers \ {0}, capacity : mcNumbers \ {0}, comm : BOOLEAN, access : BOOLEAN],
     m : [participants : mcNumbers, elapsed : mcNumbers, comm : BOOLEAN, access : BOOLEAN]]

mcDues == {NoDue} \cup {DueTime(i, t) : i \in mcNumbers, t \in 1..MaxTexts}

\* Identifiers are random: their order is any.  A text has one instant.
mcTodos ==
    {t \in [1..3 -> [id : 1..3, severity : {"critical", "major"}, due : mcDues]] :
        \A i, j \in 1..3 : /\ i # j => t[i].id # t[j].id
                           /\ t[i].due.text = t[j].due.text => t[i].due = t[j].due}

mcLists == [kind : {"todos"}, todos : mcTodos, now : 0..(MaxValue + 1)]

UpTo(n, S) == UNION {[1..k -> S] : k \in 0..n}

mcChecklists ==
    [kind : {"checklist"}, expected : SUBSET (1..2),
     results : UpTo(3, [item : 1..3, conclusion : {"passed", "returned", "other"},
                        opinion : {Blank, Text}])]

mcDrafts == [kind : {"numbers"}, numbers : UpTo(3, 0..4)]

Init == input = [kind |-> "none"]

Judge     == input.kind = "none" /\ input' \in mcJudgements
SortTodos == input.kind = "none" /\ input' \in mcLists
Check     == input.kind = "none" /\ input' \in mcChecklists
Draft     == input.kind = "none" /\ input' \in mcDrafts

Spec == Init /\ [][Judge \/ SortTodos \/ Check \/ Draft]_input

-----------------------------------------------------------------------------

\* The receipt of a record (BuildJudgmentReceipt) and the findings it opens
\* (Evaluate) are computed separately and judge alike.
ReceiptMatchesEvaluation == input.kind = "judgement" => JudgedAlike(input.cp, input.m)

\* sort.SliceStable needs a strict order: of two todos exactly one comes first,
\* and what precedes what precedes a third precedes it too, through classes,
\* severities, missing due times and texts in any order.  And whatever their
\* severities and texts, of two retests in different classes the one due
\* earlier comes first, at every time.  Within a class and severity it need
\* not: those are in the order of their texts.
TodosAreOrdered ==
    input.kind = "todos" =>
       LET todos == input.todos
           before(i, j) == Precedes(todos[i], todos[j], input.now)
           class(i) == StatusOf(todos[i], input.now)
       IN  /\ \A i, j \in 1..3 : i # j => (before(i, j) <=> ~before(j, i))
           /\ before(1, 2) /\ before(2, 3) => before(1, 3)
           /\ \A i, j \in 1..3 :
                 /\ NoDue \notin {todos[i].due, todos[j].due}
                 /\ todos[i].due.instant < todos[j].due.instant
                 /\ class(i) # class(j)
                 => before(i, j)

\* A checklist is taken as a whole or not at all: it is accepted exactly when
\* it has one explained result of a known conclusion for every item and no
\* others, in any order; then every item passed or was returned, each returned
\* one with the opinion that becomes the cause of its finding, and if none was
\* the dossier sealed with these results verifies.
ChecklistTakenWhole ==
    input.kind = "checklist" =>
       LET results == input.results
           verdict == ValidateChecklist(input.expected, results)
           whole   == /\ Len(results) = Cardinality(input.expected)
                      /\ input.expected = {results[i].item : i \in DOMAIN results}
                      /\ \A i \in DOMAIN results :
                            /\ results[i].conclusion \in {"passed", "returned"}
                            /\ results[i].opinion # Blank
       IN  /\ verdict # Refused <=> whole
           /\ verdict # Refused =>
                /\ verdict.passed + Len(verdict.returned) = Cardinality(input.expected)
                /\ \A i \in DOMAIN results :
                      results[i].conclusion = "returned"
                         <=> results[i].item \in ToSet(verdict.returned)
                /\ \A item \in ToSet(verdict.returned) : OpinionFor(results, item) # Blank
                /\ verdict.returned = << >> =>
                      ChecklistPassed([results |-> results, passed |-> verdict.passed],
                                      [checklist |-> input.expected])

\* A draft's checkpoints are stored in the order of their numbers, and a
\* checkpoint's place in the list is its number: NextCheckpoint goes by place,
\* the receipt and the workbench show the number.
PlaceIsNumber ==
    input.kind = "numbers" =>
       LET stored == SortCheckpoints(input.numbers) IN
       NumbersOK(stored) => \A i \in DOMAIN stored : stored[i] = i
=============================================================================
