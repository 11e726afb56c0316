---------------------------- MODULE InputChecks ----------------------------
(***************************************************************************)
(* Checks that read a client's list once, remembering what they have seen: *)
(* the results of a review (internal/workflow/review.go) and the numbers of*)
(* a draft's checkpoints (internal/domain/validation.go).  DrillWorkflow   *)
(* uses what they accept.                                                  *)
(***************************************************************************)
EXTENDS Dossier

CONSTANTS Blank,    \* a text that TrimSpace empties
          Refused   \* the answer to a list with a field error

ASSUME RefusedAssumption ==
    Blank # Refused /\ Refused \notin [passed : Nat, returned : Seq(Int)]

\* A result for an unknown or already seen item is skipped and reported; one
\* without an opinion or with a strange conclusion counts as seen and is
\* reported.
ChecklistStep(expected, soFar, result) ==
    IF result.item \notin expected \/ result.item \in soFar.seen
    THEN [soFar EXCEPT !.errors = TRUE]
    ELSE [seen     |-> soFar.seen \cup {result.item},
          passed   |-> soFar.passed + IF result.conclusion = "passed" THEN 1 ELSE 0,
          returned |-> IF result.conclusion = "returned"
                       THEN Append(soFar.returned, result.item) ELSE soFar.returned,
          errors   |-> \/ soFar.errors \/ result.opinion = Blank
                       \/ result.conclusion \notin {"passed", "returned"}]

\* Mutated form of ChecklistEnd: items left out are not looked for.
ChecklistRead(expected, soFar) == ~soFar.errors

ChecklistEnd(expected, soFar) == ~soFar.errors /\ soFar.seen = expected

\* validateChecklist: how many items passed and which were returned.
ValidateChecklist(expected, results) ==
    LET end == FoldLeft(LAMBDA soFar, r : ChecklistStep(expected, soFar, r),
                        [seen |-> {}, passed |-> 0, returned |-> << >>, errors |-> FALSE],
                        results)
    IN  IF ChecklistEnd(expected, end)
        THEN [passed |-> end.passed, returned |-> end.returned] ELSE Refused

\* opinionFor: the first result of the item.
OpinionFor(results, item) ==
    LET first == SelectInSeq(results, LAMBDA r : r.item = item) IN
    IF first = 0 THEN Blank ELSE results[first].opinion

\* Mutated form of NumbersOK: a gap is not looked for.
NumbersUnique(numbers) ==
    \A i \in DOMAIN numbers : numbers[i] > 0 /\ \A j \in 1..(i - 1) : numbers[j] # numbers[i]

\* ValidateDraft's pass over the checkpoints, then over 1 to their number.
NumbersOK(numbers) ==
    /\ \A i \in DOMAIN numbers : numbers[i] > 0 /\ \A j \in 1..(i - 1) : numbers[j] # numbers[i]
    /\ \A n \in 1..Len(numbers) : \E i \in DOMAIN numbers : numbers[i] = n

\* sortCheckpoints, which Create calls before the check: sort.Slice rearranges
\* the list so that no number stands before a smaller one.
SortCheckpoints(numbers) ==
    LET places == DOMAIN numbers
        order  == CHOOSE p \in Bijection(places, places) :
                     \A i, j \in places : i < j => numbers[p[i]] <= numbers[p[j]]
    IN  [i \in places |-> numbers[order[i]]]
=============================================================================
