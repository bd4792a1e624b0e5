------------------------------ MODULE Metrics ------------------------------
(***************************************************************************)
(* MetricsCalculator::compute: the findings of a run are compared with a   *)
(* ground truth.  The entries of the ground truth are taken in the order   *)
(* of the file, and each takes the nearest finding that nobody has taken;  *)
(* what remains is counted.  Nothing is reconsidered: an early entry may   *)
(* take the only finding a later one could have had.                       *)
(***************************************************************************)
EXTENDS Integers, Sequences, FiniteSets

CONSTANTS
  File,        \* the paths findings carry
  Fragment,    \* what an entry says of the path
  Contains,    \* Contains[s]: the paths with the substring s, all for the empty one
  Name,        \* function names
  Inputs       \* the pairs (findings, ground truth) considered

Finding == [name : Name, file : File, line : Int]
Entry == [name : Name, file : Fragment, line : Int, tolerance : Int]

ASSUME MetricsConstants ==
  /\ Contains \in [Fragment -> SUBSET File]
  /\ Inputs \subseteq [findings : Seq(Finding), gt : Seq(Entry)]

VARIABLES
  input,             \* the findings and the ground truth
  gi,                \* how many entries have chosen
  pairs,             \* the entries that have matched -> the finding each took
  true_positives,
  false_positives,
  false_negatives,
  pc                 \* "matching" or "done"

vars == <<input, gi, pairs, true_positives, false_positives, false_negatives, pc>>

Abs(n) == IF n >= 0 THEN n ELSE -n

\* A negative line number in an entry stands for any line.
Diff(g, f) == IF g.line >= 0 THEN Abs(f.line - g.line) ELSE 0

Candidate(g, f) ==
  /\ f.name = g.name
  /\ f.file \in Contains[g.file]
  /\ Diff(g, f) <= g.tolerance

Findings == DOMAIN input.findings
Entries == DOMAIN input.gt

Suits(g, f) == Candidate(input.gt[g], input.findings[f])
Distance(g, f) == Diff(input.gt[g], input.findings[f])

f_matched == {pairs[g] : g \in DOMAIN pairs}
Free(g) == {f \in Findings \ f_matched : Suits(g, f)}

Init ==
  /\ input \in Inputs
  /\ gi = 0
  /\ pairs = [g \in {} |-> 0]
  /\ true_positives = 0
  /\ false_positives = 0
  /\ false_negatives = 0
  /\ pc = "matching"

\* The first finding that suits, however far away.
BugBest(g, f) == \A h \in Free(g) : f <= h

\* Of the free findings the nearest one, and of those the first.
Best(g, f) ==
  \A h \in Free(g) : \/ Distance(g, f) < Distance(g, h)
                     \/ Distance(g, f) = Distance(g, h) /\ f <= h

\* Without the test of f_matched: two entries may take the same finding.
BugTake ==
  /\ pc = "matching"
  /\ gi < Len(input.gt)
  /\ \E f \in Findings :
       /\ Suits(gi + 1, f)
       /\ pairs' = [g \in DOMAIN pairs \cup {gi + 1} |-> IF g = gi + 1 THEN f ELSE pairs[g]]
  /\ true_positives' = true_positives + 1
  /\ gi' = gi + 1
  /\ UNCHANGED <<input, false_positives, false_negatives, pc>>

\* The body of the loop over the ground truth, when a finding is left ...
Take ==
  /\ pc = "matching"
  /\ gi < Len(input.gt)
  /\ \E f \in Free(gi + 1) :
       /\ Best(gi + 1, f)
       /\ pairs' = [g \in DOMAIN pairs \cup {gi + 1} |-> IF g = gi + 1 THEN f ELSE pairs[g]]
  /\ true_positives' = true_positives + 1
  /\ gi' = gi + 1
  /\ UNCHANGED <<input, false_positives, false_negatives, pc>>

\* An entry passed over although a finding is left for it.
BugMiss ==
  /\ pc = "matching"
  /\ gi < Len(input.gt)
  /\ gi' = gi + 1
  /\ UNCHANGED <<input, pairs, true_positives, false_positives, false_negatives, pc>>

\* ... and when none is.
Miss ==
  /\ pc = "matching"
  /\ gi < Len(input.gt)
  /\ Free(gi + 1) = {}
  /\ gi' = gi + 1
  /\ UNCHANGED <<input, pairs, true_positives, false_positives, false_negatives, pc>>

\* What nobody has taken and what has found nothing is counted.
Count ==
  /\ pc = "matching"
  /\ gi = Len(input.gt)
  /\ false_positives' = Cardinality(Findings \ f_matched)
  /\ false_negatives' = Cardinality(Entries \ DOMAIN pairs)
  /\ pc' = "done"
  /\ UNCHANGED <<input, gi, pairs, true_positives>>

Counted == pc = "done" /\ UNCHANGED vars

Next == Take \/ Miss \/ Count \/ Counted

Spec == Init /\ [][Next]_vars

(***************************************************************************)
(* Properties.                                                             *)
(***************************************************************************)
\* The type invariant: only entries that have had their turn hold a finding.
TypeOK ==
  /\ input \in Inputs
  /\ gi \in 0 .. Len(input.gt)
  /\ DOMAIN pairs \subseteq 1 .. gi
  /\ \A g \in DOMAIN pairs : pairs[g] \in Findings
  /\ true_positives \in Nat /\ false_positives \in Nat /\ false_negatives \in Nat
  /\ pc \in {"matching", "done"}

\* Precision and recall are shares of the same run (compute): every finding is
\* a true or a false positive, every entry found or a false negative, and none
\* is counted twice.
CountsAddUp ==
  pc = "done" =>
    /\ true_positives + false_positives = Len(input.findings)
    /\ true_positives + false_negatives = Len(input.gt)

\* Whoever stands first in the file chooses first: a finding that suits an
\* entry and is nearer than what the entry got (or it got nothing) belongs to
\* an earlier entry.
EarlierEntriesChooseFirst ==
  \A g \in 1 .. gi : \A f \in Findings :
    Suits(g, f) =>
      \/ \E e \in DOMAIN pairs : e < g /\ pairs[e] = f
      \/ g \in DOMAIN pairs /\ Distance(g, pairs[g]) <= Distance(g, f)

\* The most pairs any assignment of findings to entries has.
Assignments == UNION {[D -> Findings] : D \in SUBSET Entries}
IsMatching(m) ==
  /\ \A g \in DOMAIN m : Suits(g, m[g])
  /\ \A g, h \in DOMAIN m : m[g] = m[h] => g = h

\* The choice is greedy, so the order of the file can cost true positives, but
\* never more than half: no assignment has more than twice as many.
AtLeastHalf ==
  pc = "done" =>
    \A m \in Assignments : IsMatching(m) => Cardinality(DOMAIN m) <= 2 * true_positives
=============================================================================
