---------------------------- MODULE RiskAssessor ----------------------------
(***************************************************************************)
(* RiskAssessor::assess: every finding gets a score from its base risk and *)
(* its context, the scored findings become the migration plan, and the     *)
(* plan is folded into counts, file summaries, an overall score and a      *)
(* readiness verdict.                                                      *)
(*                                                                         *)
(* Scores are exact integers where the code has doubles: a base risk is in *)
(* hundredths, a multiplier in units of 1/20000 (every product of the      *)
(* code's factors is a whole number of them), so a score is in units of    *)
(* one two-millionth.  What a path says of a file is a constant; the texts *)
(* of an action (replacement, notes, rationale) are left out.              *)
(***************************************************************************)
EXTENDS Integers, Sequences, FiniteSets

CONSTANTS
  RatedFile,     \* files that findings lie in
  TestFile,      \* those for which is_test_file holds
  NetworkFile,   \* ... is_network_file
  StorageFile,   \* ... is_persistence_file
  BusyFile,      \* ... with call_frequency > 5 (estimate_frequency)
  Scans,         \* the sequences of findings considered
  CertScores,    \* the scores certificates may have; the input is a subset
  TopN,          \* how many actions the overall score averages: 10 in the code
  HighLimit,     \* more HIGH actions than this mean "not-started": 3
  MediumLimit    \* more MEDIUM actions than this mean "in-progress": 5

FindingType == [file : RatedFile, base : 0 .. 1000, key : BOOLEAN, loop : BOOLEAN]

ASSUME RiskConstants ==
  Scans \subseteq Seq(FindingType) /\ TopN \in Nat \ {0} /\ HighLimit \in Nat /\ MediumLimit \in Nat

VARIABLES
  findings,   \* the argument of assess, never changed
  certs,      \* the scores of the certificates, never changed
  scored,     \* actions_with_score: <<index of the finding, final score>>
  plan,       \* report.migration_plan
  handled,    \* how many actions the loop of the phase has handled
  counts,     \* report.critical_count, high_count, medium_count, low_count
  summary,    \* report.file_summaries
  overall,    \* report.overall_risk_score as a fraction <<numerator, denominator>>
  readiness,  \* report.nist_readiness
  assessing   \* "score", "sort", "count", "files", "overall", "done"

given == <<findings, certs>>
risk == <<findings, certs, scored, plan, handled, counts, summary, overall, readiness, assessing>>

(***************************************************************************)
(* Scores (analyze_context, compute_risk).                                 *)
(***************************************************************************)
One     == 20000             \* the multiplier 1.0
Points  == 100 * One         \* the score 1.0
MaxRisk == 10 * Points

Priority == {"CRITICAL", "HIGH", "MEDIUM", "LOW"}

\* Network and storage count only outside test code.
IsTest(f)    == f.file \in TestFile
IsNetwork(f) == ~IsTest(f) /\ f.file \in NetworkFile
IsStorage(f) == ~IsTest(f) /\ f.file \in StorageFile
IsBusy(f)    == f.file \in BusyFile

Times(x, c, num, den) == IF c THEN (x * num) \div den ELSE x

Multiplier(f) ==
  LET test    == Times(One,     IsTest(f),     7, 10)
      network == Times(test,    IsNetwork(f), 13, 10)
      storage == Times(network, IsStorage(f),  5,  4)
      key     == Times(storage, f.key,         6,  5)
      loop    == Times(key,     f.loop,       11, 10)
  IN  Times(loop, IsBusy(f), 11, 10)

AtMost(x, cap) == IF x < cap THEN x ELSE cap

Score(f) == AtMost(f.base * Multiplier(f), MaxRisk)

Band(score) ==
  CASE score >= 9 * Points -> "CRITICAL"
    [] score >= 7 * Points /\ score < 9 * Points -> "HIGH"
    [] score >= 5 * Points /\ score < 7 * Points -> "MEDIUM"
    [] score < 5 * Points -> "LOW"

\* enum class MigrationPriority { CRITICAL, HIGH, MEDIUM, LOW }, as numbers.
Rank == [CRITICAL |-> 0, HIGH |-> 1, MEDIUM |-> 2, LOW |-> 3]

(***************************************************************************)
(* The steps of assess.                                                    *)
(***************************************************************************)
NoSummary == [count |-> 0, max |-> 0, sum |-> 0, priority |-> "LOW"]

AssessInit ==
  /\ findings \in Scans
  /\ certs \in SUBSET CertScores
  /\ scored = <<>>
  /\ plan = <<>>
  /\ handled = 0
  /\ counts = [p \in Priority |-> 0]
  /\ summary = [f \in {} |-> NoSummary]
  /\ overall = <<0, 1>>
  /\ readiness = ""
  /\ assessing = "score"

\* The first loop: the next finding is scored.
ScoreNext ==
  /\ assessing = "score"
  /\ LET i == Len(scored) + 1
     IN  IF i <= Len(findings)
         THEN scored' = Append(scored, <<i, Score(findings[i])>>) /\ UNCHANGED assessing
         ELSE assessing' = "sort" /\ UNCHANGED scored
  /\ UNCHANGED <<given, plan, handled, counts, summary, overall, readiness>>

\* std::sort is not stable: any arrangement in descending order may come out.
Descending(s) == \A i \in 1 .. (Len(s) - 1) : s[i][2] >= s[i + 1][2]

\* An action may be copied over another.
BugArrangements(s) ==
  LET n == Len(s)
  IN  {[i \in 1 .. n |-> s[p[i]]] : p \in [1 .. n -> 1 .. n]}

Arrangements(s) ==
  LET n == Len(s)
      Onto == {p \in [1 .. n -> 1 .. n] : \A i \in 1 .. n : \E j \in 1 .. n : p[j] = i}
  IN  {[i \in 1 .. n |-> s[p[i]]] : p \in Onto}

SortPlan ==
  /\ assessing = "sort"
  /\ \E s \in Arrangements(scored) : Descending(s) /\ plan' = s
  /\ assessing' = "count"
  /\ UNCHANGED <<given, scored, handled, counts, summary, overall, readiness>>

FileOf(action)  == findings[action[1]].file
ScoreOf(action) == action[2]

PriorityOf(score) == Band(score)

\* The loop over the plan that counts priorities.
CountNext ==
  /\ assessing = "count"
  /\ IF handled < Len(plan)
     THEN /\ handled' = handled + 1
          /\ counts' = [counts EXCEPT ![PriorityOf(ScoreOf(plan[handled + 1]))] = @ + 1]
          /\ UNCHANGED assessing
     ELSE handled' = 0 /\ assessing' = "files" /\ UNCHANGED counts
  /\ UNCHANGED <<given, scored, plan, summary, overall, readiness>>

\* The entry of a file after one more action.  The test against HIGH compares
\* the enumerators: CRITICAL is the smallest.
Added(old, score) ==
  [count    |-> old.count + 1,
   max      |-> IF old.max < score THEN score ELSE old.max,
   sum      |-> old.sum + score,
   priority |-> IF score >= 9 * Points THEN "CRITICAL"
                ELSE IF score >= 7 * Points /\ Rank[old.priority] < Rank["HIGH"] THEN "HIGH"
                ELSE old.priority]

\* The loop over the plan that fills file_summaries.
SummariseNext ==
  /\ assessing = "files"
  /\ IF handled < Len(plan)
     THEN LET f   == FileOf(plan[handled + 1])
              old == IF f \in DOMAIN summary THEN summary[f] ELSE NoSummary
          IN  /\ summary' = [g \in DOMAIN summary \cup {f} |->
                               IF g = f THEN Added(old, ScoreOf(plan[handled + 1])) ELSE summary[g]]
              /\ handled' = handled + 1
              /\ UNCHANGED assessing
     ELSE handled' = 0 /\ assessing' = "overall" /\ UNCHANGED summary
  /\ UNCHANGED <<given, scored, plan, counts, overall, readiness>>

Total[n \in 0 .. Len(plan)] == IF n = 0 THEN 0 ELSE Total[n - 1] + ScoreOf(plan[n])

MaxCert == IF certs = {} THEN 0 ELSE CHOOSE c \in certs : \A d \in certs : d <= c

\* The mean of the first TopN actions, then 0.7 of it and 0.3 of the worst
\* certificate if there are certificates.
OverallScore ==
  LET n    == AtMost(Len(plan), TopN)
      den  == IF n > 0 THEN n ELSE 1
      num  == Total[n]
      both == 7 * num + 3 * MaxCert * den
  IN  IF certs = {} THEN <<num, den>> ELSE <<AtMost(both, MaxRisk * 10 * den), 10 * den>>

Readiness ==
  IF findings = <<>> /\ certs = {} THEN "compliant"
  ELSE IF counts["CRITICAL"] > 0 \/ counts["HIGH"] > HighLimit THEN "not-started"
  ELSE IF counts["HIGH"] > 0 \/ counts["MEDIUM"] > MediumLimit THEN "in-progress"
  ELSE "near-compliant"

Conclude ==
  /\ assessing = "overall"
  /\ overall' = OverallScore
  /\ readiness' = Readiness
  /\ assessing' = "done"
  /\ UNCHANGED <<given, scored, plan, handled, counts, summary>>

Assessed == assessing = "done" /\ UNCHANGED risk

AssessNext == \/ ScoreNext \/ SortPlan \/ CountNext \/ SummariseNext \/ Conclude
              \/ Assessed

AssessSpec == AssessInit /\ [][AssessNext]_risk

(***************************************************************************)
(* Properties.                                                             *)
(***************************************************************************)
AllAssessed == assessing = "done"

\* The scores of the findings of a file, straight from the input.
In(file) == {i \in DOMAIN findings : findings[i].file = file}

\* The plan lists every finding exactly once, each with the score its own
\* context gives (FR-17, FR-18): the sort moves actions, it mixes up none.
PlanIsComplete ==
  AllAssessed => /\ Len(plan) = Len(findings)
                 /\ \A i \in DOMAIN findings : \E j \in DOMAIN plan : plan[j] = <<i, Score(findings[i])>>

\* The head of the plan is the worst of the work: the overall score of a
\* project without certificates is at least the mean over all its findings,
\* and at least the score of everything behind the first TopN actions.
HeadIsWorst ==
  AllAssessed /\ certs = {} /\ findings # <<>> =>
    /\ overall[1] * Len(plan) >= Total[Len(plan)] * overall[2]
    /\ \A j \in DOMAIN plan : j > TopN => overall[1] >= ScoreOf(plan[j]) * overall[2]

\* The file summaries partition the plan: per file the number of findings, the
\* worst and the sum of their scores, and no file without findings.
SummariesPartition ==
  AllAssessed =>
    /\ DOMAIN summary = {findings[i].file : i \in DOMAIN findings}
    /\ \A f \in DOMAIN summary :
         /\ summary[f].count = Cardinality(In(f))
         /\ \A i \in In(f) : Score(findings[i]) <= summary[f].max
         /\ \E i \in In(f) : Score(findings[i]) = summary[f].max
         /\ summary[f].sum <= summary[f].count * summary[f].max

\* The verdict never flatters: "compliant" needs an empty inventory, and a
\* finding that must be migrated at once rules "near-compliant" and
\* "in-progress" out.
ReadinessIsHonest ==
  AllAssessed =>
    /\ readiness = "compliant" => findings = <<>> /\ certs = {}
    /\ readiness = "near-compliant" => \A i \in DOMAIN findings : Score(findings[i]) < 7 * Points
    /\ readiness = "in-progress" => \A i \in DOMAIN findings : Score(findings[i]) < 9 * Points

\* What is printed of the project is what was found in it (assess): the parts
\* above, each of which another loop over the plan computes, and the verdict.
AssessmentIsSound ==
  PlanIsComplete /\ HeadIsWorst /\ SummariesPartition /\ ReadinessIsHonest
=============================================================================
