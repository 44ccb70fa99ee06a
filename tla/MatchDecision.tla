---------------------------- MODULE MatchDecision ----------------------------
(***************************************************************************)
(* How a listen is matched: its candidates (build_blocking.py), the rules  *)
(* they are scored by (scoring.py, applied in Python and as generated SQL) *)
(* and the row that comes of it (build_match_results.py).                  *)
(*                                                                         *)
(* Rules are a record [weights, exact, fallback, margin, epsilon]. The     *)
(* features of a candidate and the thresholds are percentages; a score is  *)
(* kept to a thousandth of one, where the code has doubles.                *)
(***************************************************************************)
EXTENDS Integers, FiniteSetsExt, Functions, Normalization

CONSTANTS
  ScoredFeatures, \* FEATURE_COLUMNS
  Absent          \* SQL's NULL, Python's None

Precision == 1000

\* The digest of the rules stands for them; it must be the recorded one.
LoadsScoring(config) ==
  /\ config.recorded = config.rules
  /\ DOMAIN config.rules.weights \subseteq ScoredFeatures
  /\ config.rules.epsilon <= config.rules.margin

\* The weighted mean of what could be compared: what could not is not a 0.
Score(rules, features) ==
  LET compared == {f \in DOMAIN rules.weights : features[f] # Absent}
      weight == SumFunction([f \in compared |-> rules.weights[f]])
  IN  IF weight = 0 THEN Absent
      ELSE (Precision * SumFunction([f \in compared |-> rules.weights[f] * features[f]])) \div weight

\* The SQL has no term for a weight of 0, and a NULL feature is 0 in both sums.
SqlScore(rules, features) ==
  LET used == {f \in DOMAIN rules.weights : rules.weights[f] # 0}
      sum(term(_)) == SumFunction([f \in used |-> IF features[f] = Absent THEN 0 ELSE term(f)])
      weight == sum(LAMBDA f : rules.weights[f])
  IN  IF weight = 0 THEN Absent
      ELSE (Precision * sum(LAMBDA f : rules.weights[f] * features[f])) \div weight

Applied(rules, block) == Precision * (IF block = "EXACT" THEN rules.exact ELSE rules.fallback)

\* decide: the order of the branches is the policy.
PythonDecision(rules, block, count, top1, top2) ==
  IF count = 0 \/ top1 = Absent THEN "NO_BLOCK_CANDIDATES"
  ELSE IF top1 < Applied(rules, block) THEN "BELOW_THRESHOLD"
  ELSE IF count = 1 \/ top2 = Absent THEN "ACCEPTED"
  ELSE IF top1 - top2 <= Precision * rules.epsilon \/ top1 - top2 < Precision * rules.margin
    THEN "AMBIGUOUS_TIE" ELSE "ACCEPTED"

\* Mutant: only an equal second is a tie.
SqlWithoutMargin(rules, block, count, top1, top2) ==
  IF count = 0 \/ top1 = Absent THEN "NO_BLOCK_CANDIDATES"
  ELSE IF top1 < Applied(rules, block) THEN "BELOW_THRESHOLD"
  ELSE IF count = 1 \/ top2 = Absent \/ top1 # top2 THEN "ACCEPTED" ELSE "AMBIGUOUS_TIE"

SqlDecision(rules, block, count, top1, top2) ==
  IF count = 0 \/ top1 = Absent THEN "NO_BLOCK_CANDIDATES"
  ELSE IF top1 < Applied(rules, block) THEN "BELOW_THRESHOLD"
  ELSE IF count = 1 \/ top2 = Absent THEN "ACCEPTED"
  ELSE IF top1 - top2 <= Precision * rules.epsilon THEN "AMBIGUOUS_TIE"
  ELSE IF top1 - top2 < Precision * rules.margin THEN "AMBIGUOUS_TIE"
  ELSE "ACCEPTED"

\* The candidates by the exact key; where it has none, those by the fallback key.
Blocked(exact, fallback) ==
  IF exact # {} THEN [block |-> "EXACT", candidates |-> exact]
  ELSE [block |-> IF fallback # {} THEN "FALLBACK" ELSE Absent, candidates |-> fallback]

\* The first by score, and among equals the first by its identifier, which the order of a
\* CHOOSE stands for. NULL scores come last.
Top(candidates, score) ==
  LET scored == {r \in candidates : score[r] # Absent} IN
  CHOOSE r \in scored : \A q \in scored : score[q] <= score[r]

TopScore(candidates, score) ==
  IF \A r \in candidates : score[r] = Absent THEN Absent ELSE score[Top(candidates, score)]

Unmatched(reason, n) == [recording |-> Absent, reason |-> reason, candidates |-> n]
MatchedTo(r, n) == [recording |-> r, reason |-> Absent, candidates |-> n]

\* One row: uniqueness by the exact key needs no score; of a listen that is not matched,
\* what its names or its key are missing comes before the outcome.
MatchRow(rules, version, pair, blocked, features) ==
  LET n == Cardinality(blocked.candidates)
      score == [r \in blocked.candidates |-> SqlScore(rules, features[r])]
      top1 == TopScore(blocked.candidates, score)
      first == Top(blocked.candidates, score)
      top2 == TopScore(blocked.candidates \ {first}, score)
      outcome == SqlDecision(rules, blocked.block, n, top1, IF top1 = Absent THEN Absent ELSE top2)
  IN  IF blocked.block = "EXACT" /\ n = 1
        THEN MatchedTo(CHOOSE r \in blocked.candidates : TRUE, 1)
      ELSE IF outcome = "ACCEPTED" THEN MatchedTo(first, n)
      ELSE Unmatched(FailureReason(version, pair, outcome), n)

-----------------------------------------------------------------------------
(* What the rules mean, without rows that are ranked *)

\* The candidate is the only one of the exact key, or it reaches the threshold and leads
\* every other that has a score by the margin.
Undisputed(rules, blocked, features, best) ==
  LET score == [r \in blocked.candidates |-> Score(rules, features[r])] IN
  \/ blocked = [block |-> "EXACT", candidates |-> {best}]
  \/ /\ score[best] # Absent /\ score[best] >= Applied(rules, blocked.block)
     /\ \A r \in blocked.candidates \ {best} :
          score[r] # Absent => /\ score[best] - score[r] >= Precision * rules.margin
                               /\ score[best] - score[r] > Precision * rules.epsilon

\* decide, of the two best scores that score gives.
PythonOutcome(rules, blocked, features) ==
  LET score == [r \in blocked.candidates |-> Score(rules, features[r])]
      scored == {r \in blocked.candidates : score[r] # Absent}
      top1 == Max({score[r] : r \in scored})
      next == {score[r] : r \in scored} \ {top1}
      top2 == IF Cardinality({r \in scored : score[r] = top1}) > 1 THEN top1
              ELSE IF next = {} THEN Absent ELSE Max(next)
  IN  IF scored = {} THEN PythonDecision(rules, blocked.block, Cardinality(blocked.candidates), Absent, Absent)
      ELSE PythonDecision(rules, blocked.block, Cardinality(blocked.candidates), top1, top2)

=============================================================================
