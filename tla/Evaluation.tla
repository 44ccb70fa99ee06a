----------------------------- MODULE Evaluation -----------------------------
(***************************************************************************)
(* How the scoring rules are chosen and what is then reported of them:     *)
(* the division of the labelled listens (src/evaluation/split.py), the     *)
(* selection over a grid of rules (calibrate.py), the rules on disk, the   *)
(* matches built under them and the report (validate_scoring.py).          *)
(*                                                                         *)
(* The candidates of a listen, their features and its normalization are    *)
(* constants.  A rate is a fraction, where the code has doubles.  The      *)
(* programs are run by a person, who may edit the rules at any moment,     *)
(* gives them another scoring_version when they change (scoring_rules.yml  *)
(* asks for it, nothing enforces it: a version stands for its rules here), *)
(* and does not rebuild the matches while they are being measured.         *)
(***************************************************************************)
EXTENDS MatchDecision, Sequences

CONSTANTS
  Listens,
  Recordings,
  Snapshot,         \* the recordings of the canonical snapshot
  Unlabelled,       \* NOT_EVALUABLE
  Modulus,
  Hash,             \* Hash[salt][recording]
  DevUpper, CalibrationUpper,
  Names,            \* Names[l]: the artist and recording of a listen
  Version,          \* the normalization version
  ExactOf, FallbackOf,  \* the recordings under the two keys of a listen
  FeaturesOf,       \* FeaturesOf[l][recording][feature]
  WeightSets, ExactThresholds, FallbackThresholds, Margins,
  Epsilons,         \* --tie-epsilon
  Bound,            \* MAX_ACCEPTED_DISAGREEMENT, a percentage
  Floor,            \* MIN_ACCEPTED_FOR_ELIGIBILITY
  References,       \* the reference labels there may be
  LiveRules,        \* the rules of the working copy at first
  NoTable, NoReport,
  MaxCalibrations   \* how often rules are chosen

Cells == [weights : WeightSets, exact : ExactThresholds,
          fallback : FallbackThresholds, margin : Margins]
RulesOf(cell, epsilon) ==
  [weights |-> cell.weights, exact |-> cell.exact, fallback |-> cell.fallback,
   margin |-> cell.margin, epsilon |-> epsilon]

RulesThereAre == {RulesOf(c, e) : c \in Cells, e \in Epsilons} \cup {LiveRules}

BlockedAs(l) == Blocked(ExactOf[l], FallbackOf[l])
CandidateCount(l) == Cardinality(BlockedAs(l).candidates)

ASSUME EvaluationAssumption ==
  /\ Snapshot \subseteq Recordings
  /\ \A l \in Listens : BlockedAs(l).candidates \subseteq Snapshot
  /\ Hash \in [{"split", "calibration"} -> [Recordings -> Nat]]
  /\ DevUpper \in 0 .. Modulus /\ CalibrationUpper \in 0 .. Modulus
  /\ FeaturesOf \in [Listens -> [Recordings -> [ScoredFeatures -> 0 .. 100 \cup {Absent}]]]
  /\ WeightSets \subseteq [ScoredFeatures -> Nat]
  \* Only the release can be missing, and no set of weights is of the release alone.
  /\ \A l \in Listens : \A r \in BlockedAs(l).candidates : \A w \in WeightSets :
       Score([weights |-> w], FeaturesOf[l][r]) # Absent
  /\ References \subseteq [Listens -> Recordings \cup {Absent}]
  /\ Floor \in Nat \ {0} /\ Bound \in 0 .. 100
  /\ MaxCalibrations \in Nat

\* The domains are finite sets of numbers, and what is missing is none of their members.
ASSUME DomainsAssumption ==
  /\ IsFiniteSet(Listens) /\ IsFiniteSet(Recordings) /\ IsFiniteSet(ScoredFeatures)
  /\ Absent \notin Recordings \cup Int
  /\ ExactThresholds \cup FallbackThresholds \cup Margins \cup Epsilons \subseteq Nat
  /\ DOMAIN LiveRules.weights \subseteq ScoredFeatures
  /\ \A f \in DOMAIN LiveRules.weights : LiveRules.weights[f] \in Nat
  /\ {LiveRules.exact, LiveRules.fallback, LiveRules.margin, LiveRules.epsilon} \subseteq Nat

VARIABLES
  reference,    \* mapper_reference_labels
  config,       \* config/scoring_rules.yml: the rules and the recorded digest
  matches,      \* silver_listen_matches: the rules of its version, its rows
  calibration,  \* the report of calibrate.py
  runs,         \* how often it was run
  session,      \* validate_scoring.py
  report        \* its report

vars == <<reference, config, matches, calibration, runs, session, report>>

-----------------------------------------------------------------------------
(* The division of the labels *)

BucketOf(recording) ==
  IF recording = Absent THEN Unlabelled
  ELSE IF Hash["split"][recording] % Modulus < DevUpper THEN "dev" ELSE "holdout"

\* Inside dev only, by another salt; the SQL is generated from the same values.
PartitionOf(recording) ==
  IF BucketOf(recording) # "dev" THEN BucketOf(recording)
  ELSE IF Hash["calibration"][recording] % Modulus < CalibrationUpper
    THEN "calibration" ELSE "validation"

Partitions == {"calibration", "validation", "holdout"}

Labelled(partition) == {l \in Listens : PartitionOf(reference[l]) = partition}

-----------------------------------------------------------------------------
(* What is counted of a set of listens *)

\* Mutant: a reference that is in no snapshot is one that was not retrieved.
TallyOfLost(given, inBlock) ==
  LET wrong == {l \in DOMAIN given : given[l] # reference[l]} IN
  [accepted      |-> Cardinality(DOMAIN given),
   rankingError  |-> Cardinality(wrong \cap inBlock),
   notRetrieved  |-> Cardinality(wrong \ inBlock),
   notInSnapshot |-> Cardinality({l \in wrong : reference[l] \notin Snapshot})]

\* Of the listens some rules accepted, each with the recording it was given, and the listens
\* whose reference was among the candidates: how many agree, and why the others do not.
Tally(given, inBlock) ==
  LET wrong == {l \in DOMAIN given : given[l] # reference[l]} IN
  [accepted      |-> Cardinality(DOMAIN given),
   rankingError  |-> Cardinality(wrong \cap inBlock),
   notRetrieved  |-> Cardinality({l \in wrong \ inBlock : reference[l] \in Snapshot}),
   notInSnapshot |-> Cardinality({l \in wrong : reference[l] \notin Snapshot})]

Evaluable(t) == t.accepted - t.notInSnapshot
Judged(t) == t.rankingError + t.notRetrieved

\* Nothing evaluable is no evidence: the worst rate.
AllWrong == [wrong |-> 1, of |-> 1]
Rate(t) ==
  IF Evaluable(t) = 0 THEN AllWrong ELSE [wrong |-> Judged(t), of |-> Evaluable(t)]

AtMost(x, y) == x.wrong * y.of <= y.wrong * x.of

InBlock == {l \in Listens : reference[l] \in BlockedAs(l).candidates}

-----------------------------------------------------------------------------
(* Calibration *)

Stages == {"EXACT_MULTI", "FALLBACK_UNIQUE", "FALLBACK_MULTI"}

\* The features table holds what needs a score: not the only candidate of an exact key.
StageOf(l) ==
  CASE CandidateCount(l) = 0 -> "NONE"
    [] BlockedAs(l).block = "EXACT" /\ CandidateCount(l) = 1 -> "EXACT_UNIQUE"
    [] BlockedAs(l).block = "EXACT" /\ CandidateCount(l) > 1 -> "EXACT_MULTI"
    [] BlockedAs(l).block = "FALLBACK" /\ CandidateCount(l) = 1 -> "FALLBACK_UNIQUE"
    [] OTHER -> "FALLBACK_MULTI"

\* per_listen: the first by score and the two best scores, under each set of weights.
Tops ==
  [w \in WeightSets |-> [l \in {l \in Listens : StageOf(l) \in Stages} |->
     LET candidates == BlockedAs(l).candidates
         score == [r \in candidates |-> Score([weights |-> w], FeaturesOf[l][r])]
         first == Top(candidates, score)
     IN  [first |-> first, top1 |-> score[first],
          top2 |-> TopScore(candidates \ {first}, score)]]]

\* Mutant: a second that is near is no tie, only an equal one.
OutcomeWithoutMargin(cell, epsilon, l, top1, top2) ==
  IF top1 < Applied(cell, BlockedAs(l).block) THEN "BELOW_THRESHOLD"
  ELSE IF top1 = top2 THEN "AMBIGUOUS_TIE" ELSE "ACCEPTED"

\* outcome_expr, for a listen all of whose candidates have a score.
OutcomeOf(cell, epsilon, l, top1, top2) ==
  IF top1 < Applied(cell, BlockedAs(l).block) THEN "BELOW_THRESHOLD"
  ELSE IF CandidateCount(l) = 1 THEN "ACCEPTED"
  ELSE IF top1 - top2 <= Precision * epsilon THEN "AMBIGUOUS_TIE"
  ELSE IF top1 - top2 < Precision * cell.margin THEN "AMBIGUOUS_TIE"
  ELSE "ACCEPTED"

Accepts ==
  [cell \in Cells |-> [epsilon \in Epsilons |->
     {l \in DOMAIN Tops[cell.weights] :
        LET best == Tops[cell.weights][l] IN
        OutcomeOf(cell, epsilon, l, best.top1, best.top2) = "ACCEPTED"}]]

\* What a cell of the grid gives the listens of a stage.
Given(cell, epsilon, listens) ==
  [l \in listens \cap Accepts[cell][epsilon] |-> Tops[cell.weights][l].first]

GridCell(cell, epsilon, partition) ==
  [stage \in {StageOf(l) : l \in Labelled(partition)} \cap Stages |->
     Tally(Given(cell, epsilon, {l \in Labelled(partition) : StageOf(l) = stage}), InBlock)]

Accepted(stages) == SumFunction([s \in DOMAIN stages |-> stages[s].accepted])

\* Of the stages that accepted enough to be judged.
Worst(stages) ==
  LET rates == {Rate(stages[s]) : s \in {s \in DOMAIN stages : Evaluable(stages[s]) >= Floor}} IN
  IF rates = {} THEN AllWrong ELSE CHOOSE x \in rates : \A y \in rates : AtMost(y, x)

\* Mutant: a stage that accepts nothing satisfies the bound.
IsPresent(stages) == \A s \in Stages : s \in DOMAIN stages

IsComplete(stages) == \A s \in Stages : s \in DOMAIN stages /\ Evaluable(stages[s]) >= Floor

\* The complete cells of the grid.
Scored(grid) ==
  {[key |-> c, accepted |-> Accepted(grid[c]), worst |-> Worst(grid[c])] :
     c \in {c \in DOMAIN grid : IsComplete(grid[c])}}

Most(cells) == {x \in cells : \A y \in cells : y.accepted <= x.accepted}
Least(cells) == {x \in cells : \A y \in cells : AtMost(x.worst, y.worst)}

\* choose: the first of the best, in whatever order the rows arrived.
Best(cells) ==
  LET eligible == {x \in cells : AtMost(x.worst, [wrong |-> Bound, of |-> 100])}
  IN  IF eligible # {} THEN Least(Most(eligible)) ELSE Most(Least(cells))

\* Without a complete cell choose ends in an exception, and nothing is written.
Calibrate(partition, epsilon) ==
  /\ runs < MaxCalibrations
  /\ runs' = runs + 1
  /\ LET best == Best(Scored([c \in Cells |-> GridCell(c, epsilon, partition)])) IN
     \/ \E x \in best :
          calibration' = [partition |-> partition, rules |-> RulesOf(x.key, epsilon),
                          stages |-> GridCell(x.key, epsilon, partition)]
     \/ best = {} /\ UNCHANGED calibration
  /\ UNCHANGED <<reference, config, matches, session, report>>

-----------------------------------------------------------------------------
(* Rules, matches, report *)

\* What was chosen is written into the file, with its digest or without.
EditRules ==
  /\ calibration # NoReport
  /\ \E digest \in {calibration.rules, config.recorded} :
       config' = [rules |-> calibration.rules, recorded |-> digest]
  /\ UNCHANGED <<reference, matches, calibration, runs, session, report>>

Rows ==
  [rules \in RulesThereAre |-> [l \in Listens |->
     MatchRow(rules, Version, Names[l], BlockedAs(l), FeaturesOf[l])]]

BuildMatches ==
  /\ session.pc = "idle"
  /\ LoadsScoring(config)
  /\ matches' = [rules |-> config.rules,
                 rows |-> Rows[config.rules]]
  /\ UNCHANGED <<reference, config, calibration, runs, session, report>>

\* --candidate-run-id is compared with nothing: it may not be the published one.
StartValidation ==
  /\ session.pc = "idle"
  /\ LoadsScoring(config)
  /\ \E published \in BOOLEAN :
       session' = [pc |-> "check", rules |-> config.rules, published |-> published,
                   measured |-> <<>>]
  /\ UNCHANGED <<reference, config, matches, calibration, runs, report>>

Resting == [pc |-> "idle", rules |-> LiveRules, published |-> TRUE, measured |-> <<>>]

\* Mutant: that there are rows is enough.
SomePublished == matches # NoTable

SameVersion == matches # NoTable /\ matches.rules = session.rules

CheckVersion ==
  /\ session.pc = "check"
  /\ session' = IF SameVersion THEN [session EXCEPT !.pc = "measure"] ELSE Resting
  /\ UNCHANGED <<reference, config, matches, calibration, runs, report>>

Method(l) ==
  CASE StageOf(l) = "EXACT_UNIQUE" -> "STRUCTURAL_EXACT_UNIQUE"
    [] StageOf(l) = "NONE" -> "NO_CANDIDATES"
    [] StageOf(l) = "EXACT_MULTI" -> "SCORED_EXACT_MULTIPLE"
    [] StageOf(l) = "FALLBACK_UNIQUE" -> "SCORED_FALLBACK_UNIQUE"
    [] OTHER -> "SCORED_FALLBACK_MULTIPLE"

ByMethod(partition) ==
  [method \in {Method(l) : l \in Labelled(partition)} |->
     LET matched == {l \in Labelled(partition) : /\ Method(l) = method
                                                 /\ matches.rows[l].recording # Absent}
     IN  Tally([l \in matched |-> matches.rows[l].recording],
               IF session.published THEN InBlock ELSE {})]

\* Three queries for each partition, in this order; their metrics are grouped by method. A
\* partition without labelled listens has no overall row, and the program ends there.
Measure ==
  /\ session.pc = "measure" /\ Len(session.measured) < 3
  /\ LET partition == <<"validation", "calibration", "holdout">>[Len(session.measured) + 1] IN
     session' = IF Labelled(partition) = {} THEN Resting
                ELSE [session EXCEPT !.measured = Append(@, ByMethod(partition))]
  /\ UNCHANGED <<reference, config, matches, calibration, runs, report>>

WriteReport ==
  /\ session.pc = "measure" /\ Len(session.measured) = 3
  /\ report' = [rules |-> session.rules, validation |-> session.measured[1],
                calibration |-> session.measured[2], holdout |-> session.measured[3]]
  /\ session' = Resting
  /\ UNCHANGED <<reference, config, matches, calibration, runs>>

-----------------------------------------------------------------------------
(* Specification *)

Init ==
  /\ reference \in References
  /\ config = [rules |-> LiveRules, recorded |-> LiveRules]
  /\ matches = NoTable
  /\ calibration = NoReport
  /\ runs = 0
  /\ session = Resting
  /\ report = NoReport

Next ==
  \/ \E p \in Partitions, e \in Epsilons : Calibrate(p, e)
  \/ EditRules
  \/ BuildMatches
  \/ StartValidation
  \/ CheckVersion
  \/ Measure
  \/ WriteReport

Spec == Init /\ [][Next]_vars

-----------------------------------------------------------------------------
(* Properties *)

Tallies == [accepted : 0 .. Cardinality(Listens), rankingError : 0 .. Cardinality(Listens),
            notRetrieved : 0 .. Cardinality(Listens), notInSnapshot : 0 .. Cardinality(Listens)]

\* What is judged was accepted, and can be.
WellTallied(tallies) ==
  \A group \in DOMAIN tallies : /\ tallies[group] \in Tallies
                                /\ Judged(tallies[group]) <= Evaluable(tallies[group])

\* Every variable has its type, and in no group are more decisions wrong than can be judged.
TypeOK ==
  /\ reference \in References
  /\ matches = NoTable \/ DOMAIN matches.rows = Listens
  /\ calibration = NoReport \/ WellTallied(calibration.stages)
  /\ runs \in 0 .. MaxCalibrations
  /\ session.pc \in {"idle", "check", "measure"} /\ Len(session.measured) <= 3
  /\ report = NoReport \/ \A p \in Partitions : WellTallied(report[p])

\* The matcher's own decision of a listen, in Python.
MatcherAccepts ==
  [rules \in RulesThereAre |->
     {l \in Listens : PythonOutcome(rules, BlockedAs(l), FeaturesOf[l]) = "ACCEPTED"}]

\* The candidate no other comes near, where there is one.
Leads ==
  [rules \in RulesThereAre |-> [l \in Listens |->
     {r \in BlockedAs(l).candidates : Undisputed(rules, BlockedAs(l), FeaturesOf[l], r)}]]

\* The listens of a stage that rules accept and that can be judged.
Judgeable(rules, partition, stage) ==
  {l \in Labelled(partition) :
     StageOf(l) = stage /\ reference[l] \in Snapshot /\ l \in MatcherAccepts[rules]}

\* Those of them in which the reference does not lead.
Mistaken(rules, partition, stage) ==
  {l \in Judgeable(rules, partition, stage) : reference[l] \notin Leads[rules][l]}

\* J and E of a stage: what is mistaken, of how much.
Error(rules, partition) ==
  [s \in Stages |-> [of |-> Cardinality(Judgeable(rules, partition, s)),
                     wrong |-> Cardinality(Mistaken(rules, partition, s))]]

Coverage(rules, partition) ==
  Cardinality({l \in Labelled(partition) : StageOf(l) \in Stages /\ l \in MatcherAccepts[rules]})

\* Of the rules that disagree within the bound in every stage, none accepts more than the
\* chosen ones; where there are none, no other has a lower worst stage. Told of the decisions
\* the matcher makes (decide of scoring.py), not of the grid, and of exact fractions.
IsByTheRule(p, chosen) ==
  LET error == [rules \in {RulesOf(c, chosen.epsilon) : c \in Cells} |-> Error(rules, p)]
      measurable == {r \in DOMAIN error : \A s \in Stages : error[r][s].of >= Floor}
      within == {r \in measurable : \A s \in Stages :
                   100 * error[r][s].wrong <= Bound * error[r][s].of}
  IN  /\ chosen \in measurable
      /\ within # {} =>
           chosen \in within /\ \A r \in within : Coverage(r, p) <= Coverage(chosen, p)
      /\ within = {} =>
           \A r \in measurable : \A s \in Stages : \E t \in Stages :
             AtMost(error[chosen][s], error[r][t])

\* A calibration that reports chose by the rule that was fixed before the table was read
\* (calibrate.py:6), over the decisions the matcher will make.
ChosenByTheRule ==
  [][calibration' # calibration => IsByTheRule(calibration'.partition, calibration'.rules)]_vars

MethodOf == [EXACT_MULTI |-> "SCORED_EXACT_MULTIPLE",
             FALLBACK_UNIQUE |-> "SCORED_FALLBACK_UNIQUE",
             FALLBACK_MULTI |-> "SCORED_FALLBACK_MULTIPLE"]

\* What the rules were chosen for is what is shipped: a report of matches built under the
\* chosen rules counts of the partition they were chosen on what calibration counted, by
\* whatever candidate run id it is asked for. Four programs decide it: the grid, the file,
\* the builder and the report.
ShippedAsCalibrated ==
  report # NoReport /\ calibration # NoReport /\ report.rules = calibration.rules =>
    \A s \in DOMAIN calibration.stages :
      LET chosen == calibration.stages[s]
          shipped == report[calibration.partition][MethodOf[s]]
      IN  /\ shipped.accepted = chosen.accepted
          /\ shipped.notInSnapshot = chosen.notInSnapshot
          /\ Judged(shipped) = Judged(chosen)

\* A report is of rows the rules it names decided, although the rules on disk are edited
\* before, between and after (validate_scoring.py:9).
ReportedAsDecided ==
  report # NoReport =>
    \A p \in Partitions : \A s \in Stages : MethodOf[s] \in DOMAIN report[p] =>
      report[p][MethodOf[s]].accepted
        = Cardinality({l \in Labelled(p) : StageOf(l) = s /\ l \in MatcherAccepts[report.rules]})

=============================================================================
