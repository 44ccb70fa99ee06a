-------------------------- MODULE EvaluationProofs --------------------------
(***************************************************************************)
(* What the choice of the scoring rules and the report of the matches may  *)
(* rely on, for any listens, candidates, features, labels and grid: a      *)
(* report is of rows the rules it names decided, it counts what the        *)
(* calibration of those rules counted, and the rules that are chosen are   *)
(* the best of the grid by the decisions the matcher makes of them.        *)
(***************************************************************************)
EXTENDS Evaluation, ScoringProofs

Assumptions == EvaluationAssumption /\ DomainsAssumption

-----------------------------------------------------------------------------
(* Counting *)

Parts(A, B, S) == IsFiniteSet(S) /\ A \in SUBSET S /\ B \in SUBSET S /\ A \cap B = {}

LEMMA PartsCount ==
  ASSUME NEW S, NEW A, NEW B, Parts(A, B, S)
  PROVE  /\ Cardinality(A \cup B) = Cardinality(A) + Cardinality(B)
         /\ Cardinality(A) \in 0 .. Cardinality(S) /\ Cardinality(B) \in 0 .. Cardinality(S)
         /\ Cardinality(A \cup B) \in 0 .. Cardinality(S)
<1>1. IsFiniteSet(A) /\ IsFiniteSet(B) /\ A \cup B \in SUBSET S
  BY FS_Subset DEF Parts
<1>2. Cardinality(A \cup B) = Cardinality(A) + Cardinality(B) - Cardinality(A \cap B)
  BY <1>1, FS_Union
<1>3. Cardinality(A \cap B) = 0
  BY FS_EmptySet DEF Parts
<1>4. /\ Cardinality(S) \in Nat
      /\ Cardinality(A) \in Nat /\ Cardinality(A) <= Cardinality(S)
      /\ Cardinality(B) \in Nat /\ Cardinality(B) <= Cardinality(S)
      /\ Cardinality(A \cup B) \in Nat /\ Cardinality(A \cup B) <= Cardinality(S)
  BY <1>1, FS_Subset, FS_CardinalityType DEF Parts
<1>5. QED
  BY <1>2, <1>3, <1>4

Wrong(given) == {l \in DOMAIN given : given[l] # reference[l]}

\* Whether a candidate run id tells that the reference was among the candidates or not, as
\* many are wrong that can be judged.
LEMMA TallyCounts ==
  ASSUME Assumptions, NEW given, DOMAIN given \subseteq Listens, NEW inBlock \in {InBlock, {}}
  PROVE  LET t == Tally(given, inBlock) IN
         /\ t.accepted = Cardinality(DOMAIN given)
         /\ t.notInSnapshot = Cardinality({l \in Wrong(given) : reference[l] \notin Snapshot})
         /\ Judged(t) = Cardinality({l \in Wrong(given) : reference[l] \in Snapshot})
         /\ t \in Tallies /\ Judged(t) <= Evaluable(t)
<1> DEFINE t == Tally(given, inBlock)
           wrong == Wrong(given)
           n == Cardinality(Listens)
           lost == {l \in wrong : reference[l] \notin Snapshot}
           judged == {l \in wrong : reference[l] \in Snapshot}
           ranked == wrong \cap inBlock
           missed == {l \in wrong \ inBlock : reference[l] \in Snapshot}
<1>1. IsFiniteSet(Listens)
  BY DEF Assumptions, DomainsAssumption
<1>2. /\ t = [accepted |-> Cardinality(DOMAIN given), rankingError |-> Cardinality(ranked),
              notRetrieved |-> Cardinality(missed), notInSnapshot |-> Cardinality(lost)]
      /\ wrong \in SUBSET DOMAIN given
  BY DEF Tally, Wrong
<1>3. \A l \in inBlock : reference[l] \in Snapshot
  BY DEF InBlock, Assumptions, EvaluationAssumption
<1>4. ranked \cap missed = {}
  OBVIOUS
<1>5. judged \cup lost = wrong /\ judged \cap lost = {}
  OBVIOUS
<1>6. /\ Cardinality(judged) = Cardinality(ranked) + Cardinality(missed)
      /\ Cardinality(ranked) \in 0 .. n /\ Cardinality(missed) \in 0 .. n
  <2>1. Parts(ranked, missed, Listens)
    BY <1>1, <1>2, <1>4 DEF Parts
  <2> HIDE DEF ranked, missed, judged, wrong, n
  <2>2. /\ Cardinality(ranked \cup missed) = Cardinality(ranked) + Cardinality(missed)
        /\ Cardinality(ranked) \in 0 .. n /\ Cardinality(missed) \in 0 .. n
        /\ Cardinality(ranked \cup missed) \in 0 .. n
    BY <2>1, PartsCount DEF n
  <2>3. ranked \cup missed = judged
    BY <1>3 DEF ranked, missed, judged
  <2>4. QED
    BY <2>2, <2>3
<1>7. /\ Cardinality(wrong) = Cardinality(judged) + Cardinality(lost)
      /\ Cardinality(judged) \in 0 .. n /\ Cardinality(lost) \in 0 .. n
      /\ Cardinality(wrong) \in 0 .. n
  <2>1. Parts(judged, lost, Listens)
    BY <1>1, <1>2, <1>5 DEF Parts
  <2> HIDE DEF lost, judged, wrong, n
  <2>2. /\ Cardinality(judged \cup lost) = Cardinality(judged) + Cardinality(lost)
        /\ Cardinality(judged) \in 0 .. n /\ Cardinality(lost) \in 0 .. n
        /\ Cardinality(judged \cup lost) \in 0 .. n
    BY <2>1, PartsCount DEF n
  <2>3. QED
    BY <1>5, <2>2
<1>8. Cardinality(DOMAIN given) \in 0 .. n /\ Cardinality(wrong) <= Cardinality(DOMAIN given)
  <2> HIDE DEF wrong
  <2>1. IsFiniteSet(DOMAIN given)
    BY <1>1, FS_Subset
  <2>2. Cardinality(DOMAIN given) <= n /\ Cardinality(wrong) <= Cardinality(DOMAIN given)
    BY <1>1, <1>2, <2>1, FS_Subset
  <2>3. Cardinality(DOMAIN given) \in Nat /\ n \in Nat
    BY <1>1, <2>1, FS_CardinalityType
  <2>4. QED
    BY <2>2, <2>3
<1> HIDE DEF ranked, missed, lost, judged, wrong, n
<1>9. t \in Tallies
  BY <1>2, <1>6, <1>7, <1>8 DEF Tallies, n
<1>10. Judged(t) = Cardinality(judged)
  BY <1>2, <1>6 DEF Judged
<1>11. Evaluable(t) = Cardinality(DOMAIN given) - Cardinality(lost)
  BY <1>2 DEF Evaluable
<1>12. Judged(t) <= Evaluable(t)
  BY <1>7, <1>8, <1>10, <1>11
<1>13. QED
  BY <1>2, <1>9, <1>10, <1>12 DEF lost, judged, wrong

-----------------------------------------------------------------------------
(* Listens, and what the matcher decides of them *)

\* Every listen can be scored, by any rules there are.
LEMMA RulesTyped ==
  ASSUME Assumptions, NEW rules \in RulesThereAre
  PROVE  /\ DOMAIN rules.weights \subseteq ScoredFeatures
         /\ \A f \in DOMAIN rules.weights : rules.weights[f] \in Nat
         /\ {rules.exact, rules.fallback, rules.margin, rules.epsilon} \subseteq Nat
<1>1. CASE rules = LiveRules
  BY <1>1 DEF Assumptions, DomainsAssumption
<1>2. CASE rules # LiveRules
  <2>1. PICK c \in Cells, e \in Epsilons : rules = RulesOf(c, e)
    BY <1>2 DEF RulesThereAre
  <2>2. /\ c.weights \in [ScoredFeatures -> Nat]
        /\ {c.exact, c.fallback, c.margin, e} \subseteq Nat
    BY DEF Cells, Assumptions, EvaluationAssumption, DomainsAssumption
  <2>3. QED
    BY <2>1, <2>2 DEF RulesOf
<1>3. QED
  BY <1>1, <1>2

LEMMA ListensAreUsable ==
  ASSUME Assumptions, NEW rules \in RulesThereAre, NEW l \in Listens
  PROVE  Usable(rules, BlockedAs(l), FeaturesOf[l]) /\ Absent \notin Int
<1>1. /\ BlockedAs(l).candidates \subseteq Snapshot /\ Snapshot \subseteq Recordings
      /\ IsFiniteSet(Recordings) /\ Absent \notin Recordings \cup Int
      /\ IsFiniteSet(ScoredFeatures)
  BY DEF Assumptions, EvaluationAssumption, DomainsAssumption
<1>2. BlockedAs(l) = [block |-> BlockedAs(l).block, candidates |-> BlockedAs(l).candidates]
  BY DEF BlockedAs, Blocked
<1>3. IsFiniteSet(BlockedAs(l).candidates) /\ Absent \notin BlockedAs(l).candidates
  BY <1>1, FS_Subset
<1>4. IsFiniteSet(DOMAIN rules.weights)
  BY <1>1, RulesTyped, FS_Subset
<1>5. ASSUME NEW r \in BlockedAs(l).candidates
      PROVE  ScoredBy(rules, FeaturesOf[l][r])
  <2>1. FeaturesOf[l][r] \in [ScoredFeatures -> 0 .. 100 \cup {Absent}]
    BY <1>1 DEF Assumptions, EvaluationAssumption
  <2>2. \A f \in ScoredFeatures : FeaturesOf[l][r][f] \in Int \cup {Absent}
    BY <2>1
  <2>3. QED
    BY <1>4, <2>2, RulesTyped DEF ScoredBy
<1>6. QED
  BY <1>1, <1>2, <1>3, <1>5, RulesTyped DEF Usable

ScoreOf(rules, l) == [r \in BlockedAs(l).candidates |-> Score(rules, FeaturesOf[l][r])]
FirstOf(rules, l) == Top(BlockedAs(l).candidates, ScoreOf(rules, l))

\* A listen of one of the stages has candidates, and is not the only one of an exact key.
LEMMA StagesAreScored ==
  ASSUME Assumptions, NEW l \in Listens, StageOf(l) \in Stages
  PROVE  /\ CandidateCount(l) \in Nat \ {0}
         /\ ~(BlockedAs(l).block = "EXACT" /\ CandidateCount(l) = 1)
<1>1. CandidateCount(l) \in Nat
  <2>1. IsFiniteSet(BlockedAs(l).candidates)
    BY FS_Subset DEF Assumptions, EvaluationAssumption, DomainsAssumption
  <2>2. QED
    BY <2>1, FS_CardinalityType DEF CandidateCount
<1>2. CandidateCount(l) # 0
  BY DEF StageOf, Stages
<1>3. ~(BlockedAs(l).block = "EXACT" /\ CandidateCount(l) = 1)
  BY DEF StageOf, Stages
<1>4. QED
  BY <1>1, <1>2, <1>3

\* What is accepted in a stage is the one candidate that leads the others.
LEMMA AcceptedIsTheLeader ==
  ASSUME Assumptions, NEW rules \in RulesThereAre, NEW l \in Listens, StageOf(l) \in Stages,
         l \in MatcherAccepts[rules]
  PROVE  FirstOf(rules, l) \in BlockedAs(l).candidates /\ Leads[rules][l] = {FirstOf(rules, l)}
<1> DEFINE C == BlockedAs(l).candidates
           score == ScoreOf(rules, l)
           first == FirstOf(rules, l)
<1>1. Usable(rules, BlockedAs(l), FeaturesOf[l]) /\ Absent \notin Int
  BY ListensAreUsable
<1>2. score = [r \in C |-> Score(rules, FeaturesOf[l][r])]
  BY DEF ScoreOf
<1>3. PythonOutcome(rules, BlockedAs(l), FeaturesOf[l]) = "ACCEPTED"
  BY DEF MatcherAccepts
<1>4. score \in Scores(C) /\ SqlOutcome(rules, BlockedAs(l), score) = "ACCEPTED"
  BY <1>1, <1>2, <1>3, OutcomesAgree
<1>5. first \in C /\ Undisputed(rules, BlockedAs(l), FeaturesOf[l], first)
  BY <1>1, <1>2, <1>4, AcceptedLeads DEF FirstOf
<1>6. ASSUME NEW r \in C, Undisputed(rules, BlockedAs(l), FeaturesOf[l], r), r # first
      PROVE  FALSE
  <2>1. \A q \in C : BlockedAs(l) # [block |-> "EXACT", candidates |-> {q}]
    <3>1. SUFFICES ASSUME NEW q \in C, BlockedAs(l) = [block |-> "EXACT", candidates |-> {q}]
                   PROVE  FALSE
      OBVIOUS
    <3>2. BlockedAs(l).block = "EXACT" /\ C = {q}
      BY <3>1
    <3>3. CandidateCount(l) = 1
      BY <3>2, FS_Singleton DEF CandidateCount
    <3>4. QED
      BY <3>2, <3>3, StagesAreScored
  <2>2. /\ score[first] # Absent /\ score[r] # Absent
        /\ score[first] - score[r] > Precision * rules.epsilon
        /\ score[r] - score[first] > Precision * rules.epsilon
    BY <1>2, <1>5, <1>6, <2>1 DEF Undisputed
  <2>3. score[first] \in Int /\ score[r] \in Int
    BY <1>4, <1>5, <1>6, <2>2 DEF Scores
  <2>4. Precision * rules.epsilon \in Nat
    BY RulesTyped DEF Precision
  <2> HIDE DEF first
  <2>5. QED
    BY <2>2, <2>3, <2>4
<1>7. Leads[rules][l] = {r \in C : Undisputed(rules, BlockedAs(l), FeaturesOf[l], r)}
  BY DEF Leads
<1>8. QED
  BY <1>5, <1>6, <1>7

\* The builder matches what the matcher accepts, to the first by score.
LEMMA RowsFollowTheMatcher ==
  ASSUME Assumptions, NEW rules \in RulesThereAre, NEW l \in Listens, StageOf(l) \in Stages
  PROVE  Rows[rules][l].recording = IF l \in MatcherAccepts[rules] THEN FirstOf(rules, l) ELSE Absent
<1>1. Usable(rules, BlockedAs(l), FeaturesOf[l]) /\ Absent \notin Int
  BY ListensAreUsable
<1>2. ~(BlockedAs(l).block = "EXACT" /\ Cardinality(BlockedAs(l).candidates) = 1)
  BY StagesAreScored DEF CandidateCount
<1>3. Rows[rules][l] = MatchRow(rules, Version, Names[l], BlockedAs(l), FeaturesOf[l])
  BY DEF Rows
<1>4. MatchRow(rules, Version, Names[l], BlockedAs(l), FeaturesOf[l]).recording
        = IF PythonOutcome(rules, BlockedAs(l), FeaturesOf[l]) = "ACCEPTED"
          THEN FirstOf(rules, l) ELSE Absent
  BY <1>1, <1>2, RowFollowsOutcome DEF FirstOf, ScoreOf
<1>5. QED
  BY <1>3, <1>4 DEF MatcherAccepts

-----------------------------------------------------------------------------
(* What is counted of the matcher's decisions *)

\* The listens of a stage that rules accept.
Taken(rules, p, s) == {l \in Labelled(p) : StageOf(l) = s /\ l \in MatcherAccepts[rules]}

Lost(rules, p, s) == {l \in Taken(rules, p, s) : reference[l] \notin Snapshot}

\* A tally is of what rules accept in a stage.
IsCountOf(t, rules, p, s) ==
  /\ t.accepted = Cardinality(Taken(rules, p, s))
  /\ t.notInSnapshot = Cardinality(Lost(rules, p, s))
  /\ Judged(t) = Cardinality(Mistaken(rules, p, s))
  /\ Evaluable(t) = Cardinality(Judgeable(rules, p, s))
  /\ t \in Tallies /\ Judged(t) <= Evaluable(t)

\* Whoever counts what the matcher accepts in a stage, and to what, counts its errors.
LEMMA DecisionsCounted ==
  ASSUME Assumptions, NEW rules \in RulesThereAre, NEW p, NEW s \in Stages,
         NEW inBlock \in {InBlock, {}}, NEW given, DOMAIN given = Taken(rules, p, s),
         \A l \in Taken(rules, p, s) : given[l] = FirstOf(rules, l)
  PROVE  IsCountOf(Tally(given, inBlock), rules, p, s)
<1> DEFINE t == Tally(given, inBlock)
           taken == Taken(rules, p, s)
           lost == {l \in taken : reference[l] \notin Snapshot}
<1>1. taken \in SUBSET Listens /\ \A l \in taken : l \in Listens /\ StageOf(l) = s
  BY DEF Taken, Labelled
<1>2. ASSUME NEW l \in taken
      PROVE  /\ FirstOf(rules, l) \in Snapshot
             /\ Leads[rules][l] = {FirstOf(rules, l)}
  <2>1. l \in Listens /\ StageOf(l) \in Stages /\ l \in MatcherAccepts[rules]
    BY <1>1 DEF Taken
  <2>2. QED
    BY <2>1, AcceptedIsTheLeader DEF Assumptions, EvaluationAssumption
<1>3. Judgeable(rules, p, s) = {l \in taken : reference[l] \in Snapshot}
  BY DEF Judgeable, Taken
<1>4. {l \in Wrong(given) : reference[l] \notin Snapshot} = lost
  BY <1>2 DEF Wrong
<1>5. {l \in Wrong(given) : reference[l] \in Snapshot} = Mistaken(rules, p, s)
  BY <1>2, <1>3 DEF Wrong, Mistaken
<1>6. Parts(Judgeable(rules, p, s), lost, Listens) /\ Judgeable(rules, p, s) \cup lost = taken
  BY <1>1, <1>3 DEF Parts, Assumptions, DomainsAssumption
<1> HIDE DEF lost, taken
<1>7. /\ Cardinality(taken) = Cardinality(Judgeable(rules, p, s)) + Cardinality(lost)
      /\ Cardinality(Judgeable(rules, p, s)) \in Nat /\ Cardinality(lost) \in Nat
  <2>1. IsFiniteSet(Listens)
    BY DEF Assumptions, DomainsAssumption
  <2>2. /\ Cardinality(Judgeable(rules, p, s) \cup lost)
             = Cardinality(Judgeable(rules, p, s)) + Cardinality(lost)
        /\ Cardinality(Judgeable(rules, p, s)) \in 0 .. Cardinality(Listens)
        /\ Cardinality(lost) \in 0 .. Cardinality(Listens)
        /\ Cardinality(Judgeable(rules, p, s) \cup lost) \in 0 .. Cardinality(Listens)
    BY <1>6, PartsCount
  <2>3. Cardinality(Listens) \in Nat
    BY <2>1, FS_CardinalityType
  <2>4. Cardinality(taken) = Cardinality(Judgeable(rules, p, s)) + Cardinality(lost)
    BY <1>6, <2>2
  <2>5. Cardinality(Judgeable(rules, p, s)) \in Nat /\ Cardinality(lost) \in Nat
    BY <2>2, <2>3
  <2>6. QED
    BY <2>4, <2>5
<1>8. /\ t.accepted = Cardinality(taken) /\ t.notInSnapshot = Cardinality(lost)
      /\ Judged(t) = Cardinality(Mistaken(rules, p, s))
      /\ t \in Tallies /\ Judged(t) <= Evaluable(t)
  <2>1. DOMAIN given \subseteq Listens /\ DOMAIN given = taken
    BY <1>1 DEF taken
  <2>2. QED
    BY <1>4, <1>5, <2>1, TallyCounts
<1>9. Evaluable(t) = Cardinality(Judgeable(rules, p, s))
  BY <1>7, <1>8 DEF Evaluable
<1>10. QED
  BY <1>8, <1>9 DEF IsCountOf, Lost, taken, lost

-----------------------------------------------------------------------------
(* The grid *)

\* The grid accepts what the matcher would under the rules of the cell, and gives it the same.
LEMMA GridIsTheMatcher ==
  ASSUME Assumptions, NEW c \in Cells, NEW e \in Epsilons, NEW l \in Listens,
         StageOf(l) \in Stages
  PROVE  /\ RulesOf(c, e) \in RulesThereAre
         /\ l \in Accepts[c][e] <=> l \in MatcherAccepts[RulesOf(c, e)]
         /\ Tops[c.weights][l].first = FirstOf(RulesOf(c, e), l)
<1> DEFINE rules == RulesOf(c, e)
           C == BlockedAs(l).candidates
           block == BlockedAs(l).block
           n == CandidateCount(l)
           score == ScoreOf(rules, l)
           first == FirstOf(rules, l)
           second == TopScore(C \ {first}, score)
<1>1. rules \in RulesThereAre
  BY DEF RulesThereAre
<1>2. c.weights \in WeightSets
  BY DEF Cells
<1>3. score = [r \in C |-> Score([weights |-> c.weights], FeaturesOf[l][r])]
  BY DEF ScoreOf, RulesOf, Score
<1>4. \A r \in C : score[r] # Absent
  BY <1>2, <1>3 DEF Assumptions, EvaluationAssumption
<1>5. Usable(rules, BlockedAs(l), FeaturesOf[l]) /\ Absent \notin Int
  BY <1>1, ListensAreUsable
<1>6. /\ score \in Scores(C)
      /\ PythonOutcome(rules, BlockedAs(l), FeaturesOf[l]) = SqlOutcome(rules, BlockedAs(l), score)
  BY <1>5, OutcomesAgree DEF ScoreOf
<1>7. n \in Nat \ {0} /\ n = Cardinality(C) /\ IsFiniteSet(C)
  BY <1>5, StagesAreScored DEF CandidateCount, Usable
<1>8. \E r \in C : score[r] # Absent
  BY <1>4, <1>7, FS_EmptySet
<1>9. first \in C /\ score[first] \in Int /\ TopScore(C, score) = score[first]
  BY <1>5, <1>6, <1>7, <1>8, TopIsGreatest DEF FirstOf
<1>10. n # 1 => second \in Int
  <2>1. SUFFICES ASSUME n # 1 PROVE second \in Int
    OBVIOUS
  <2>2. C # {first}
    BY <1>7, <2>1, FS_Singleton
  <2>3. C \ {first} \in SUBSET C /\ \E r \in C \ {first} : score[r] # Absent
    BY <1>4, <1>9, <2>2
  <2> HIDE DEF first, score
  <2>4. QED
    BY <1>5, <1>6, <1>7, <2>3, TopIsGreatest
<1>11. /\ Tops[c.weights][l] = [first |-> first, top1 |-> score[first], top2 |-> second]
       /\ l \in DOMAIN Tops[c.weights]
  <2> HIDE DEF score
  <2>1. QED
    BY <1>2, <1>3 DEF Tops, FirstOf, score
<1>12. l \in Accepts[c][e] <=> OutcomeOf(c, e, l, score[first], second) = "ACCEPTED"
  <2> HIDE DEF score, first, second
  <2>1. QED
    BY <1>11 DEF Accepts
<1>13. First(C, score) = score[first] /\ Second(C, score) = second
  BY <1>5, <1>9 DEF First, Second, FirstOf
<1>14. OutcomeOf(c, e, l, score[first], second) = "ACCEPTED"
         <=> SqlOutcome(rules, BlockedAs(l), score) = "ACCEPTED"
  <2>1. Applied(c, block) = Applied(rules, block) /\ rules.epsilon = e /\ rules.margin = c.margin
    BY DEF Applied, RulesOf
  <2>2. SqlOutcome(rules, BlockedAs(l), score) = SqlDecision(rules, block, n, score[first], second)
    BY <1>7, <1>13 DEF SqlOutcome
  <2>3. score[first] # Absent /\ (n # 1 => second # Absent)
    BY <1>5, <1>9, <1>10
  <2> HIDE DEF score, first, second, n, rules, block
  <2>4. QED
    BY <1>7, <2>1, <2>2, <2>3 DEF OutcomeOf, SqlDecision, n, block
<1>15. l \in MatcherAccepts[rules] <=> PythonOutcome(rules, BlockedAs(l), FeaturesOf[l]) = "ACCEPTED"
  BY <1>1 DEF MatcherAccepts
<1>16. QED
  BY <1>1, <1>6, <1>11, <1>12, <1>14, <1>15

\* A cell of the grid counts the decisions of its rules.
LEMMA GridCounts ==
  ASSUME Assumptions, NEW c \in Cells, NEW e \in Epsilons, NEW p, NEW s \in Stages
  PROVE  LET stages == GridCell(c, e, p)
             rules == RulesOf(c, e) IN
         /\ DOMAIN stages \subseteq Stages
         /\ s \in DOMAIN stages => IsCountOf(stages[s], rules, p, s)
         /\ s \notin DOMAIN stages => Judgeable(rules, p, s) = {}
         /\ s \in DOMAIN stages <=> \E l \in Labelled(p) : StageOf(l) = s
<1> DEFINE stages == GridCell(c, e, p)
           rules == RulesOf(c, e)
           listens == {l \in Labelled(p) : StageOf(l) = s}
           given == Given(c, e, listens)
<1>1. rules \in RulesThereAre
  BY DEF RulesThereAre
<1>2. \A l \in listens : l \in Listens /\ StageOf(l) \in Stages
  BY DEF Labelled
<1>3. DOMAIN given = Taken(rules, p, s)
  <2>1. DOMAIN given = listens \cap Accepts[c][e]
    BY DEF Given
  <2>2. \A l \in listens : l \in Accepts[c][e] <=> l \in MatcherAccepts[rules]
    BY <1>2, GridIsTheMatcher
  <2>3. QED
    BY <2>1, <2>2 DEF Taken
<1>4. \A l \in Taken(rules, p, s) : given[l] = FirstOf(rules, l)
  <2>1. ASSUME NEW l \in Taken(rules, p, s)
        PROVE  given[l] = FirstOf(rules, l)
    <3>1. l \in listens /\ l \in listens \cap Accepts[c][e]
      BY <1>3 DEF Taken, Given
    <3>2. given[l] = Tops[c.weights][l].first
      BY <3>1 DEF Given
    <3> HIDE DEF given
    <3>3. QED
      BY <1>2, <3>1, <3>2, GridIsTheMatcher
  <2>2. QED
    BY <2>1
<1>5. /\ DOMAIN stages = {StageOf(l) : l \in Labelled(p)} \cap Stages
      /\ s \in DOMAIN stages => stages[s] = Tally(given, InBlock)
  BY DEF GridCell
<1>6. IsCountOf(Tally(given, InBlock), rules, p, s)
  <2> HIDE DEF given, rules
  <2>1. QED
    BY <1>1, <1>3, <1>4, DecisionsCounted
<1>7. s \notin DOMAIN stages => Judgeable(rules, p, s) = {}
  BY <1>5 DEF Judgeable
<1>8. s \in DOMAIN stages <=> \E l \in Labelled(p) : StageOf(l) = s
  BY <1>5
<1> HIDE DEF stages, rules, given
<1>9. QED
  BY <1>5, <1>6, <1>7, <1>8 DEF stages, rules

LEMMA ScoredOfGrid ==
  ASSUME NEW grid, NEW x \in Scored(grid)
  PROVE  /\ x.key \in DOMAIN grid /\ IsComplete(grid[x.key])
         /\ x.accepted = Accepted(grid[x.key]) /\ x.worst = Worst(grid[x.key])
BY DEF Scored

\* The best of some cells: of those within the bound, where there are such, it accepts as much
\* as any; otherwise none has a lower worst rate.
Within(cells) == {x \in cells : AtMost(x.worst, [wrong |-> Bound, of |-> 100])}

LEMMA BestOfCells ==
  ASSUME NEW cells, NEW x \in Best(cells)
  PROVE  /\ x \in cells
         /\ IF Within(cells) # {}
            THEN x \in Within(cells) /\ \A y \in Within(cells) : y.accepted <= x.accepted
            ELSE \A y \in cells : AtMost(x.worst, y.worst)
<1>1. Best(cells) = IF Within(cells) # {} THEN Least(Most(Within(cells))) ELSE Most(Least(cells))
  BY DEF Best, Within
<1>2. Within(cells) \subseteq cells
  BY DEF Within
<1>3. QED
  BY <1>1, <1>2 DEF Most, Least

-----------------------------------------------------------------------------
(* What is measured, and of what *)

\* The metrics of a partition, by method, of some rows.
Metrics(rows, published, p) ==
  [method \in {Method(l) : l \in Labelled(p)} |->
     LET matched == {l \in Labelled(p) : Method(l) = method /\ rows[l].recording # Absent} IN
     Tally([l \in matched |-> rows[l].recording], IF published THEN InBlock ELSE {})]

Order == <<"validation", "calibration", "holdout">>

\* The matches are of the rules their version stands for.
MatchesAreBuilt ==
  matches # NoTable =>
    matches.rules \in RulesThereAre /\ matches.rows = Rows[matches.rules]

\* A calibration is a cell of the grid.
CalibrationIsACell ==
  calibration # NoReport =>
    \E c \in Cells, e \in Epsilons, p \in Partitions :
      calibration = [partition |-> p, rules |-> RulesOf(c, e), stages |-> GridCell(c, e, p)]

\* While it measures, the rows are of the rules the program loaded, and what it measured is of
\* those rows. The file may say something else by then.
Measuring ==
  /\ session = [pc |-> session.pc, rules |-> session.rules, published |-> session.published,
                 measured |-> session.measured]
  /\ session.pc \in {"idle", "check", "measure"} /\ session.published \in BOOLEAN
  /\ session.measured \in Seq({Metrics(Rows[session.rules], session.published, p) : p \in Partitions})
  /\ Len(session.measured) <= 3
  /\ \A i \in 1 .. Len(session.measured) :
       session.measured[i] = Metrics(Rows[session.rules], session.published, Order[i])
  /\ session.pc # "measure" => session.measured = <<>>
  /\ session.pc = "measure" =>
       /\ session.rules \in RulesThereAre
       /\ matches # NoTable /\ matches.rules = session.rules

Reported ==
  report # NoReport =>
    /\ report.rules \in RulesThereAre
    /\ \E published \in BOOLEAN : \A p \in Partitions :
         report[p] = Metrics(Rows[report.rules], published, p)

Evaluated ==
  /\ reference \in References /\ runs \in 0 .. MaxCalibrations
  /\ config.rules \in RulesThereAre
  /\ MatchesAreBuilt /\ CalibrationIsACell /\ Measuring /\ Reported

LEMMA EvaluatedInit ==
  ASSUME Assumptions, Init
  PROVE  Evaluated
BY DEF Init, Evaluated, MatchesAreBuilt, CalibrationIsACell, Measuring, Reported, Resting,
       RulesThereAre, Assumptions, EvaluationAssumption

\* The labels stay, and with them what is counted of given rows.
LEMMA CountsStay ==
  ASSUME reference' = reference
  PROVE  /\ \A rows, published, p : Metrics(rows, published, p)' = Metrics(rows, published, p)
         /\ \A c, e, p : GridCell(c, e, p)' = GridCell(c, e, p)
BY DEF Metrics, GridCell, Tally, InBlock, Labelled, PartitionOf, BucketOf, Given

LEMMA CellStays ==
  ASSUME NEW c, NEW e, NEW p, reference' = reference
  PROVE  GridCell(c, e, p)' = GridCell(c, e, p)
BY DEF GridCell, Tally, InBlock, Labelled, PartitionOf, BucketOf, Given

LEMMA MetricsStay ==
  ASSUME reference' = reference, session'.rules = session.rules,
         session'.published = session.published
  PROVE  \A p : Metrics(Rows[session.rules], session.published, p)'
                  = Metrics(Rows[session.rules], session.published, p)
BY DEF Metrics, Tally, InBlock, Labelled, PartitionOf, BucketOf

\* What was measured stays what it was, while the program does not step.
LEMMA MeasuringStays ==
  ASSUME Measuring, UNCHANGED <<reference, session>>,
         session.pc = "measure" => UNCHANGED matches
  PROVE  Measuring'
BY MetricsStay DEF Measuring

LEMMA EvaluatedStep ==
  ASSUME Assumptions, Evaluated, [Next]_vars
  PROVE  Evaluated'
<1>1. reference' = reference
  BY DEF Next, vars, Calibrate, EditRules, BuildMatches, StartValidation, CheckVersion, Measure,
         WriteReport
<1>2. ASSUME UNCHANGED report
      PROVE  Reported'
  BY <1>1, <1>2, CountsStay DEF Evaluated, Reported
<1>3. ASSUME UNCHANGED calibration
      PROVE  CalibrationIsACell'
  BY <1>1, <1>3, CountsStay DEF Evaluated, CalibrationIsACell
<1>4. ASSUME UNCHANGED matches
      PROVE  MatchesAreBuilt'
  BY <1>4 DEF Evaluated, MatchesAreBuilt
<1>5. ASSUME UNCHANGED <<session, matches>>
      PROVE  Measuring'
  BY <1>1, <1>5, MeasuringStays DEF Evaluated
<1>6. ASSUME UNCHANGED config
      PROVE  config'.rules \in RulesThereAre
  BY <1>6 DEF Evaluated
<1>7. CASE UNCHANGED vars
  BY <1>1, <1>2, <1>3, <1>4, <1>5, <1>6, <1>7 DEF vars, Evaluated
<1>8. CASE \E p \in Partitions, e \in Epsilons : Calibrate(p, e)
  <2>1. PICK p \in Partitions, e \in Epsilons : Calibrate(p, e)
    BY <1>8
  <2>2. CalibrationIsACell'
    <3>1. CASE UNCHANGED calibration
      BY <1>3, <3>1
    <3>2. CASE ~UNCHANGED calibration
      <4>1. PICK x \in Best(Scored([c \in Cells |-> GridCell(c, e, p)])) :
              calibration' = [partition |-> p, rules |-> RulesOf(x.key, e),
                              stages |-> GridCell(x.key, e, p)]
        BY <2>1, <3>2 DEF Calibrate
      <4>2. x.key \in Cells
        <5>1. x \in Scored([c \in Cells |-> GridCell(c, e, p)])
          BY <4>1, BestOfCells
        <5>2. QED
          BY <5>1, ScoredOfGrid
      <4>3. PICK c \in Cells :
              calibration' = [partition |-> p, rules |-> RulesOf(c, e), stages |-> GridCell(c, e, p)]
        BY <4>1, <4>2
      <4>4. GridCell(c, e, p)' = GridCell(c, e, p)
        BY <1>1, CellStays
      <4>5. QED
        BY <4>3, <4>4 DEF CalibrationIsACell
    <3>3. QED
      BY <3>1, <3>2
  <2>3. runs' \in 0 .. MaxCalibrations
    BY <2>1 DEF Calibrate, Evaluated, Assumptions, EvaluationAssumption
  <2>4. UNCHANGED <<config, matches, session, report>>
    BY <2>1 DEF Calibrate
  <2>5. QED
    BY <1>1, <1>2, <1>4, <1>5, <1>6, <2>2, <2>3, <2>4 DEF Evaluated
<1>9. CASE EditRules
  <2>1. config'.rules = calibration.rules /\ calibration # NoReport
    BY <1>9 DEF EditRules
  <2>2. config'.rules \in RulesThereAre
    <3>1. PICK c \in Cells, e \in Epsilons, p \in Partitions :
            calibration = [partition |-> p, rules |-> RulesOf(c, e), stages |-> GridCell(c, e, p)]
      BY <2>1 DEF Evaluated, CalibrationIsACell
    <3>2. QED
      BY <2>1, <3>1 DEF RulesThereAre
  <2>3. QED
    BY <1>1, <1>2, <1>3, <1>4, <1>5, <1>9, <2>2 DEF Evaluated, EditRules
<1>10. CASE BuildMatches
  <2>1. Measuring'
    BY <1>1, <1>10, MeasuringStays DEF Evaluated, BuildMatches
  <2>2. MatchesAreBuilt'
    BY <1>10 DEF Evaluated, MatchesAreBuilt, BuildMatches
  <2>3. QED
    BY <1>1, <1>2, <1>3, <1>6, <1>10, <2>1, <2>2 DEF Evaluated, BuildMatches
<1>11. CASE StartValidation
  <2>1. Measuring'
    BY <1>11 DEF Evaluated, Measuring, StartValidation
  <2>2. QED
    BY <1>1, <1>2, <1>3, <1>4, <1>6, <1>11, <2>1 DEF Evaluated, StartValidation
<1>12. CASE CheckVersion
  <2>1. session.measured = <<>> /\ session.pc = "check" /\ matches' = matches
    BY <1>12 DEF Evaluated, Measuring, CheckVersion
  <2>2. ASSUME session' = Resting
        PROVE  Measuring'
    BY <2>2 DEF Measuring, Resting
  <2>3. ASSUME session' = [session EXCEPT !.pc = "measure"], SameVersion
        PROVE  Measuring'
    <3>1. /\ matches # NoTable /\ matches.rules = session.rules
          /\ session.rules \in RulesThereAre /\ session.published \in BOOLEAN
      BY <2>3 DEF Evaluated, MatchesAreBuilt, Measuring, SameVersion
    <3>2. session' = [pc |-> "measure", rules |-> session.rules, published |-> session.published,
                      measured |-> <<>>]
      BY <2>1, <2>3 DEF Evaluated, Measuring
    <3>3. QED
      BY <2>1, <3>1, <3>2 DEF Measuring
  <2>4. Measuring'
    BY <1>12, <2>2, <2>3 DEF CheckVersion
  <2>5. QED
    BY <1>1, <1>2, <1>3, <1>4, <1>6, <1>12, <2>4 DEF Evaluated, CheckVersion
<1>13. CASE Measure
  <2>1. /\ session.pc = "measure" /\ Len(session.measured) < 3
        /\ matches.rows = Rows[session.rules]
    BY <1>13 DEF Measure, Evaluated, MatchesAreBuilt, Measuring
  <2>2. ASSUME session' = Resting PROVE Measuring'
    BY <2>2 DEF Measuring, Resting
  <2>3. ASSUME session' # Resting PROVE Measuring'
    <3> DEFINE i == Len(session.measured) + 1
               metrics == Metrics(Rows[session.rules], session.published, Order[i])
    <3>1. session' = [session EXCEPT !.measured = Append(@, ByMethod(Order[i]))]
      BY <1>13, <2>3 DEF Measure, Order
    <3>2. ByMethod(Order[i]) = metrics
      BY <2>1 DEF ByMethod, Metrics
    <3>3. i \in 1 .. 3 /\ Order[i] \in Partitions
      BY <2>1 DEF Evaluated, Measuring, Order, Partitions
    <3>4. /\ session'.rules = session.rules /\ session'.published = session.published
          /\ session'.pc = "measure" /\ session'.measured = Append(session.measured, metrics)
      BY <2>1, <3>1, <3>2 DEF Evaluated, Measuring
    <3>5. \A p : Metrics(Rows[session.rules], session.published, p)'
                   = Metrics(Rows[session.rules], session.published, p)
      BY <1>1, <3>4, MetricsStay
    <3> HIDE DEF i, metrics
    <3>6. /\ Len(session'.measured) = i
          /\ \A j \in 1 .. Len(session.measured) : session'.measured[j] = session.measured[j]
          /\ session'.measured[i] = metrics
      BY <3>4 DEF Evaluated, Measuring, i
    <3>7. session'.measured
            \in Seq({Metrics(Rows[session.rules], session.published, p) : p \in Partitions})
      BY <3>3, <3>4 DEF Evaluated, Measuring, metrics
    <3>8. \A j \in 1 .. Len(session'.measured) :
            session'.measured[j] = Metrics(Rows[session.rules], session.published, Order[j])
      BY <3>3, <3>6 DEF Evaluated, Measuring, metrics, i
    <3>9. /\ session.rules \in RulesThereAre /\ session.published \in BOOLEAN
          /\ matches' = matches /\ matches # NoTable /\ matches.rules = session.rules
      BY <1>13, <2>1 DEF Evaluated, Measuring, Measure
    <3>10. session' = [pc |-> session'.pc, rules |-> session'.rules,
                       published |-> session'.published, measured |-> session'.measured]
      BY <3>1 DEF Evaluated, Measuring
    <3>11. QED
      BY <3>3, <3>4, <3>5, <3>6, <3>7, <3>8, <3>9, <3>10 DEF Measuring
  <2>4. Measuring'
    BY <2>2, <2>3
  <2>5. QED
    BY <1>1, <1>2, <1>3, <1>4, <1>6, <1>13, <2>4 DEF Evaluated, Measure
<1>14. CASE WriteReport
  <2>1. Measuring'
    BY <1>14 DEF Evaluated, Measuring, WriteReport, Resting
  <2>2. Reported'
    <3>1. /\ session.pc = "measure" /\ Len(session.measured) = 3
          /\ report' = [rules |-> session.rules, validation |-> session.measured[1],
                        calibration |-> session.measured[2], holdout |-> session.measured[3]]
      BY <1>14 DEF WriteReport
    <3>2. session.rules \in RulesThereAre /\ session.published \in BOOLEAN
      BY <3>1 DEF Evaluated, Measuring
    <3>3. \A p \in Partitions :
            report'[p] = Metrics(Rows[session.rules], session.published, p)
      BY <3>1 DEF Evaluated, Measuring, Partitions, Order
    <3>4. PICK rules \in RulesThereAre, published \in BOOLEAN :
            /\ report'.rules = rules
            /\ \A p \in Partitions : report'[p] = Metrics(Rows[rules], published, p)
      BY <3>1, <3>2, <3>3
    <3>5. \A p : Metrics(Rows[rules], published, p)' = Metrics(Rows[rules], published, p)
      BY <1>1, CountsStay
    <3>6. QED
      BY <3>4, <3>5 DEF Reported
  <2>3. QED
    BY <1>1, <1>3, <1>4, <1>6, <1>14, <2>1, <2>2 DEF Evaluated, WriteReport
<1>15. QED
  BY <1>7, <1>8, <1>9, <1>10, <1>11, <1>12, <1>13, <1>14 DEF Next

\* What the programs of the evaluation know of each other's tables holds at every step: the
\* matches are rows of one version, the calibration is a cell of the grid, and what is
\* measured and reported is counted of those rows.
THEOREM EvaluationIsInvariant == Spec => [](Assumptions /\ Evaluated)
<1>1. Assumptions
  BY EvaluationAssumption, DomainsAssumption DEF Assumptions
<1>2. Init => Evaluated
  BY <1>1, EvaluatedInit
<1>3. Evaluated /\ [Next]_vars => Evaluated'
  BY <1>1, EvaluatedStep
<1>4. QED
  BY <1>1, <1>2, <1>3, PTL DEF Spec

LEMMA MetricsAreTallied ==
  ASSUME Assumptions, NEW rows, NEW published \in BOOLEAN, NEW p
  PROVE  WellTallied(Metrics(rows, published, p))
<1> DEFINE metrics == Metrics(rows, published, p)
<1>1. SUFFICES ASSUME NEW m \in DOMAIN metrics
               PROVE  metrics[m] \in Tallies /\ Judged(metrics[m]) <= Evaluable(metrics[m])
  BY DEF WellTallied
<1> DEFINE matched == {l \in Labelled(p) : Method(l) = m /\ rows[l].recording # Absent}
           given == [l \in matched |-> rows[l].recording]
           inBlock == IF published THEN InBlock ELSE {}
<1>2. metrics[m] = Tally(given, inBlock)
  BY <1>1 DEF Metrics
<1>3. DOMAIN given \subseteq Listens /\ inBlock \in {InBlock, {}}
  BY DEF Labelled
<1> HIDE DEF given, inBlock
<1>4. Tally(given, inBlock) \in Tallies
      /\ Judged(Tally(given, inBlock)) <= Evaluable(Tally(given, inBlock))
  BY <1>3, TallyCounts
<1>5. QED
  BY <1>2, <1>4

\* Every variable has its type, and in no group that the calibration or the report counts are
\* more decisions wrong than can be judged, whether the candidate run it is asked for is the
\* published one or not (calibrate.py, validate_scoring.py).
THEOREM EvaluationTypeCorrect == Spec => []TypeOK
<1>1. ASSUME Assumptions, Evaluated
      PROVE  TypeOK
  <2>1. matches = NoTable \/ DOMAIN matches.rows = Listens
    BY <1>1 DEF Evaluated, MatchesAreBuilt, Rows
  <2>2. calibration = NoReport \/ WellTallied(calibration.stages)
    <3>1. SUFFICES ASSUME calibration # NoReport PROVE WellTallied(calibration.stages)
      OBVIOUS
    <3>2. PICK c \in Cells, e \in Epsilons, p \in Partitions :
            calibration = [partition |-> p, rules |-> RulesOf(c, e), stages |-> GridCell(c, e, p)]
      BY <1>1, <3>1 DEF Evaluated, CalibrationIsACell
    <3>3. \A s \in DOMAIN GridCell(c, e, p) : s \in Stages
      BY DEF GridCell
    <3>4. QED
      BY <1>1, <3>2, <3>3, GridCounts DEF WellTallied, IsCountOf
  <2>3. report = NoReport \/ \A p \in Partitions : WellTallied(report[p])
    BY <1>1, MetricsAreTallied DEF Evaluated, Reported
  <2>4. QED
    BY <1>1, <2>1, <2>2, <2>3 DEF TypeOK, Evaluated, Measuring
<1>2. QED
  BY <1>1, EvaluationIsInvariant, PTL

\* The methods of the report are the stages of the calibration.
LEMMA MethodsAreStages ==
  ASSUME NEW l, NEW s \in Stages
  PROVE  Method(l) = MethodOf[s] <=> StageOf(l) = s
BY DEF Method, MethodOf, StageOf, Stages

\* A report counts of a stage what the matcher accepts under the rules it names.
LEMMA ReportsCount ==
  ASSUME Assumptions, NEW rules \in RulesThereAre, NEW published \in BOOLEAN, NEW p,
         NEW s \in Stages
  PROVE  LET metrics == Metrics(Rows[rules], published, p) IN
         /\ MethodOf[s] \in DOMAIN metrics <=> \E l \in Labelled(p) : StageOf(l) = s
         /\ MethodOf[s] \in DOMAIN metrics => IsCountOf(metrics[MethodOf[s]], rules, p, s)
<1> DEFINE metrics == Metrics(Rows[rules], published, p)
           t == metrics[MethodOf[s]]
           matched == {l \in Labelled(p) : /\ Method(l) = MethodOf[s]
                                           /\ Rows[rules][l].recording # Absent}
           given == [l \in matched |-> Rows[rules][l].recording]
           inBlock == IF published THEN InBlock ELSE {}
<1>1. MethodOf[s] \in DOMAIN metrics <=> \E l \in Labelled(p) : StageOf(l) = s
  BY MethodsAreStages DEF Metrics
<1>2. MethodOf[s] \in DOMAIN metrics => t = Tally(given, inBlock)
  BY DEF Metrics
<1>3. ASSUME NEW l \in Labelled(p), StageOf(l) = s
      PROVE  /\ l \in MatcherAccepts[rules] <=> Rows[rules][l].recording # Absent
             /\ l \in MatcherAccepts[rules] => Rows[rules][l].recording = FirstOf(rules, l)
  <2>1. l \in Listens /\ StageOf(l) \in Stages
    BY <1>3 DEF Labelled
  <2>2. Rows[rules][l].recording = IF l \in MatcherAccepts[rules] THEN FirstOf(rules, l) ELSE Absent
    BY <2>1, RowsFollowTheMatcher
  <2>3. l \in MatcherAccepts[rules] => FirstOf(rules, l) # Absent
    <3>1. Absent \notin BlockedAs(l).candidates
      BY <2>1, ListensAreUsable DEF Usable
    <3>2. QED
      BY <2>1, <3>1, AcceptedIsTheLeader
  <2>4. QED
    BY <2>2, <2>3
<1>4. matched = Taken(rules, p, s)
  BY <1>3, MethodsAreStages DEF Taken
<1>5. \A l \in Taken(rules, p, s) : given[l] = FirstOf(rules, l)
  BY <1>3, <1>4 DEF Taken
<1>6. DOMAIN given = Taken(rules, p, s) /\ inBlock \in {InBlock, {}}
  BY <1>4
<1> HIDE DEF given, inBlock, metrics
<1>7. IsCountOf(Tally(given, inBlock), rules, p, s)
  BY <1>5, <1>6, DecisionsCounted
<1> HIDE DEF t
<1>8. MethodOf[s] \in DOMAIN metrics => IsCountOf(t, rules, p, s)
  BY <1>2, <1>7
<1>9. QED
  BY <1>1, <1>8 DEF metrics, t

\* A report is of rows that the rules it names decided: the program reads the rules, checks the
\* version the matches carry and measures in three queries, while the file on disk is edited
\* (validate_scoring.py:9). In each stage it counts what decide of scoring.py accepts.
THEOREM ReportsAreOfWhatWasDecided == Spec => []ReportedAsDecided
<1>1. ASSUME Assumptions, Evaluated
      PROVE  ReportedAsDecided
  <2>1. SUFFICES ASSUME report # NoReport, NEW p \in Partitions, NEW s \in Stages,
                        MethodOf[s] \in DOMAIN report[p]
                 PROVE  report[p][MethodOf[s]].accepted
                          = Cardinality({l \in Labelled(p) :
                              StageOf(l) = s /\ l \in MatcherAccepts[report.rules]})
    BY DEF ReportedAsDecided
  <2>2. PICK published \in BOOLEAN :
          report[p] = Metrics(Rows[report.rules], published, p)
    BY <1>1, <2>1 DEF Evaluated, Reported
  <2>3. report.rules \in RulesThereAre
    BY <1>1, <2>1 DEF Evaluated, Reported
  <2>4. PICK rules \in RulesThereAre : rules = report.rules
    BY <2>3
  <2>5. report[p] = Metrics(Rows[rules], published, p)
    BY <2>2, <2>4
  <2>6. IsCountOf(Metrics(Rows[rules], published, p)[MethodOf[s]], rules, p, s)
    BY <1>1, <2>1, <2>5, ReportsCount
  <2>7. QED
    BY <2>4, <2>5, <2>6 DEF IsCountOf, Taken
<1>2. QED
  BY <1>1, EvaluationIsInvariant, PTL

\* What the rules were chosen for is what is shipped: of the partition they were chosen on, a
\* report of the matches built under them counts in each stage what the calibration counted:
\* the grid (calibrate.py), the generated SQL (build_match_results.py) and the report
\* (validate_scoring.py) decide every listen alike, whichever candidate run is asked for.
THEOREM ShippedIsCalibrated == Spec => []ShippedAsCalibrated
<1>1. ASSUME Assumptions, Evaluated
      PROVE  ShippedAsCalibrated
  <2>1. SUFFICES ASSUME report # NoReport, calibration # NoReport,
                        report.rules = calibration.rules, NEW s \in DOMAIN calibration.stages
                 PROVE  LET chosen == calibration.stages[s]
                            shipped == report[calibration.partition][MethodOf[s]]
                        IN  /\ shipped.accepted = chosen.accepted
                            /\ shipped.notInSnapshot = chosen.notInSnapshot
                            /\ Judged(shipped) = Judged(chosen)
    BY DEF ShippedAsCalibrated
  <2>2. PICK c \in Cells, e \in Epsilons, p \in Partitions :
          calibration = [partition |-> p, rules |-> RulesOf(c, e), stages |-> GridCell(c, e, p)]
    BY <1>1, <2>1 DEF Evaluated, CalibrationIsACell
  <2>3. PICK published \in BOOLEAN : report[p] = Metrics(Rows[report.rules], published, p)
    BY <1>1, <2>1 DEF Evaluated, Reported
  <2> DEFINE rules == RulesOf(c, e)
             chosen == GridCell(c, e, p)[s]
             shipped == Metrics(Rows[rules], published, p)[MethodOf[s]]
  <2>4. s \in Stages /\ s \in DOMAIN GridCell(c, e, p) /\ rules \in RulesThereAre
    BY <2>1, <2>2 DEF GridCell, RulesThereAre
  <2>5. IsCountOf(chosen, rules, p, s) /\ \E l \in Labelled(p) : StageOf(l) = s
    BY <1>1, <2>4, GridCounts
  <2>6. IsCountOf(shipped, rules, p, s)
    BY <1>1, <2>4, <2>5, ReportsCount
  <2>7. /\ calibration.stages[s] = chosen
        /\ report[calibration.partition][MethodOf[s]] = shipped
    BY <2>1, <2>2, <2>3
  <2>8. QED
    BY <2>5, <2>6, <2>7 DEF IsCountOf
<1>2. QED
  BY <1>1, EvaluationIsInvariant, PTL

-----------------------------------------------------------------------------
(* The choice *)

IsRate(x) == x.wrong \in Nat /\ x.of \in Nat \ {0}

LEMMA RatesAreOrdered ==
  ASSUME NEW x, NEW y, IsRate(x), IsRate(y)
  PROVE  AtMost(x, x) /\ (AtMost(x, y) \/ AtMost(y, x))
<1>1. x.wrong * y.of \in Nat /\ y.wrong * x.of \in Nat /\ x.wrong * x.of \in Nat
  BY DEF IsRate
<1>2. QED
  BY <1>1 DEF AtMost

LEMMA RatesAreTransitive ==
  ASSUME NEW x, NEW y, NEW z, IsRate(x), IsRate(y), IsRate(z), AtMost(x, y), AtMost(y, z)
  PROVE  AtMost(x, z)
<1> DEFINE a == x.wrong
           b == x.of
           c == y.wrong
           d == y.of
           e == z.wrong
           f == z.of
<1>1. /\ a \in Nat /\ b \in Nat \ {0} /\ c \in Nat /\ d \in Nat \ {0}
      /\ e \in Nat /\ f \in Nat \ {0}
      /\ a * d <= c * b /\ c * f <= e * d
  BY DEF IsRate, AtMost
<1> HIDE DEF a, b, c, d, e, f
<1>2. ASSUME NEW k \in Nat, NEW m \in Nat, NEW n \in Nat, k <= m
      PROVE  k * n <= m * n
  BY <1>2
<1>3. (a * d) * f <= (c * b) * f /\ (c * f) * b <= (e * d) * b
  BY <1>1, <1>2
<1>4. (a * d) * f = (a * f) * d /\ (c * b) * f = (c * f) * b /\ (e * d) * b = (e * b) * d
  BY <1>1
<1>5. (a * f) * d <= (e * b) * d
  BY <1>1, <1>3, <1>4
<1>6. ASSUME NEW k \in Nat, NEW m \in Nat, k > m
      PROVE  k * d > m * d
  BY <1>1, <1>6
<1>7. a * f \in Nat /\ e * b \in Nat
  BY <1>1
<1>8. a * f <= e * b
  BY <1>1, <1>5, <1>6, <1>7
<1>9. QED
  BY <1>8 DEF AtMost, a, b, e, f

\* The worst stage of a complete cell is the stage with the worst rate.
LEMMA WorstOfStages ==
  ASSUME NEW stages, DOMAIN stages = Stages, Floor \in Nat,
         \A s \in Stages : Evaluable(stages[s]) >= Floor /\ IsRate(Rate(stages[s]))
  PROVE  \E t \in Stages : /\ Worst(stages) = Rate(stages[t])
                           /\ \A s \in Stages : AtMost(Rate(stages[s]), Rate(stages[t]))
<1> DEFINE rate(s) == Rate(stages[s])
           rates == {rate(s) : s \in Stages}
<1>1. \A s, t, u \in Stages : AtMost(rate(s), rate(t)) /\ AtMost(rate(t), rate(u))
                                => AtMost(rate(s), rate(u))
  BY RatesAreTransitive
<1>2. \A s, t \in Stages : AtMost(rate(s), rate(s))
                             /\ (AtMost(rate(s), rate(t)) \/ AtMost(rate(t), rate(s)))
  BY RatesAreOrdered
<1>3. \E t \in Stages : \A s \in Stages : AtMost(rate(s), rate(t))
  <2> HIDE DEF rate
  <2>1. QED
    BY <1>1, <1>2 DEF Stages
<1>4. rates # {} /\ \E x \in rates : \A y \in rates : AtMost(y, x)
  BY <1>3
<1>5. Worst(stages) = CHOOSE x \in rates : \A y \in rates : AtMost(y, x)
  <2>1. {s \in DOMAIN stages : Evaluable(stages[s]) >= Floor} = Stages
    OBVIOUS
  <2>2. QED
    BY <1>4, <2>1 DEF Worst
<1>6. Worst(stages) \in rates /\ \A y \in rates : AtMost(y, Worst(stages))
  <2> HIDE DEF rates
  <2>1. QED
    BY <1>4, <1>5
<1>7. QED
  BY <1>6

LEMMA SumOfStages ==
  ASSUME NEW f \in [Stages -> Nat]
  PROVE  SumFunction(f) = f["EXACT_MULTI"] + f["FALLBACK_UNIQUE"] + f["FALLBACK_MULTI"]
<1> DEFINE a == "EXACT_MULTI"
           b == "FALLBACK_UNIQUE"
           c == "FALLBACK_MULTI"
<1>1. IsFiniteSet(Stages)
  <2>1. IsFiniteSet({a}) /\ IsFiniteSet({b, c})
    BY FS_Singleton, TwoElements
  <2>2. Stages = {a} \cup {b, c}
    BY DEF Stages
  <2>3. QED
    BY <2>1, <2>2, FS_Union
<1>2. f \in [Stages -> Int]
  OBVIOUS
<1>3. PICK h : Totals(h, f, Stages) /\ SumFunction(f) = h[Stages]
  BY <1>1, <1>2, SumsTotal
<1>4. /\ {a, b, c} = Stages /\ {a, b, c} \ {a} = {b, c} /\ {b, c} \ {b} = {c} /\ {c} \ {c} = {}
      /\ {a, b, c} \in SUBSET Stages /\ {b, c} \in SUBSET Stages /\ {c} \in SUBSET Stages
  BY DEF Stages
<1>5. h[{a, b, c}] = f[a] + h[{b, c}] /\ h[{b, c}] = f[b] + h[{c}] /\ h[{c}] = f[c] + h[{}]
  BY <1>3, <1>4 DEF Totals
<1>6. h[{}] = 0 /\ f[a] \in Nat /\ f[b] \in Nat /\ f[c] \in Nat
  BY <1>3, <1>4 DEF Totals
<1>7. SumFunction(f) = h[{a, b, c}]
  BY <1>3, <1>4
<1> HIDE DEF a, b, c
<1>8. SumFunction(f) = f[a] + (f[b] + (f[c] + 0))
  BY <1>5, <1>6, <1>7
<1>9. SumFunction(f) = f[a] + f[b] + f[c]
  BY <1>6, <1>8
<1>10. QED
  BY <1>9 DEF a, b, c

\* What is accepted in the stages is what is covered.
LEMMA CoverageOfStages ==
  ASSUME Assumptions, NEW rules, NEW p
  PROVE  /\ Coverage(rules, p) = Cardinality(Taken(rules, p, "EXACT_MULTI"))
                                   + Cardinality(Taken(rules, p, "FALLBACK_UNIQUE"))
                                   + Cardinality(Taken(rules, p, "FALLBACK_MULTI"))
         /\ \A s \in Stages : Cardinality(Taken(rules, p, s)) \in Nat
<1> DEFINE A == Taken(rules, p, "EXACT_MULTI")
           B == Taken(rules, p, "FALLBACK_UNIQUE")
           C == Taken(rules, p, "FALLBACK_MULTI")
<1>1. IsFiniteSet(Listens)
  BY DEF Assumptions, DomainsAssumption
<1>2. \A s : Taken(rules, p, s) \in SUBSET Listens
  BY DEF Taken, Labelled
<1>3. \A s : Cardinality(Taken(rules, p, s)) \in Nat
  BY <1>1, <1>2, FS_Subset, FS_CardinalityType
<1>4. Parts(A, B, Listens) /\ Parts(A \cup B, C, Listens)
  BY <1>1, <1>2 DEF Parts, Taken
<1>5. Coverage(rules, p) = Cardinality((A \cup B) \cup C)
  <2>1. {l \in Labelled(p) : StageOf(l) \in Stages /\ l \in MatcherAccepts[rules]} = (A \cup B) \cup C
    BY DEF Taken, Stages
  <2>2. QED
    BY <2>1 DEF Coverage
<1> HIDE DEF A, B, C
<1>6. /\ Cardinality(A \cup B) = Cardinality(A) + Cardinality(B)
      /\ Cardinality(A) \in 0 .. Cardinality(Listens)
      /\ Cardinality(B) \in 0 .. Cardinality(Listens)
      /\ Cardinality(A \cup B) \in 0 .. Cardinality(Listens)
  BY <1>4, PartsCount
<1>7. /\ Cardinality((A \cup B) \cup C) = Cardinality(A \cup B) + Cardinality(C)
      /\ Cardinality(A \cup B) \in 0 .. Cardinality(Listens)
      /\ Cardinality(C) \in 0 .. Cardinality(Listens)
      /\ Cardinality((A \cup B) \cup C) \in 0 .. Cardinality(Listens)
  BY <1>4, PartsCount
<1>8. QED
  BY <1>3, <1>5, <1>6, <1>7 DEF A, B, C

\* A complete cell is judged by the errors of its rules.
LEMMA CellsAreTheirRules ==
  ASSUME Assumptions, NEW c \in Cells, NEW e \in Epsilons, NEW p
  PROVE  LET stages == GridCell(c, e, p)
             error == Error(RulesOf(c, e), p) IN
         /\ IsComplete(stages) <=> \A s \in Stages : error[s].of >= Floor
         /\ IsComplete(stages) =>
              /\ Accepted(stages) = Coverage(RulesOf(c, e), p)
              /\ \A s \in Stages : IsRate(error[s])
              /\ \E t \in Stages : /\ Worst(stages) = error[t]
                                   /\ \A s \in Stages : AtMost(error[s], error[t])
<1> DEFINE stages == GridCell(c, e, p)
           rules == RulesOf(c, e)
           error == Error(rules, p)
<1>1. Floor \in Nat \ {0} /\ IsFiniteSet(Listens)
  BY DEF Assumptions, EvaluationAssumption, DomainsAssumption
<1>2. \A s \in Stages : /\ error[s].of = Cardinality(Judgeable(rules, p, s))
                        /\ error[s].wrong = Cardinality(Mistaken(rules, p, s))
                        /\ error[s] = [wrong |-> error[s].wrong, of |-> error[s].of]
  BY DEF Error
<1>3. /\ DOMAIN stages \subseteq Stages
      /\ \A s \in Stages : /\ s \in DOMAIN stages => IsCountOf(stages[s], rules, p, s)
                           /\ s \notin DOMAIN stages => Judgeable(rules, p, s) = {}
  <2>1. DOMAIN stages \subseteq Stages
    BY DEF GridCell
  <2>2. QED
    BY <2>1, GridCounts
<1>4. ASSUME NEW s \in Stages
      PROVE  /\ s \in DOMAIN stages => Evaluable(stages[s]) = error[s].of
             /\ s \notin DOMAIN stages => error[s].of = 0
  <2> HIDE DEF error, stages, rules
  <2>1. Cardinality({}) = 0
    BY FS_EmptySet
  <2>2. QED
    BY <1>2, <1>3, <2>1 DEF IsCountOf
<1>5. IsComplete(stages) <=> \A s \in Stages : error[s].of >= Floor
  BY <1>1, <1>4 DEF IsComplete
<1>6. ASSUME IsComplete(stages)
      PROVE  /\ Accepted(stages) = Coverage(rules, p)
             /\ \A s \in Stages : IsRate(error[s])
             /\ \E t \in Stages : /\ Worst(stages) = error[t]
                                  /\ \A s \in Stages : AtMost(error[s], error[t])
  <2>1. DOMAIN stages = Stages /\ \A s \in Stages : Evaluable(stages[s]) >= Floor
    BY <1>3, <1>6 DEF IsComplete
  <2>2. \A s \in Stages : error[s].of \in Nat /\ error[s].wrong \in Nat
    <3>1. \A s \in Stages : /\ Judgeable(rules, p, s) \in SUBSET Listens
                            /\ Mistaken(rules, p, s) \in SUBSET Listens
      BY DEF Judgeable, Mistaken, Labelled
    <3>2. \A s \in Stages : /\ Cardinality(Judgeable(rules, p, s)) \in Nat
                            /\ Cardinality(Mistaken(rules, p, s)) \in Nat
      BY <1>1, <3>1, FS_Subset, FS_CardinalityType
    <3> HIDE DEF error, rules
    <3>3. QED
      BY <1>2, <3>2
  <2>3. \A s \in Stages : IsRate(error[s])
    BY <1>1, <1>5, <1>6, <2>2 DEF IsRate
  <2>4. \A s \in Stages : Rate(stages[s]) = error[s]
    <3>1. ASSUME NEW s \in Stages
          PROVE  Rate(stages[s]) = error[s]
      <4>1. /\ Judged(stages[s]) = Cardinality(Mistaken(rules, p, s))
            /\ Evaluable(stages[s]) = Cardinality(Judgeable(rules, p, s))
        BY <1>3, <2>1 DEF IsCountOf
      <4>2. Evaluable(stages[s]) # 0
        BY <1>4, <2>1, <2>3 DEF IsRate
      <4>3. QED
        BY <1>2, <4>1, <4>2 DEF Rate
    <3>2. QED
      BY <3>1
  <2>5. \E t \in Stages : /\ Worst(stages) = Rate(stages[t])
                          /\ \A s \in Stages : AtMost(Rate(stages[s]), Rate(stages[t]))
    <3> HIDE DEF stages, error
    <3>1. QED
      BY <1>1, <2>1, <2>3, <2>4, WorstOfStages
  <2>6. Accepted(stages) = Coverage(rules, p)
    <3> DEFINE f == [s \in DOMAIN stages |-> stages[s].accepted]
    <3>1. \A s \in Stages : stages[s].accepted = Cardinality(Taken(rules, p, s))
      BY <1>3, <2>1 DEF IsCountOf
    <3>2. \A s \in Stages : Cardinality(Taken(rules, p, s)) \in Nat
      BY CoverageOfStages
    <3>3. f \in [Stages -> Nat] /\ \A s \in Stages : f[s] = Cardinality(Taken(rules, p, s))
      BY <2>1, <3>1, <3>2
    <3>4. Accepted(stages) = SumFunction(f)
      BY DEF Accepted
    <3> HIDE DEF f, stages, rules
    <3>5. SumFunction(f) = f["EXACT_MULTI"] + f["FALLBACK_UNIQUE"] + f["FALLBACK_MULTI"]
      BY <3>3, SumOfStages
    <3>6. QED
      BY <3>3, <3>4, <3>5, CoverageOfStages DEF Stages
  <2> HIDE DEF stages, error, rules
  <2>7. QED
    BY <2>3, <2>4, <2>5, <2>6
<1> HIDE DEF stages, error, rules
<1>7. QED
  BY <1>5, <1>6 DEF stages, error, rules

\* The rules a calibration chooses are the best of its grid by the rule that was fixed before
\* the table was read (calibrate.py:6), over the decisions scoring.py makes of the listens: of
\* the rules that disagree within the bound in every stage, none accepts more; where there are
\* none, no other rules have a lower worst rate. For any grid, and any number of listens.
THEOREM ChoicesAreByTheRule == Spec => ChosenByTheRule
<1>1. ASSUME Assumptions, Evaluated, [Next]_vars, calibration' # calibration
      PROVE  IsByTheRule(calibration'.partition, calibration'.rules)
  <2>1. PICK p \in Partitions, e \in Epsilons : Calibrate(p, e)
    BY <1>1 DEF Next, vars, EditRules, BuildMatches, StartValidation, CheckVersion, Measure,
                WriteReport
  <2> DEFINE grid == [c \in Cells |-> GridCell(c, e, p)]
             cells == Scored(grid)
             all == {RulesOf(c, e) : c \in Cells}
             error == [r \in all |-> Error(r, p)]
             measurable == {r \in all : \A s \in Stages : error[r][s].of >= Floor}
             within == {r \in measurable :
                          \A s \in Stages : 100 * error[r][s].wrong <= Bound * error[r][s].of}
             bound == [wrong |-> Bound, of |-> 100]
  <2>2. PICK x \in Best(cells) :
          calibration' = [partition |-> p, rules |-> RulesOf(x.key, e),
                          stages |-> GridCell(x.key, e, p)]
    BY <1>1, <2>1 DEF Calibrate
  <2> DEFINE chosen == RulesOf(x.key, e)
  <2>3. calibration'.partition = p /\ calibration'.rules = chosen /\ chosen.epsilon = e
    BY <2>2 DEF RulesOf
  \* A scored cell stands for its rules,
  <2>4. ASSUME NEW y \in cells
        PROVE  LET rules == RulesOf(y.key, e) IN
               /\ y.key \in Cells /\ rules \in measurable
               /\ y.accepted = Coverage(rules, p)
               /\ \A s \in Stages : IsRate(error[rules][s])
               /\ \E t \in Stages : /\ y.worst = error[rules][t]
                                    /\ \A s \in Stages : AtMost(error[rules][s], y.worst)
    <3> DEFINE rules == RulesOf(y.key, e)
    <3>1. y.key \in DOMAIN grid /\ IsComplete(grid[y.key])
          /\ y.accepted = Accepted(grid[y.key]) /\ y.worst = Worst(grid[y.key])
      <4> HIDE DEF grid
      <4>1. QED
        BY ScoredOfGrid
    <3>2. y.key \in Cells /\ grid[y.key] = GridCell(y.key, e, p)
      BY <3>1
    <3>3. rules \in all /\ error[rules] = Error(rules, p)
      BY <3>2
    <3>4. /\ IsComplete(GridCell(y.key, e, p)) <=> \A s \in Stages : Error(rules, p)[s].of >= Floor
          /\ IsComplete(GridCell(y.key, e, p)) =>
               /\ Accepted(GridCell(y.key, e, p)) = Coverage(rules, p)
               /\ \A s \in Stages : IsRate(Error(rules, p)[s])
               /\ \E t \in Stages : /\ Worst(GridCell(y.key, e, p)) = Error(rules, p)[t]
                                    /\ \A s \in Stages : AtMost(Error(rules, p)[s], Error(rules, p)[t])
      BY <1>1, <3>2, CellsAreTheirRules
    <3> HIDE DEF grid, all, error, rules
    <3>5. rules \in measurable
      BY <3>1, <3>2, <3>3, <3>4
    <3> HIDE DEF measurable
    <3>6. QED
      BY <3>1, <3>2, <3>3, <3>4, <3>5 DEF rules
  \* and rules that can be measured have a scored cell.
  <2>5. ASSUME NEW r \in measurable
        PROVE  \E y \in cells : r = RulesOf(y.key, e)
    <3>1. PICK c \in Cells : r = RulesOf(c, e)
      OBVIOUS
    <3>2. error[r] = Error(RulesOf(c, e), p)
      BY <3>1
    <3>3. IsComplete(GridCell(c, e, p))
          <=> \A s \in Stages : Error(RulesOf(c, e), p)[s].of >= Floor
      BY <1>1, CellsAreTheirRules
    <3>4. \A s \in Stages : error[r][s].of >= Floor
      OBVIOUS
    <3>5. IsComplete(grid[c]) /\ c \in DOMAIN grid
      <4> HIDE DEF error
      <4>1. QED
        BY <3>2, <3>3, <3>4
    <3> DEFINE y == [key |-> c, accepted |-> Accepted(grid[c]), worst |-> Worst(grid[c])]
    <3>6. y \in cells
      <4> HIDE DEF grid
      <4>1. QED
        BY <3>5 DEF Scored
    <3>7. QED
      BY <3>1, <3>6
  <2>6. ASSUME NEW y \in cells
        PROVE  y \in Within(cells) <=> RulesOf(y.key, e) \in within
    <3> DEFINE rules == RulesOf(y.key, e)
    <3>1. PICK t \in Stages : /\ y.worst = error[rules][t]
                              /\ \A s \in Stages : AtMost(error[rules][s], y.worst)
      BY <2>4
    <3>2. rules \in measurable /\ \A s \in Stages : IsRate(error[rules][s])
      BY <2>4
    <3>3. IsRate(bound)
      BY <1>1 DEF IsRate, Assumptions, EvaluationAssumption
    <3>4. ASSUME NEW s \in Stages
          PROVE  AtMost(error[rules][s], bound)
                   <=> 100 * error[rules][s].wrong <= Bound * error[rules][s].of
      <4>1. error[rules][s].wrong \in Nat /\ Bound \in Nat
        BY <1>1, <3>2 DEF IsRate, Assumptions, EvaluationAssumption
      <4> HIDE DEF error, rules
      <4>2. QED
        BY <4>1 DEF AtMost
    <3>5. y \in Within(cells) <=> AtMost(y.worst, bound)
      BY DEF Within
    <3> HIDE DEF error, rules, bound, cells, all, measurable
    <3>6. AtMost(y.worst, bound) <=> \A s \in Stages : AtMost(error[rules][s], bound)
      BY <3>1, <3>2, <3>3, RatesAreTransitive
    <3>7. rules \in within <=> \A s \in Stages : AtMost(error[rules][s], bound)
      BY <3>2, <3>4
    <3>8. QED
      BY <3>5, <3>6, <3>7 DEF rules
  <2>7. /\ x \in cells
        /\ IF Within(cells) # {}
           THEN x \in Within(cells) /\ \A y \in Within(cells) : y.accepted <= x.accepted
           ELSE \A y \in cells : AtMost(x.worst, y.worst)
    BY <2>2, BestOfCells
  <2>8. chosen \in measurable
    BY <2>4, <2>7
  <2>9. within # {} => chosen \in within /\ \A r \in within : Coverage(r, p) <= Coverage(chosen, p)
    <3> HIDE DEF cells, all, error
    <3>1. ASSUME NEW r \in within
          PROVE  \E y \in Within(cells) : r = RulesOf(y.key, e) /\ y.accepted = Coverage(r, p)
      <4>1. PICK y \in cells : r = RulesOf(y.key, e)
        BY <2>5
      <4>2. y \in Within(cells) /\ y.accepted = Coverage(r, p)
        BY <2>4, <2>6, <4>1
      <4>3. QED
        BY <4>1, <4>2
    <3>2. x.accepted = Coverage(chosen, p)
      BY <2>4, <2>7
    <3> HIDE DEF within, chosen
    <3>3. within # {} => x \in Within(cells)
      BY <2>7, <3>1
    <3>4. x \in Within(cells) => chosen \in within
      BY <2>6, <2>7 DEF chosen
    <3>5. QED
      BY <2>7, <3>1, <3>2, <3>3, <3>4
  <2>10. within = {} =>
           \A r \in measurable : \A s \in Stages : \E t \in Stages :
             AtMost(error[chosen][s], error[r][t])
    <3>1. SUFFICES ASSUME within = {}, NEW r \in measurable, NEW s \in Stages
                   PROVE  \E t \in Stages : AtMost(error[chosen][s], error[r][t])
      OBVIOUS
    <3>2. Within(cells) = {}
      <4> HIDE DEF cells, within
      <4>1. Within(cells) \subseteq cells
        BY DEF Within
      <4>2. QED
        BY <2>6, <3>1, <4>1
    <3>3. PICK y \in cells : r = RulesOf(y.key, e)
      BY <2>5
    <3> HIDE DEF cells, all, error, measurable, within
    <3>4. AtMost(x.worst, y.worst)
      BY <2>7, <3>2
    <3>5. /\ AtMost(error[chosen][s], x.worst) /\ IsRate(error[chosen][s])
          /\ IsRate(x.worst)
      BY <2>4, <2>7
    <3>6. PICK t \in Stages : y.worst = error[r][t] /\ IsRate(y.worst)
      BY <2>4, <3>3
    <3>7. AtMost(error[chosen][s], y.worst)
      <4> HIDE DEF chosen
      <4>1. QED
        BY <3>4, <3>5, <3>6, RatesAreTransitive
    <3>8. QED
      BY <3>6, <3>7
  <2>11. IsByTheRule(p, chosen)
    <3>1. {RulesOf(c, chosen.epsilon) : c \in Cells} = all
      BY <2>3
    <3>2. IsByTheRule(p, chosen) <=>
            /\ chosen \in measurable
            /\ within # {} =>
                 chosen \in within /\ \A r \in within : Coverage(r, p) <= Coverage(chosen, p)
            /\ within = {} =>
                 \A r \in measurable : \A s \in Stages : \E t \in Stages :
                   AtMost(error[chosen][s], error[r][t])
      <4> HIDE DEF chosen, all
      <4>1. QED
        BY <3>1 DEF IsByTheRule
    <3>3. QED
      BY <2>8, <2>9, <2>10, <3>2
  <2>12. QED
    BY <2>3, <2>11
<1>2. Assumptions /\ Evaluated /\ [Next]_vars
        => [calibration' # calibration => IsByTheRule(calibration'.partition, calibration'.rules)]_vars
  BY <1>1
<1>3. QED
  BY <1>2, EvaluationIsInvariant, PTL DEF Spec, ChosenByTheRule

=============================================================================
