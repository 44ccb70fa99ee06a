--------------------------- MODULE ScoringProofs ---------------------------
(***************************************************************************)
(* What the rules make of a listen, for any candidates, features, weights  *)
(* and thresholds: scoring.py and the SQL that is generated from the rules *)
(* come to the same scores, the same two best and the same outcome, and    *)
(* what is matched leads every other candidate by the margin.              *)
(***************************************************************************)
EXTENDS MatchDecision, FiniteSums

\* Two things, told apart.
LEMMA TwoElements ==
  ASSUME NEW a, NEW b
  PROVE  /\ IsFiniteSet({a, b})
         /\ a # b <=> Cardinality({a, b}) = 2
         /\ Cardinality({a, b}) \in {1, 2}
<1>1. IsFiniteSet({a}) /\ Cardinality({a}) = 1
  BY FS_Singleton
<1>2. /\ IsFiniteSet({a} \cup {b})
      /\ Cardinality({a} \cup {b}) = IF b \in {a} THEN Cardinality({a}) ELSE Cardinality({a}) + 1
  BY <1>1, FS_AddElement
<1>3. {a, b} = {a} \cup {b}
  OBVIOUS
<1>4. QED
  BY <1>1, <1>2, <1>3

-----------------------------------------------------------------------------
(* The rules, in Python and in SQL *)

\* Percentages, where they could be compared, and natural weights.
ScoredBy(policy, features) ==
  /\ IsFiniteSet(DOMAIN policy.weights)
  /\ \A f \in DOMAIN policy.weights : policy.weights[f] \in Nat /\ features[f] \in Int \cup {Absent}

\* The SQL leaves out the terms of weight 0 and counts what could not be compared as 0, in
\* both sums; Python leaves out what could not be compared.
LEMMA ScoresAgree ==
  ASSUME NEW policy, NEW features, ScoredBy(policy, features)
  PROVE  /\ SqlScore(policy, features) = Score(policy, features)
         /\ Score(policy, features) \in Int \cup {Absent}
<1> DEFINE D == DOMAIN policy.weights
           w == policy.weights
           compared == {f \in D : features[f] # Absent}
           used == {f \in D : w[f] # 0}
           weights == [f \in D |-> IF features[f] = Absent THEN 0 ELSE w[f]]
           weighed == [f \in D |-> IF features[f] = Absent THEN 0 ELSE w[f] * features[f]]
<1>1. IsFiniteSet(D) /\ \A f \in D : w[f] \in Nat /\ features[f] \in Int \cup {Absent}
  BY DEF ScoredBy
<1>2. weights \in [D -> Nat] /\ weighed \in [D -> Int]
  BY <1>1
<1>3. SumFunction([f \in compared |-> w[f]]) = SumFunction(weights)
  <2>1. [f \in compared |-> w[f]] \in [compared -> Int]
    BY <1>1
  <2>2. \A f \in D \ compared : weights[f] = 0
    OBVIOUS
  <2>3. \A f \in compared : [x \in compared |-> w[x]][f] = weights[f]
    OBVIOUS
  <2> HIDE DEF weights, compared
  <2>4. compared \in SUBSET D
    BY DEF compared
  <2>5. QED
    BY <1>1, <1>2, <2>1, <2>2, <2>3, <2>4, SumOfPart
<1>4. SumFunction([f \in compared |-> w[f] * features[f]]) = SumFunction(weighed)
  <2>1. [f \in compared |-> w[f] * features[f]] \in [compared -> Int]
    BY <1>1
  <2>2. \A f \in D \ compared : weighed[f] = 0
    OBVIOUS
  <2>3. \A f \in compared : [x \in compared |-> w[x] * features[x]][f] = weighed[f]
    OBVIOUS
  <2>4. compared \in SUBSET D
    OBVIOUS
  <2> HIDE DEF weighed, compared
  <2>5. QED
    BY <1>1, <1>2, <2>1, <2>2, <2>3, <2>4, SumOfPart
<1>5. SumFunction([f \in used |-> IF features[f] = Absent THEN 0 ELSE w[f]]) = SumFunction(weights)
  <2> DEFINE part == [f \in used |-> IF features[f] = Absent THEN 0 ELSE w[f]]
  <2>1. part \in [used -> Int] /\ \A f \in used : part[f] = weights[f]
    BY <1>1
  <2>2. \A f \in D \ used : weights[f] = 0
    OBVIOUS
  <2>3. used \in SUBSET D
    OBVIOUS
  <2> HIDE DEF weights, used, part
  <2>4. QED
    BY <1>1, <1>2, <2>1, <2>2, <2>3, SumOfPart DEF part
<1>6. SumFunction([f \in used |-> IF features[f] = Absent THEN 0 ELSE w[f] * features[f]])
        = SumFunction(weighed)
  <2> DEFINE part == [f \in used |-> IF features[f] = Absent THEN 0 ELSE w[f] * features[f]]
  <2>1. part \in [used -> Int] /\ \A f \in used : part[f] = weighed[f]
    BY <1>1
  <2>2. \A f \in D \ used : weighed[f] = 0
    BY <1>1
  <2>3. used \in SUBSET D
    OBVIOUS
  <2> HIDE DEF weighed, used, part
  <2>4. QED
    BY <1>1, <1>2, <2>1, <2>2, <2>3, SumOfPart DEF part
<1> DEFINE W == SumFunction(weights)
           V == SumFunction(weighed)
<1>7. W \in Nat /\ V \in Int
  <2> HIDE DEF weights, weighed
  <2>1. QED
    BY <1>1, <1>2, SumTyped, SumNatural
<1>8. Score(policy, features) = IF W = 0 THEN Absent ELSE (Precision * V) \div W
  BY <1>3, <1>4 DEF Score
<1>9. SqlScore(policy, features) = IF W = 0 THEN Absent ELSE (Precision * V) \div W
  BY <1>5, <1>6 DEF SqlScore
<1> HIDE DEF W, V
<1>10. W # 0 => (Precision * V) \div W \in Int
  BY <1>7 DEF Precision
<1>11. QED
  BY <1>8, <1>9, <1>10

Scores(C) == [C -> Int \cup {Absent}]

\* The first by score has the greatest, where any could be compared.
LEMMA TopIsGreatest ==
  ASSUME Absent \notin Int, NEW C, IsFiniteSet(C), NEW score \in Scores(C), NEW T \in SUBSET C,
         \E r \in T : score[r] # Absent
  PROVE  /\ Top(T, score) \in T /\ score[Top(T, score)] \in Int
         /\ \A q \in T : score[q] # Absent => score[q] <= score[Top(T, score)]
         /\ TopScore(T, score) = score[Top(T, score)]
<1> DEFINE scored == {r \in T : score[r] # Absent}
           part == [r \in scored |-> score[r]]
<1>1. scored # {} /\ part \in [scored -> Int] /\ scored \subseteq C
  BY DEF Scores
<1>2. IsFiniteSet(scored)
  BY <1>1, FS_Subset
<1>3. \E r \in scored : \A q \in scored : score[q] <= score[r]
  <2>1. \E r \in scored : \A q \in scored : part[q] <= part[r]
    <3> HIDE DEF scored, part
    <3>1. QED
      BY <1>1, <1>2, Greatest
  <2>2. QED
    BY <2>1
<1>4. Top(T, score) = CHOOSE r \in scored : \A q \in scored : score[q] <= score[r]
  BY DEF Top
<1>5. Top(T, score) \in scored /\ \A q \in scored : score[q] <= score[Top(T, score)]
  BY <1>3, <1>4
<1>6. score[Top(T, score)] \in Int
  BY <1>5 DEF Scores
<1>7. TopScore(T, score) = score[Top(T, score)]
  BY DEF TopScore
<1>8. QED
  BY <1>5, <1>6, <1>7

LEMMA NoTopScore ==
  ASSUME NEW T, NEW score, \A r \in T : score[r] = Absent
  PROVE  TopScore(T, score) = Absent
BY DEF TopScore

LEMMA GreatestOfSet ==
  ASSUME NEW N, NEW m \in N, N \subseteq Int, \A x \in N : x <= m
  PROVE  Max(N) = m
<1>1. /\ Max(N) \in N /\ \A y \in N : Max(N) >= y
  <2>1. Max(N) = CHOOSE x \in N : \A y \in N : x >= y
    BY DEF Max
  <2>2. \E x \in N : \A y \in N : x >= y
    <3>1. \A y \in N : m >= y
      OBVIOUS
    <3>2. QED
      BY <3>1
  <2>3. QED
    BY <2>1, <2>2
<1>2. Max(N) \in Int /\ m \in Int
  BY <1>1
<1>3. Max(N) >= m /\ Max(N) <= m
  BY <1>1
<1>4. QED
  BY <1>2, <1>3

\* The two best scores that are ranked.
First(C, score) == TopScore(C, score)
Second(C, score) ==
  IF First(C, score) = Absent THEN Absent ELSE TopScore(C \ {Top(C, score)}, score)

\* scoring.py takes the two best scores without ranking the candidates, and comes to the
\* same two.
PythonFirst(C, score) == Max({score[r] : r \in {q \in C : score[q] # Absent}})
PythonSecond(C, score) ==
  LET scored == {r \in C : score[r] # Absent}
      next == {score[r] : r \in scored} \ {PythonFirst(C, score)}
  IN  IF Cardinality({r \in scored : score[r] = PythonFirst(C, score)}) > 1
      THEN PythonFirst(C, score) ELSE IF next = {} THEN Absent ELSE Max(next)

LEMMA RanksAgree ==
  ASSUME Absent \notin Int, NEW C, IsFiniteSet(C), NEW score \in Scores(C),
         \E r \in C : score[r] # Absent
  PROVE  /\ PythonFirst(C, score) = First(C, score)
         /\ PythonSecond(C, score) = Second(C, score)
<1> DEFINE scored == {r \in C : score[r] # Absent}
           first == Top(C, score)
           values == {score[r] : r \in scored}
           best == {r \in scored : score[r] = score[first]}
           rest == C \ {first}
<1>1. /\ first \in scored /\ score[first] \in Int
      /\ \A q \in scored : score[q] <= score[first]
      /\ First(C, score) = score[first]
  BY TopIsGreatest DEF First
<1>2. values \subseteq Int /\ score[first] \in values /\ \A x \in values : x <= score[first]
  BY <1>1 DEF Scores
<1>3. PythonFirst(C, score) = score[first]
  <2>1. Max(values) = score[first]
    <3> HIDE DEF values, first
    <3>1. QED
      BY <1>2, GreatestOfSet
  <2>2. QED
    BY <2>1 DEF PythonFirst
<1>4. Second(C, score) = TopScore(rest, score)
  BY <1>1 DEF Second
<1>5. PythonSecond(C, score) =
        IF Cardinality(best) > 1 THEN score[first]
        ELSE IF values \ {score[first]} = {} THEN Absent ELSE Max(values \ {score[first]})
  BY <1>3 DEF PythonSecond
<1>6. IsFiniteSet(best) /\ first \in best /\ Cardinality(best) \in Nat
  <2>1. best \in SUBSET C
    OBVIOUS
  <2>2. QED
    BY <1>1, <2>1, FS_Subset, FS_CardinalityType
<1>7. ASSUME best = {first}
      PROVE  Cardinality(best) = 1
  BY <1>7, FS_Singleton
<1>8. CASE \A r \in rest : score[r] = Absent
  <2>1. scored = {first}
    BY <1>1, <1>8
  <2>2. best = {first} /\ values = {score[first]}
    BY <2>1
  <2>3. TopScore(rest, score) = Absent
    BY <1>8, NoTopScore
  <2>4. QED
    BY <1>1, <1>3, <1>4, <1>5, <1>7, <2>2, <2>3
<1>9. CASE \E r \in rest : score[r] # Absent
  <2> DEFINE next == Top(rest, score)
  <2>1. /\ next \in rest /\ score[next] \in Int
        /\ \A q \in rest : score[q] # Absent => score[q] <= score[next]
        /\ TopScore(rest, score) = score[next]
    BY <1>9, TopIsGreatest
  <2>2. next \in scored /\ next # first
    BY <1>1, <2>1 DEF Scores
  <2> HIDE DEF next, first
  <2>3. CASE score[next] = score[first]
    <3>1. {first, next} \in SUBSET best
      BY <1>1, <2>2, <2>3
    <3>2. Cardinality({first, next}) = 2
      BY <2>2, TwoElements
    <3>3. Cardinality(best) >= 2
      <4>1. Cardinality({first, next}) <= Cardinality(best)
        <5> HIDE DEF best
        <5>1. QED
          BY <1>6, <3>1, FS_Subset
      <4>2. QED
        BY <1>6, <3>2, <4>1
    <3>4. QED
      BY <1>1, <1>3, <1>4, <1>5, <1>6, <2>1, <2>3, <3>3
  <2>4. CASE score[next] # score[first]
    <3>1. \A r \in scored : r # first => score[r] <= score[next]
      BY <2>1
    <3>2. score[next] < score[first]
      BY <1>1, <2>1, <2>2, <2>4
    <3>3. best = {first}
      BY <1>1, <1>2, <2>1, <3>1, <3>2
    <3>4. score[next] \in values \ {score[first]}
      BY <2>2, <2>4
    <3>5. \A x \in values \ {score[first]} : x <= score[next]
      BY <3>1
    <3>6. Max(values \ {score[first]}) = score[next]
      <4>1. values \ {score[first]} \subseteq Int
        BY <1>2
      <4> HIDE DEF values
      <4>2. QED
        BY <3>4, <3>5, <4>1, GreatestOfSet
    <3>7. QED
      BY <1>1, <1>3, <1>4, <1>5, <1>7, <2>1, <3>3, <3>4, <3>6
  <2>5. QED
    BY <2>3, <2>4
<1>10. QED
  BY <1>8, <1>9

\* A listen's candidates are finitely many, its features are compared under usable rules.
Usable(policy, blocked, features) ==
  /\ IsFiniteSet(blocked.candidates) /\ Absent \notin blocked.candidates
  /\ blocked = [block |-> blocked.block, candidates |-> blocked.candidates]
  /\ \A r \in blocked.candidates : ScoredBy(policy, features[r])
  /\ {policy.exact, policy.fallback, policy.margin, policy.epsilon} \subseteq Nat

\* The SQL's outcome, of the two scores it ranks.
SqlOutcome(policy, blocked, score) ==
  SqlDecision(policy, blocked.block, Cardinality(blocked.candidates),
              First(blocked.candidates, score), Second(blocked.candidates, score))

LEMMA DecisionsAgree ==
  ASSUME NEW policy, NEW block, NEW count, NEW top1, NEW top2
  PROVE  SqlDecision(policy, block, count, top1, top2)
           = PythonDecision(policy, block, count, top1, top2)
BY DEF SqlDecision, PythonDecision

\* scoring.py and the generated SQL come to one outcome.
LEMMA OutcomesAgree ==
  ASSUME Absent \notin Int, NEW policy, NEW blocked, NEW features, Usable(policy, blocked, features),
         NEW score, score = [r \in blocked.candidates |-> Score(policy, features[r])]
  PROVE  /\ score \in Scores(blocked.candidates)
         /\ score = [r \in blocked.candidates |-> SqlScore(policy, features[r])]
         /\ PythonOutcome(policy, blocked, features) = SqlOutcome(policy, blocked, score)
<1> DEFINE C == blocked.candidates
           n == Cardinality(C)
<1>1. score \in Scores(C) /\ score = [r \in C |-> SqlScore(policy, features[r])]
  <2>1. \A r \in C : /\ SqlScore(policy, features[r]) = Score(policy, features[r])
                     /\ Score(policy, features[r]) \in Int \cup {Absent}
    BY ScoresAgree DEF Usable
  <2>2. QED
    BY <2>1 DEF Scores
<1>2. CASE \A r \in C : score[r] = Absent
  <2>1. PythonOutcome(policy, blocked, features) = "NO_BLOCK_CANDIDATES"
    <3>1. {r \in C : score[r] # Absent} = {}
      BY <1>2
    <3>2. PythonOutcome(policy, blocked, features)
            = PythonDecision(policy, blocked.block, n, Absent, Absent)
      BY <3>1 DEF PythonOutcome
    <3>3. QED
      BY <3>2 DEF PythonDecision
  <2>2. First(C, score) = Absent
    BY <1>2, NoTopScore DEF First
  <2>3. SqlOutcome(policy, blocked, score) = "NO_BLOCK_CANDIDATES"
    BY <2>2 DEF SqlOutcome, SqlDecision
  <2>4. QED
    BY <1>1, <2>1, <2>3
<1>3. CASE \E r \in C : score[r] # Absent
  <2>1. PythonOutcome(policy, blocked, features)
          = PythonDecision(policy, blocked.block, n, PythonFirst(C, score), PythonSecond(C, score))
    <3>1. {r \in C : score[r] # Absent} # {}
      BY <1>3
    <3>2. QED
      BY <3>1 DEF PythonOutcome, PythonFirst, PythonSecond
  <2>2. /\ PythonFirst(C, score) = First(C, score)
        /\ PythonSecond(C, score) = Second(C, score)
    <3>1. IsFiniteSet(C)
      BY DEF Usable
    <3>2. QED
      BY <1>1, <1>3, <3>1, RanksAgree
  <2>3. QED
    BY <1>1, <2>1, <2>2, DecisionsAgree DEF SqlOutcome
<1>4. QED
  BY <1>2, <1>3

\* What is accepted is a candidate that leads every other by the margin, and where none is
\* accepted none leads so.
LEMMA AcceptedLeads ==
  ASSUME Absent \notin Int, NEW policy, NEW blocked, NEW features, Usable(policy, blocked, features),
         NEW score, score = [r \in blocked.candidates |-> Score(policy, features[r])]
  PROVE  IF SqlOutcome(policy, blocked, score) = "ACCEPTED"
         THEN /\ Top(blocked.candidates, score) \in blocked.candidates
              /\ Undisputed(policy, blocked, features, Top(blocked.candidates, score))
         ELSE \A r \in blocked.candidates :
                blocked = [block |-> "EXACT", candidates |-> {r}]
                \/ ~Undisputed(policy, blocked, features, r)
<1> DEFINE C == blocked.candidates
           n == Cardinality(C)
           first == Top(C, score)
           rest == C \ {first}
           next == Top(rest, score)
           limit == Applied(policy, blocked.block)
           Leads(r) == /\ score[r] # Absent /\ score[r] >= limit
                       /\ \A q \in C \ {r} : score[q] # Absent =>
                            /\ score[r] - score[q] >= Precision * policy.margin
                            /\ score[r] - score[q] > Precision * policy.epsilon
<1>1. score \in Scores(C)
  BY OutcomesAgree
<1>2. \A r \in C : Undisputed(policy, blocked, features, r)
                     <=> blocked = [block |-> "EXACT", candidates |-> {r}] \/ Leads(r)
  BY DEF Undisputed
<1>3. IsFiniteSet(C) /\ n \in Nat
  BY FS_CardinalityType DEF Usable
<1>4. limit \in Nat /\ Precision * policy.margin \in Nat /\ Precision * policy.epsilon \in Nat
  BY DEF Usable, Applied, Precision
<1>5. CASE \A r \in C : score[r] = Absent
  <2>1. SqlOutcome(policy, blocked, score) = "NO_BLOCK_CANDIDATES"
    BY <1>5, NoTopScore DEF SqlOutcome, SqlDecision, First
  <2>2. \A r \in C : ~Leads(r)
    BY <1>5
  <2>3. QED
    BY <1>2, <2>1, <2>2
<1>6. CASE \E r \in C : score[r] # Absent
  <2>1. /\ first \in C /\ score[first] \in Int
        /\ \A q \in C : score[q] # Absent => score[q] <= score[first]
        /\ First(C, score) = score[first]
    BY <1>1, <1>3, <1>6, TopIsGreatest DEF First
  <2>2. Second(C, score) = TopScore(rest, score)
    BY <2>1 DEF Second
  <2>3. n # 0
    BY <1>3, <2>1, FS_EmptySet
  <2>4. \A r \in C : Leads(r) => r = first
    <3>1. SUFFICES ASSUME NEW r \in C, Leads(r), r # first
                   PROVE  FALSE
      OBVIOUS
    <3>2. score[r] \in Int /\ score[r] <= score[first]
      BY <1>1, <2>1, <3>1 DEF Scores
    <3>3. score[r] - score[first] > Precision * policy.epsilon
      BY <2>1, <3>1
    <3> HIDE DEF first
    <3>4. QED
      BY <1>4, <2>1, <3>2, <3>3
  <2>5. CASE \A q \in rest : score[q] = Absent
    <3>1. Second(C, score) = Absent
      BY <2>2, <2>5, NoTopScore
    <3>2. SqlOutcome(policy, blocked, score) = "ACCEPTED" <=> ~(score[first] < limit)
      BY <2>1, <2>3, <3>1 DEF SqlOutcome, SqlDecision
    <3>3. Leads(first) <=> score[first] >= limit
      BY <2>1, <2>5
    <3> HIDE DEF limit, Leads, first
    <3>4. Leads(first) <=> SqlOutcome(policy, blocked, score) = "ACCEPTED"
      BY <1>4, <2>1, <3>2, <3>3
    <3>5. QED
      BY <1>2, <2>1, <2>4, <3>4 DEF first
  <2>6. CASE \E q \in rest : score[q] # Absent
    <3>1. /\ next \in rest /\ score[next] \in Int
          /\ \A q \in rest : score[q] # Absent => score[q] <= score[next]
          /\ Second(C, score) = score[next]
      BY <1>1, <1>3, <2>2, <2>6, TopIsGreatest
    <3>2. n # 1
      <4>1. n >= 2
        <5>1. Cardinality({first, next}) = 2
          BY <3>1, TwoElements
        <5>2. {first, next} \in SUBSET C
          BY <2>1, <3>1
        <5> HIDE DEF first, next
        <5>3. Cardinality({first, next}) <= n
          BY <1>3, <5>2, FS_Subset
        <5>4. QED
          BY <5>1, <5>3
      <4>2. QED
        BY <1>3, <4>1
    <3>3. SqlOutcome(policy, blocked, score) = "ACCEPTED"
            <=> /\ ~(score[first] < limit)
                /\ ~(score[first] - score[next] <= Precision * policy.epsilon)
                /\ ~(score[first] - score[next] < Precision * policy.margin)
      BY <2>1, <2>3, <3>1, <3>2 DEF SqlOutcome, SqlDecision
    <3>4. Leads(first)
            <=> /\ score[first] >= limit
                /\ score[first] - score[next] >= Precision * policy.margin
                /\ score[first] - score[next] > Precision * policy.epsilon
      <4>1. Leads(first) => /\ score[first] >= limit
                            /\ score[first] - score[next] >= Precision * policy.margin
                            /\ score[first] - score[next] > Precision * policy.epsilon
        BY <3>1
      <4>2. ASSUME /\ score[first] >= limit
                   /\ score[first] - score[next] >= Precision * policy.margin
                   /\ score[first] - score[next] > Precision * policy.epsilon,
                   NEW q \in rest, score[q] # Absent
            PROVE  /\ score[first] - score[q] >= Precision * policy.margin
                   /\ score[first] - score[q] > Precision * policy.epsilon
        <5>1. score[q] \in Int /\ score[q] <= score[next]
          BY <1>1, <3>1, <4>2 DEF Scores
        <5> HIDE DEF first, next
        <5>2. QED
          BY <1>4, <2>1, <3>1, <4>2, <5>1
      <4>3. QED
        BY <2>1, <4>1, <4>2
    <3> HIDE DEF limit, Leads, first, next
    <3>5. Leads(first) <=> SqlOutcome(policy, blocked, score) = "ACCEPTED"
      BY <1>4, <2>1, <3>1, <3>3, <3>4
    <3>6. QED
      BY <1>2, <2>1, <2>4, <3>5 DEF first
  <2>7. QED
    BY <2>5, <2>6
<1>7. QED
  BY <1>5, <1>6

\* A row is what the rules mean of its listen.
LEMMA MatchedAsMeant ==
  ASSUME Absent \notin Int, NEW policy, NEW v, NEW pair, NEW blocked, NEW features,
         Usable(policy, blocked, features),
         NEW row, row = MatchRow(policy, v, pair, blocked, features)
  PROVE  IF row.recording # Absent
         THEN /\ row.recording \in blocked.candidates
              /\ Undisputed(policy, blocked, features, row.recording)
         ELSE /\ \A r \in blocked.candidates : ~Undisputed(policy, blocked, features, r)
              /\ row.reason = FailureReason(v, pair, PythonOutcome(policy, blocked, features))
<1> DEFINE C == blocked.candidates
           n == Cardinality(C)
           score == [r \in C |-> Score(policy, features[r])]
           outcome == SqlOutcome(policy, blocked, score)
           alone == blocked.block = "EXACT" /\ n = 1
<1>1. /\ score = [r \in C |-> SqlScore(policy, features[r])]
      /\ PythonOutcome(policy, blocked, features) = outcome
  BY OutcomesAgree
<1>2. row = IF alone THEN MatchedTo(CHOOSE r \in C : TRUE, 1)
            ELSE IF outcome = "ACCEPTED" THEN MatchedTo(Top(C, score), n)
            ELSE Unmatched(FailureReason(v, pair, outcome), n)
  <2> HIDE DEF score
  <2>1. QED
    BY <1>1 DEF MatchRow, SqlOutcome, First, Second
<1>3. /\ Absent \notin C /\ IsFiniteSet(C)
      /\ blocked = [block |-> blocked.block, candidates |-> C]
  BY DEF Usable
<1>4. IF outcome = "ACCEPTED"
      THEN Top(C, score) \in C /\ Undisputed(policy, blocked, features, Top(C, score))
      ELSE \A r \in C : blocked = [block |-> "EXACT", candidates |-> {r}]
                        \/ ~Undisputed(policy, blocked, features, r)
  BY AcceptedLeads
<1> HIDE DEF score, outcome
<1>5. CASE alone
  <2>1. PICK r : C = {r}
    <3>1. Cardinality(C) = 1
      BY <1>5
    <3>2. QED
      BY <1>3, <3>1, FS_Singleton
  <2>2. (CHOOSE q \in C : TRUE) = r
    BY <2>1
  <2>3. row.recording = r
    BY <1>2, <1>5, <2>2 DEF MatchedTo
  <2>4. blocked = [block |-> "EXACT", candidates |-> {r}]
    BY <1>3, <1>5, <2>1
  <2>5. Undisputed(policy, blocked, features, r)
    BY <2>4 DEF Undisputed
  <2>6. QED
    BY <1>3, <2>1, <2>3, <2>5
<1>6. CASE ~alone /\ outcome = "ACCEPTED"
  <2>1. row.recording = Top(C, score)
    BY <1>2, <1>6 DEF MatchedTo
  <2>2. QED
    BY <1>3, <1>4, <1>6, <2>1
<1>7. CASE ~alone /\ outcome # "ACCEPTED"
  <2>1. /\ row.recording = Absent
        /\ row.reason = FailureReason(v, pair, PythonOutcome(policy, blocked, features))
    BY <1>1, <1>2, <1>7 DEF Unmatched
  <2>2. \A r \in C : blocked # [block |-> "EXACT", candidates |-> {r}]
    <3>1. SUFFICES ASSUME NEW r \in C, blocked = [block |-> "EXACT", candidates |-> {r}]
                   PROVE  FALSE
      OBVIOUS
    <3>2. C = {r} /\ blocked.block = "EXACT"
      BY <3>1
    <3>3. n = 1
      BY <3>2, FS_Singleton
    <3>4. QED
      BY <1>7, <3>2, <3>3
  <2>3. QED
    BY <1>4, <1>7, <2>1, <2>2
<1>8. QED
  BY <1>5, <1>6, <1>7

\* Of a listen that is not decided without a score, the row follows what scoring.py decides.
LEMMA RowFollowsOutcome ==
  ASSUME Absent \notin Int, NEW policy, NEW v, NEW pair, NEW blocked, NEW features,
         Usable(policy, blocked, features),
         ~(blocked.block = "EXACT" /\ Cardinality(blocked.candidates) = 1),
         NEW score, score = [r \in blocked.candidates |-> Score(policy, features[r])]
  PROVE  MatchRow(policy, v, pair, blocked, features).recording
           = IF PythonOutcome(policy, blocked, features) = "ACCEPTED"
             THEN Top(blocked.candidates, score) ELSE Absent
<1>1. /\ score = [r \in blocked.candidates |-> SqlScore(policy, features[r])]
      /\ PythonOutcome(policy, blocked, features) = SqlOutcome(policy, blocked, score)
  BY OutcomesAgree
<1>2. QED
  BY <1>1 DEF MatchRow, SqlOutcome, First, Second, MatchedTo, Unmatched

=============================================================================
