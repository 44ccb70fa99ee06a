-------------------------- MODULE ReprocessProofs --------------------------
(***************************************************************************)
(* What Reprocess keeps for any listens, names, cohorts and rules, and for *)
(* any operators: its types, what the restated table holds, what the       *)
(* publisher accepts of it, and what an identifier tells of it.            *)
(***************************************************************************)
EXTENDS Reprocess, ScoringProofs

Assumptions == ReprocessAssumption /\ DomainsAssumption

-----------------------------------------------------------------------------
(* Pairs of one hash, candidates and decisions *)

LEMMA PairsTyped ==
  ASSUME Assumptions, NEW p \in Pairs
  PROVE  /\ p \in [artist : Strings \cup {Absent, Empty}, recording : Strings \cup {Absent, Empty}]
         /\ PythonHash(p) \in HashedPairs
BY DEF Assumptions, ReprocessAssumption, Pairs, HashedPairs

\* Each name of a pair is the hashed one, or NULL where that is empty.
LEMMA JoinedAreAlike ==
  ASSUME Assumptions, NEW l \in Listens, pairs.pairs \subseteq Pairs
  PROVE  \E a, b, c, d : Joined(l) \subseteq {a, b, c, d}
<1> DEFINE name == Names[l]
           pair(a, r) == [artist |-> a, recording |-> r]
<1>1. CASE Absent \in {name.artist, name.recording}
  <2>1. Joined(l) = {}
    <3>1. SUFFICES ASSUME NEW p \in pairs.pairs PROVE PythonHash(p) # Absent
      BY <1>1 DEF Joined, SqlHash
    <3>2. QED
      BY PairsTyped DEF Assumptions, DomainsAssumption
  <2>2. QED
    BY <2>1
<1>2. CASE Absent \notin {name.artist, name.recording}
  <2>1. ASSUME NEW p \in Joined(l)
        PROVE  p \in {pair(name.artist, name.recording), pair(name.artist, Absent),
                      pair(Absent, name.recording), pair(Absent, Absent)}
    <3>1. p \in Pairs /\ PythonHash(p) = name
      BY <1>2 DEF Joined, SqlHash
    <3>2. /\ p = pair(p.artist, p.recording)
          /\ p.artist \in {name.artist, Absent} /\ p.recording \in {name.recording, Absent}
      <4>1. p = pair(p.artist, p.recording)
        BY <3>1, PairsTyped
      <4>2. /\ name.artist = IF p.artist = Absent THEN Empty ELSE p.artist
            /\ name.recording = IF p.recording = Absent THEN Empty ELSE p.recording
        BY <3>1 DEF PythonHash
      <4>3. QED
        BY <4>1, <4>2
    <3>3. QED
      BY <3>2
  <2>2. QED
    BY <2>1
<1>3. QED
  BY <1>1, <1>2

LEMMA AtMostFour ==
  ASSUME NEW a, NEW b, NEW c, NEW d
  PROVE  IsFiniteSet({a, b, c, d}) /\ Cardinality({a, b, c, d}) <= 4
<1>1. IsFiniteSet({a}) /\ Cardinality({a}) = 1
  BY FS_Singleton
<1>2. IsFiniteSet({a} \cup {b}) /\ Cardinality({a} \cup {b}) \in 0 .. 2
  BY <1>1, FS_AddElement
<1>3. IsFiniteSet(({a} \cup {b}) \cup {c}) /\ Cardinality(({a} \cup {b}) \cup {c}) \in 0 .. 3
  BY <1>2, FS_AddElement
<1>4. /\ IsFiniteSet((({a} \cup {b}) \cup {c}) \cup {d})
      /\ Cardinality((({a} \cup {b}) \cup {c}) \cup {d}) \in 0 .. 4
  BY <1>3, FS_AddElement
<1>5. {a, b, c, d} = (({a} \cup {b}) \cup {c}) \cup {d}
  OBVIOUS
<1>6. QED
  BY <1>4, <1>5

\* A listen joins at most MaxCopies of the landed pairs.
LEMMA CopiesTyped ==
  ASSUME Assumptions, NEW l \in Listens, pairs.pairs \subseteq Pairs
  PROVE  Cardinality(Joined(l)) \in 0 .. MaxCopies
<1>1. PICK a, b, c, d : Joined(l) \subseteq {a, b, c, d}
  BY JoinedAreAlike
<1>2. Cardinality(Joined(l)) <= 4 /\ IsFiniteSet(Joined(l))
  <2>1. /\ IsFiniteSet({a, b, c, d}) /\ Cardinality({a, b, c, d}) <= 4
        /\ Cardinality({a, b, c, d}) \in Nat
    BY AtMostFour, FS_CardinalityType
  <2>2. /\ IsFiniteSet(Joined(l))
        /\ Cardinality(Joined(l)) <= Cardinality({a, b, c, d})
    BY <1>1, <2>1, FS_Subset
  <2>3. Cardinality(Joined(l)) \in Nat
    BY <2>2, FS_CardinalityType
  <2>4. QED
    BY <2>1, <2>2, <2>3
<1>3. QED
  BY <1>2, FS_CardinalityType DEF MaxCopies

\* The candidates of a pair are recordings, and finitely many.
LEMMA CandidatesTyped ==
  ASSUME Assumptions, NEW v \in Versions, NEW pair
  PROVE  /\ Candidates(v, pair) \subseteq Recordings
         /\ IsFiniteSet(Candidates(v, pair))
         /\ Cardinality(Candidates(v, pair)) \in 0 .. Cardinality(Recordings)
<1>1. BlockingIndex \cup Transliterated[v] \subseteq Recordings \X Keys
  BY DEF Assumptions, ReprocessAssumption
<1>2. Candidates(v, pair) \subseteq Recordings
  BY <1>1 DEF Candidates, WithKey
<1>3. QED
  BY <1>2, FS_Subset, FS_CardinalityType DEF Assumptions, DomainsAssumption

LEMMA ReasonsTyped ==
  ASSUME Assumptions, NEW v, NEW pair
  PROVE  FailureReason(v, pair, "NO_BLOCK_CANDIDATES") \in Reasons
<1>1. FailureReason(v, pair, "NO_BLOCK_CANDIDATES") \in ReprocessReasons
  BY DEF FailureReason, NormalizationStatus, KeyStatus, ReprocessReasons
<1>2. QED
  BY <1>1 DEF Assumptions, DomainsAssumption

LEMMA DecisionsTyped ==
  ASSUME Assumptions, NEW v \in Versions, NEW pair, NEW copies \in 0 .. MaxCopies
  PROVE  Decide(v, pair, copies) \in Outcomes
<1> DEFINE found == Candidates(v, pair)
           counted == copies * Cardinality(found)
           N == Cardinality(Recordings)
<1>1. N \in Nat
  BY FS_CardinalityType DEF Assumptions, DomainsAssumption
<1>2. Cardinality(found) \in 0 .. N
  BY CandidatesTyped
<1>3. counted \in 0 .. MaxCopies * N
  <2>1. copies \in {0, 1, 2, 3, 4}
    BY DEF MaxCopies
  <2>2. QED
    BY <1>1, <1>2, <2>1 DEF MaxCopies
<1>4. CASE counted = 1
  <2>1. found # {}
    BY <1>4, FS_EmptySet, CandidatesTyped
  <2>2. (CHOOSE r \in found : TRUE) \in Recordings
    BY <2>1, CandidatesTyped
  <2>3. QED
    BY <1>3, <1>4, <2>2 DEF Decide, Outcomes
<1>5. CASE counted > 1
  BY <1>3, <1>5 DEF Decide, Outcomes, Unmatched, Assumptions, DomainsAssumption, ReprocessReasons
<1>6. CASE counted = 0
  BY <1>3, <1>6, ReasonsTyped DEF Decide, Outcomes, Unmatched
<1>7. QED
  BY <1>3, <1>4, <1>5, <1>6

LEMMA CohortsAreMeasured ==
  ASSUME Assumptions, NEW p
  PROVE  Measured(p) \in Nat
BY FS_Subset, FS_CardinalityType DEF Assumptions, DomainsAssumption, Measured, Affected

-----------------------------------------------------------------------------
(* The invariant *)

\* The committed definitions say which cohort was published; no edit changes that.
Definitions ==
  {c \in [CohortKeys -> Entry] : c["published"].mart = "legacy" /\ c["rejected"].mart = NoRun}

RegistryDescribes == \E c \in Definitions : registry = RegistryRows(c)

\* A program runs under the live rules, and once it has named its run under the identity of
\* the cohort it read; until then that cohort is the one in the file.
SessionsAreNamed ==
  \A s \in Operators :
    /\ session[s].rules = LiveRules
    /\ IF At(s, "main") THEN session[s].predicate = cohorts["published"].predicate
       ELSE session[s].id = RunId(session[s].predicate)

\* What a rebuilt table holds, whichever pairs were landed when it was rebuilt.
IsOneRun(table) ==
  /\ table.rules = LiveRules
  /\ \E p \in Predicates : table.id = RunId(p) /\ RecomputedIn(table) = Affected(p)
  /\ \A l \in Listens :
       table.rows[l].outcome =
         IF table.rows[l].recomputed
         THEN Decide(LiveRules, PythonHash(Names[l]), table.rows[l].copies) ELSE Matches[l]

TablesAreOneRun ==
  /\ pairs # NoTable => pairs.rules = LiveRules
  /\ restated # NoTable => IsOneRun(restated)
  /\ published # NoTable => IsOneRun(published)

ReprocessInvariant ==
  /\ TypeOK
  /\ cohorts \in Definitions /\ RegistryDescribes
  /\ SessionsAreNamed
  /\ TablesAreOneRun

-----------------------------------------------------------------------------
(* Sessions *)

SessionsSound == session \in [Operators -> SessionStates] /\ SessionsAreNamed

LEMMA RestingIsTyped ==
  ASSUME Assumptions, NEW o \in {"none", "done", "refused", "crashed", "killed"}
  PROVE  /\ [Resting EXCEPT !.outcome = o] \in SessionStates
         /\ [Resting EXCEPT !.outcome = o].pc = "idle"
         /\ [Resting EXCEPT !.outcome = o].rules = LiveRules
         /\ [Resting EXCEPT !.outcome = o].id = RunId([Resting EXCEPT !.outcome = o].predicate)
<1>1. /\ Frozen \in Predicates /\ RunId(Frozen) \in RunIds /\ LiveRules \in Versions
      /\ "idle" \in Steps
  BY DEF Assumptions, ReprocessAssumption, RunIds, Steps
<1>2. QED
  BY <1>1 DEF Resting, SessionStates

LEMMA StopKeepsSessions ==
  ASSUME Assumptions, SessionsSound, NEW s \in Operators,
         NEW o \in {"none", "done", "refused", "crashed", "killed"}, Stop(s, o), UNCHANGED cohorts
  PROVE  SessionsSound'
<1> DEFINE rest == [Resting EXCEPT !.outcome = o]
<1>1. rest \in SessionStates /\ rest.pc = "idle" /\ rest.rules = LiveRules
      /\ rest.id = RunId(rest.predicate)
  BY RestingIsTyped
<1>2. session' = [session EXCEPT ![s] = rest]
  BY DEF Stop
<1> HIDE DEF rest
<1>3. session' \in [Operators -> SessionStates]
  BY <1>1, <1>2 DEF SessionsSound
<1>4. ASSUME NEW t \in Operators
      PROVE  /\ session'[t].rules = LiveRules
             /\ IF session'[t].pc = "main" THEN session'[t].predicate = cohorts'["published"].predicate
                ELSE session'[t].id = RunId(session'[t].predicate)
  <2>1. CASE t = s
    BY <1>1, <1>2, <2>1 DEF SessionsSound
  <2>2. CASE t # s
    BY <1>2, <2>2 DEF SessionsSound, SessionsAreNamed, At
  <2>3. QED
    BY <2>1, <2>2
<1>5. QED
  BY <1>3, <1>4 DEF SessionsSound, SessionsAreNamed, At

LEMMA GotoKeepsSessions ==
  ASSUME SessionsSound, NEW s \in Operators, NEW pc \in Steps \ {"main"},
         ~At(s, "main"), Goto(s, pc), UNCHANGED cohorts
  PROVE  SessionsSound'
<1>1. session[s] \in SessionStates
  BY DEF SessionsSound
<1>2. session' = [session EXCEPT ![s] = [session[s] EXCEPT !.pc = pc]]
  BY <1>1 DEF Goto, SessionsSound
<1>3. [session[s] EXCEPT !.pc = pc] \in SessionStates
  BY <1>1 DEF SessionStates
<1>4. session' \in [Operators -> SessionStates]
  BY <1>2, <1>3 DEF SessionsSound
<1>5. ASSUME NEW t \in Operators
      PROVE  /\ session'[t].rules = LiveRules
             /\ IF session'[t].pc = "main" THEN session'[t].predicate = cohorts'["published"].predicate
                ELSE session'[t].id = RunId(session'[t].predicate)
  <2>1. CASE t = s
    <3>1. session'[t] = [session[s] EXCEPT !.pc = pc]
      BY <1>2, <2>1 DEF SessionsSound
    <3>2. session[s].rules = LiveRules /\ session[s].id = RunId(session[s].predicate)
      BY DEF SessionsSound, SessionsAreNamed, At
    <3>3. QED
      BY <1>1, <3>1, <3>2 DEF SessionStates
  <2>2. CASE t # s
    BY <1>2, <2>2 DEF SessionsSound, SessionsAreNamed, At
  <2>3. QED
    BY <2>1, <2>2
<1>6. QED
  BY <1>4, <1>5 DEF SessionsSound, SessionsAreNamed, At

\* A step that changes no table keeps what the sessions keep.
LEMMA QuietKeepsTheInvariant ==
  ASSUME Assumptions, ReprocessInvariant, SessionsSound', UNCHANGED <<config, tables, edits>>,
         mishaps' \in 0 .. MaxMishaps
  PROVE  ReprocessInvariant'
<1>1. TypeOK'
  BY DEF ReprocessInvariant, TypeOK, SessionsSound, config, tables
<1>2. TablesAreOneRun'
  <2>1. TablesAreOneRun
    BY DEF ReprocessInvariant
  <2>2. QED
    BY <2>1 DEF TablesAreOneRun, IsOneRun, RecomputedIn, Affected, Decide, Candidates, WithKey, tables
<1>3. RegistryDescribes' /\ cohorts' \in Definitions
  BY DEF ReprocessInvariant, RegistryDescribes, config
<1>4. QED
  BY <1>1, <1>2, <1>3 DEF ReprocessInvariant, SessionsSound

-----------------------------------------------------------------------------
(* reprocess_cohort *)

LEMMA RunningKeeps ==
  ASSUME Assumptions, ReprocessInvariant, NEW s \in Operators, NEW pc, Runs(s, pc)
  PROVE  /\ SessionsSound /\ session[s] \in SessionStates /\ session[s].pc = pc
         /\ UNCHANGED <<config, edits>> /\ UNCHANGED cohorts /\ mishaps' \in 0 .. MaxMishaps
BY DEF Runs, At, ReprocessInvariant, TypeOK, SessionsSound, config

LEMMA ImportKeeps ==
  ASSUME Assumptions, ReprocessInvariant, NEW s \in Operators, ImportCohort(s)
  PROVE  ReprocessInvariant'
<1>1. /\ SessionsSound /\ session[s].pc = "idle" /\ UNCHANGED <<config, edits>>
      /\ UNCHANGED cohorts /\ UNCHANGED tables /\ mishaps' \in 0 .. MaxMishaps
  BY RunningKeeps DEF ImportCohort
<1>2. CASE Loads(cohorts)
  <2> DEFINE p == cohorts["published"].predicate
             m == cohorts["published"].measured
             new == [Resting EXCEPT !.pc = "main", !.predicate = p, !.measured = m]
  <2>1. p \in Predicates /\ m \in Nat
    BY DEF ReprocessInvariant, TypeOK, CohortKeys, Entry
  <2>2. /\ new \in SessionStates /\ new.pc = "main" /\ new.rules = LiveRules
        /\ new.predicate = p
    <3>1. RunId(Frozen) \in RunIds /\ LiveRules \in Versions /\ "main" \in Steps
      BY DEF Assumptions, ReprocessAssumption, RunIds, Steps
    <3>2. QED
      BY <2>1, <3>1 DEF Resting, SessionStates
  <2>3. session' = [session EXCEPT ![s] = new]
    BY <1>2 DEF ImportCohort
  <2> HIDE DEF new
  <2>4. session' \in [Operators -> SessionStates]
    BY <1>1, <2>2, <2>3 DEF SessionsSound
  <2>5. ASSUME NEW t \in Operators
        PROVE  /\ session'[t].rules = LiveRules
               /\ IF session'[t].pc = "main"
                  THEN session'[t].predicate = cohorts'["published"].predicate
                  ELSE session'[t].id = RunId(session'[t].predicate)
    <3>1. CASE t = s
      BY <1>1, <2>2, <2>3, <3>1 DEF SessionsSound
    <3>2. CASE t # s
      BY <1>1, <2>3, <3>2 DEF SessionsSound, SessionsAreNamed, At
    <3>3. QED
      BY <3>1, <3>2
  <2>6. SessionsSound'
    BY <2>4, <2>5 DEF SessionsSound, SessionsAreNamed, At
  <2>7. QED
    BY <1>1, <2>6, QuietKeepsTheInvariant
<1>3. CASE ~Loads(cohorts)
  BY <1>1, <1>3, StopKeepsSessions, QuietKeepsTheInvariant DEF ImportCohort
<1>4. QED
  BY <1>2, <1>3

\* The identifier of the published restatement is that of the live rules alone.
LEMMA StartKeeps ==
  ASSUME Assumptions, ReprocessInvariant, NEW s \in Operators, StartReprocess(s)
  PROVE  ReprocessInvariant'
<1>1. /\ SessionsSound /\ session[s] \in SessionStates /\ session[s].pc = "main"
      /\ UNCHANGED <<config, edits>> /\ UNCHANGED cohorts /\ UNCHANGED tables
      /\ mishaps' \in 0 .. MaxMishaps
  BY RunningKeeps DEF StartReprocess
<1>2. CASE /\ Loads(cohorts) /\ LoadsScoring(scoring) /\ rules # PriorRules
           /\ LegacyRunId(rules, scoring.rules) = LegacyRunId(LiveRules, LiveScoring)
  <2> DEFINE id == RunId(cohorts["published"].predicate)
             new == [session[s] EXCEPT !.pc = "size", !.rules = rules, !.id = id]
  <2>1. rules = LiveRules
    BY <1>2 DEF LegacyRunId
  <2>2. id \in RunIds /\ rules \in Versions
    BY DEF ReprocessInvariant, TypeOK, CohortKeys, Entry, RunIds
  <2>3. session[s].predicate = cohorts["published"].predicate
    BY <1>1 DEF SessionsSound, SessionsAreNamed, At
  <2>4. /\ new \in SessionStates /\ new.pc = "size" /\ new.rules = LiveRules
        /\ new.id = id /\ new.predicate = cohorts["published"].predicate
    BY <1>1, <2>1, <2>2, <2>3 DEF SessionStates, Steps
  <2>5. session' = [session EXCEPT ![s] = new]
    BY <1>1, <1>2 DEF StartReprocess, SessionsSound
  <2> HIDE DEF new
  <2>6. session' \in [Operators -> SessionStates]
    BY <1>1, <2>4, <2>5 DEF SessionsSound
  <2>7. ASSUME NEW t \in Operators
        PROVE  /\ session'[t].rules = LiveRules
               /\ IF session'[t].pc = "main"
                  THEN session'[t].predicate = cohorts'["published"].predicate
                  ELSE session'[t].id = RunId(session'[t].predicate)
    <3>1. CASE t = s
      BY <1>1, <2>4, <2>5, <3>1 DEF SessionsSound
    <3>2. CASE t # s
      BY <1>1, <2>5, <3>2 DEF SessionsSound, SessionsAreNamed, At
    <3>3. QED
      BY <3>1, <3>2
  <2>8. SessionsSound'
    BY <2>6, <2>7 DEF SessionsSound, SessionsAreNamed, At
  <2>9. QED
    BY <1>1, <2>8, QuietKeepsTheInvariant
<1>3. CASE ~(/\ Loads(cohorts) /\ LoadsScoring(scoring) /\ rules # PriorRules
             /\ LegacyRunId(rules, scoring.rules) = LegacyRunId(LiveRules, LiveScoring))
  BY <1>1, <1>3, StopKeepsSessions, QuietKeepsTheInvariant DEF StartReprocess
<1>4. QED
  BY <1>2, <1>3

\* A check goes on, or the program stops.
LEMMA ChecksKeep ==
  ASSUME Assumptions, ReprocessInvariant, NEW s \in Operators,
         CohortSize(s) \/ CheckShape(s) \/ CheckLost(s)
  PROVE  ReprocessInvariant'
<1>1. ASSUME NEW from \in Steps \ {"main"}, NEW to \in Steps \ {"main"}, NEW condition \in BOOLEAN,
             Runs(s, from), GotoIf(s, condition, to), UNCHANGED tables
      PROVE  ReprocessInvariant'
  <2>1. /\ SessionsSound /\ ~At(s, "main") /\ UNCHANGED <<config, edits>>
        /\ UNCHANGED cohorts /\ mishaps' \in 0 .. MaxMishaps
    BY <1>1, RunningKeeps DEF At
  <2>2. SessionsSound'
    BY <1>1, <2>1, GotoKeepsSessions, StopKeepsSessions DEF GotoIf
  <2>3. QED
    BY <1>1, <2>1, <2>2, QuietKeepsTheInvariant
<1>2. {"size", "pairs", "check_shape", "check_lost", "drop_pairs"} \subseteq Steps \ {"main"}
  BY DEF Steps
<1>3. CASE CohortSize(s)
  BY <1>1, <1>2, <1>3 DEF CohortSize
<1>4. CASE CheckShape(s)
  BY <1>1, <1>2, <1>4 DEF CheckShape
<1>5. CASE CheckLost(s)
  BY <1>1, <1>2, <1>5 DEF CheckLost
<1>6. QED
  BY <1>3, <1>4, <1>5

LEMMA AffectedPairsKeeps ==
  ASSUME Assumptions, ReprocessInvariant, NEW s \in Operators, AffectedPairs(s)
  PROVE  ReprocessInvariant'
<1> DEFINE read == {Names[l] : l \in Affected(session[s].predicate)}
           new == [session[s] EXCEPT !.pc = "land_pairs", !.read = read]
<1>1. /\ SessionsSound /\ session[s] \in SessionStates /\ session[s].pc = "pairs"
      /\ UNCHANGED <<config, edits>> /\ UNCHANGED cohorts /\ UNCHANGED tables
      /\ mishaps' \in 0 .. MaxMishaps
  BY RunningKeeps DEF AffectedPairs
<1>2. read \in SUBSET Pairs
  BY DEF Affected, Pairs
<1>3. session[s].rules = LiveRules /\ session[s].id = RunId(session[s].predicate)
  BY <1>1 DEF SessionsSound, SessionsAreNamed, At
<1>4. session' = [session EXCEPT ![s] = new]
  BY <1>1 DEF AffectedPairs, SessionsSound
<1> HIDE DEF read
<1>5. /\ new \in SessionStates /\ new.pc = "land_pairs" /\ new.rules = LiveRules
      /\ new.id = session[s].id /\ new.predicate = session[s].predicate
  BY <1>1, <1>2, <1>3 DEF SessionStates, Steps
<1> HIDE DEF new
<1>6. session' \in [Operators -> SessionStates]
  BY <1>1, <1>4, <1>5 DEF SessionsSound
<1>7. ASSUME NEW t \in Operators
      PROVE  /\ session'[t].rules = LiveRules
             /\ IF session'[t].pc = "main"
                THEN session'[t].predicate = cohorts'["published"].predicate
                ELSE session'[t].id = RunId(session'[t].predicate)
  <2>1. CASE t = s
    BY <1>1, <1>3, <1>4, <1>5, <2>1 DEF SessionsSound
  <2>2. CASE t # s
    BY <1>1, <1>4, <2>2 DEF SessionsSound, SessionsAreNamed, At
  <2>3. QED
    BY <2>1, <2>2
<1>8. SessionsSound'
  BY <1>6, <1>7 DEF SessionsSound, SessionsAreNamed, At
<1>9. QED
  BY <1>1, <1>8, QuietKeepsTheInvariant

\* A step over the tables keeps the invariant if the tables it leaves are sound.
LEMMA TablesKeepTheInvariant ==
  ASSUME Assumptions, ReprocessInvariant, SessionsSound', UNCHANGED <<config, edits>>,
         mishaps' \in 0 .. MaxMishaps,
         pairs' \in [rules : {LiveRules}, pairs : SUBSET Pairs] \cup {NoTable},
         index' \in {Transliterated[v] : v \in Versions} \cup {NoTable},
         restated' \in Tables, restated' # NoTable => IsOneRun(restated'),
         published' \in Tables, published' # NoTable => IsOneRun(published')
  PROVE  ReprocessInvariant'
<1>1. pairs' \in [rules : Versions, pairs : SUBSET Pairs] \cup {NoTable}
  BY DEF Assumptions, ReprocessAssumption
<1>2. TypeOK'
  BY <1>1 DEF ReprocessInvariant, TypeOK, SessionsSound, config
<1>3. TablesAreOneRun'
  <2>1. pairs' # NoTable => pairs'.rules = LiveRules
    OBVIOUS
  <2>2. QED
    BY <2>1 DEF TablesAreOneRun, IsOneRun
<1>4. RegistryDescribes' /\ cohorts' \in Definitions
  BY DEF ReprocessInvariant, RegistryDescribes, config
<1>5. QED
  BY <1>2, <1>3, <1>4 DEF ReprocessInvariant, SessionsSound

LEMMA TablesOfTheInvariant ==
  ASSUME ReprocessInvariant
  PROVE  /\ pairs \in [rules : {LiveRules}, pairs : SUBSET Pairs] \cup {NoTable}
         /\ index \in {Transliterated[v] : v \in Versions} \cup {NoTable}
         /\ restated \in Tables /\ (restated # NoTable => IsOneRun(restated))
         /\ published \in Tables /\ (published # NoTable => IsOneRun(published))
BY DEF ReprocessInvariant, TypeOK, TablesAreOneRun

LEMMA LandKeeps ==
  ASSUME Assumptions, ReprocessInvariant, NEW s \in Operators, LandPairs(s) \/ LandIndex(s)
  PROVE  ReprocessInvariant'
<1>1. /\ SessionsSound /\ session[s] \in SessionStates /\ ~At(s, "main")
      /\ UNCHANGED <<config, edits>> /\ UNCHANGED cohorts /\ mishaps' \in 0 .. MaxMishaps
  BY RunningKeeps DEF LandPairs, LandIndex, At
<1>2. {"land_index", "rebuild"} \subseteq Steps \ {"main"}
  BY DEF Steps
<1>3. SessionsSound'
  BY <1>1, <1>2, GotoKeepsSessions DEF LandPairs, LandIndex
<1>4. session[s].rules = LiveRules /\ session[s].read \in SUBSET Pairs
  BY <1>1 DEF SessionsSound, SessionsAreNamed, SessionStates
<1>5. CASE LandPairs(s)
  <2>1. pairs' \in [rules : {LiveRules}, pairs : SUBSET Pairs]
    BY <1>4, <1>5 DEF LandPairs
  <2>2. QED
    BY <1>1, <1>3, <1>5, <2>1, TablesOfTheInvariant, TablesKeepTheInvariant DEF LandPairs
<1>6. CASE LandIndex(s)
  <2>1. index' \in {Transliterated[v] : v \in Versions}
    BY <1>4, <1>6 DEF LandIndex, Assumptions, ReprocessAssumption
  <2>2. QED
    BY <1>1, <1>3, <1>6, <2>1, TablesOfTheInvariant, TablesKeepTheInvariant DEF LandIndex
<1>7. QED
  BY <1>5, <1>6

LEMMA DropKeeps ==
  ASSUME Assumptions, ReprocessInvariant, NEW s \in Operators, DropPairs(s) \/ DropIndex(s)
  PROVE  ReprocessInvariant'
<1>1. /\ SessionsSound /\ ~At(s, "main") /\ UNCHANGED <<config, edits>>
      /\ UNCHANGED cohorts /\ mishaps' \in 0 .. MaxMishaps
  BY RunningKeeps DEF DropPairs, DropIndex, At
<1>2. SessionsSound'
  BY <1>1, GotoKeepsSessions, StopKeepsSessions DEF DropPairs, DropIndex, Steps
<1>3. QED
  BY <1>1, <1>2, TablesOfTheInvariant, TablesKeepTheInvariant DEF DropPairs, DropIndex

\* The table is rebuilt from the pairs that are there, which may be another run's; but it is
\* replaced whole, and recomputed where the cohort of the run that rebuilds it is.
LEMMA RebuiltIsSound ==
  ASSUME Assumptions, ReprocessInvariant, NEW s \in Operators, At(s, "rebuild"),
         NoTable \notin {pairs, index}
  PROVE  Rebuilt(s) \in Tables /\ IsOneRun(Rebuilt(s))
<1> DEFINE affected == Affected(session[s].predicate)
           rows == [l \in Listens |-> IF l \in affected THEN Recomputed(l) ELSE Copied(l)]
<1>1. /\ session[s] \in SessionStates /\ session[s].rules = LiveRules
      /\ session[s].id = RunId(session[s].predicate)
  BY DEF ReprocessInvariant, TypeOK, SessionsAreNamed, At
<1>2. pairs.rules = LiveRules /\ pairs.pairs \subseteq Pairs /\ LiveRules \in Versions
  BY DEF ReprocessInvariant, TypeOK, TablesAreOneRun, Assumptions, ReprocessAssumption
<1>3. ASSUME NEW l \in Listens
      PROVE  /\ Recomputed(l) \in [copies : 0 .. MaxCopies, recomputed : BOOLEAN, outcome : Outcomes]
             /\ Recomputed(l).recomputed
             /\ Recomputed(l).outcome =
                  Decide(LiveRules, PythonHash(Names[l]), Recomputed(l).copies)
  BY <1>2, CopiesTyped, DecisionsTyped DEF Recomputed
<1>4. ASSUME NEW l \in Listens
      PROVE  /\ Copied(l) \in [copies : 0 .. MaxCopies, recomputed : BOOLEAN, outcome : Outcomes]
             /\ ~Copied(l).recomputed /\ Copied(l).outcome = Matches[l]
  BY DEF Copied, MaxCopies, Assumptions, ReprocessAssumption
<1>5. /\ Rebuilt(s).rows = rows /\ Rebuilt(s).rules = LiveRules
      /\ Rebuilt(s).id = RunId(session[s].predicate)
      /\ Rebuilt(s) = [rows |-> rows, rules |-> LiveRules, id |-> RunId(session[s].predicate)]
  BY <1>1 DEF Rebuilt
<1>6. session[s].predicate \in Predicates
  BY <1>1 DEF SessionStates
<1>7. affected \subseteq Listens
  BY DEF Affected
<1> HIDE DEF affected
<1>8. Rebuilt(s) \in Tables
  <2>1. rows \in Rows
    BY <1>3, <1>4 DEF Rows
  <2>2. QED
    BY <1>2, <1>5, <1>6, <2>1 DEF Tables, RunIds
<1>9. RecomputedIn(Rebuilt(s)) = affected
  BY <1>3, <1>4, <1>5, <1>7 DEF RecomputedIn
<1>10. ASSUME NEW l \in Listens
       PROVE  Rebuilt(s).rows[l].outcome =
                IF Rebuilt(s).rows[l].recomputed
                THEN Decide(LiveRules, PythonHash(Names[l]), Rebuilt(s).rows[l].copies)
                ELSE Matches[l]
  BY <1>3, <1>4, <1>5
<1>11. QED
  BY <1>5, <1>6, <1>8, <1>9, <1>10 DEF IsOneRun, affected

LEMMA RebuildKeeps ==
  ASSUME Assumptions, ReprocessInvariant, NEW s \in Operators, Rebuild(s)
  PROVE  ReprocessInvariant'
<1>1. /\ SessionsSound /\ At(s, "rebuild") /\ ~At(s, "main") /\ UNCHANGED <<config, edits>>
      /\ UNCHANGED cohorts /\ UNCHANGED <<pairs, index, published>>
      /\ mishaps' \in 0 .. MaxMishaps
  BY RunningKeeps DEF Rebuild, At
<1>2. CASE NoTable \in {pairs, index}
  <2>1. SessionsSound' /\ UNCHANGED restated
    BY <1>1, <1>2, StopKeepsSessions DEF Rebuild
  <2>2. QED
    BY <1>1, <2>1, TablesOfTheInvariant, TablesKeepTheInvariant
<1>3. CASE NoTable \notin {pairs, index}
  <2>1. restated' = Rebuilt(s) /\ SessionsSound'
    BY <1>1, <1>3, GotoKeepsSessions DEF Rebuild, Steps
  <2>2. restated' \in Tables /\ IsOneRun(restated')
    BY <1>1, <1>3, <2>1, RebuiltIsSound
  <2>3. QED
    BY <1>1, <2>1, <2>2, TablesOfTheInvariant, TablesKeepTheInvariant
<1>4. QED
  BY <1>2, <1>3

LEMMA PublishKeeps ==
  ASSUME Assumptions, ReprocessInvariant, NEW s \in Operators,
         StartPublish(s) \/ BuildPublication(s)
  PROVE  ReprocessInvariant'
<1>1. /\ SessionsSound /\ ~At(s, "main") /\ UNCHANGED <<config, edits>>
      /\ UNCHANGED cohorts /\ mishaps' \in 0 .. MaxMishaps
  BY RunningKeeps DEF StartPublish, BuildPublication, At
<1>2. "build" \in Steps \ {"main"}
  BY DEF Steps
<1>3. SessionsSound'
  BY <1>1, <1>2, GotoKeepsSessions, StopKeepsSessions DEF StartPublish, BuildPublication
<1>4. CASE StartPublish(s)
  BY <1>1, <1>3, <1>4, QuietKeepsTheInvariant DEF StartPublish
<1>5. CASE BuildPublication(s)
  BY <1>1, <1>3, <1>5, TablesOfTheInvariant, TablesKeepTheInvariant DEF BuildPublication
<1>6. QED
  BY <1>4, <1>5

LEMMA AbortKeeps ==
  ASSUME Assumptions, ReprocessInvariant, NEW s \in Operators, Abort(s)
  PROVE  ReprocessInvariant'
<1>1. SessionsSound /\ UNCHANGED cohorts
  BY DEF Abort, config, ReprocessInvariant, TypeOK, SessionsSound
<1>2. SessionsSound'
  BY <1>1, StopKeepsSessions DEF Abort
<1>3. mishaps' \in 0 .. MaxMishaps
  BY DEF Abort, ReprocessInvariant, TypeOK, Assumptions, ReprocessAssumption
<1>4. QED
  BY <1>2, <1>3, QuietKeepsTheInvariant DEF Abort

-----------------------------------------------------------------------------
(* The developer *)

LEMMA EditRulesKeeps ==
  ASSUME Assumptions, ReprocessInvariant, EditRules \/ EditScoring
  PROVE  ReprocessInvariant'
<1>1. edits' \in 0 .. MaxEdits
  BY DEF EditRules, EditScoring, Edit, ReprocessInvariant, TypeOK, Assumptions, ReprocessAssumption
<1>2. /\ rules' \in Versions
      /\ scoring' \in [rules : ScoringRules, recorded : ScoringRules]
  BY DEF EditRules, EditScoring, ReprocessInvariant, TypeOK
<1>3. UNCHANGED <<cohorts, registry, tables, session, mishaps>>
  BY DEF EditRules, EditScoring
<1>4. TypeOK'
  BY <1>1, <1>2, <1>3 DEF ReprocessInvariant, TypeOK, tables
<1>5. SessionsAreNamed' /\ RegistryDescribes' /\ cohorts' \in Definitions
  BY <1>3 DEF ReprocessInvariant, SessionsAreNamed, RegistryDescribes, At
<1>6. TablesAreOneRun'
  BY <1>3 DEF ReprocessInvariant, TablesAreOneRun, tables
<1>7. QED
  BY <1>4, <1>5, <1>6 DEF ReprocessInvariant

\* No program is between its two reads of the file while it is edited.
LEMMA EditCohortKeeps ==
  ASSUME Assumptions, ReprocessInvariant, EditCohort
  PROVE  ReprocessInvariant'
<1>1. edits' \in 0 .. MaxEdits
  BY DEF EditCohort, Edit, ReprocessInvariant, TypeOK, Assumptions, ReprocessAssumption
<1> DEFINE old == cohorts["published"]
           Edited(p, update) ==
             [old EXCEPT !.predicate = p,
                         !.recorded = IF "recorded" \in update THEN Digest(p) ELSE old.recorded,
                         !.measured = IF "measured" \in update THEN Measured(p) ELSE old.measured]
<1>2. PICK p \in Predicates, update \in SUBSET {"recorded", "measured"} :
        cohorts' = [cohorts EXCEPT !["published"] = Edited(p, update)]
  <2>1. cohorts \in [CohortKeys -> Entry] /\ "published" \in CohortKeys
    BY DEF ReprocessInvariant, TypeOK, CohortKeys
  <2>2. QED
    BY <2>1 DEF EditCohort
<1>3. UNCHANGED <<rules, scoring, registry, tables, session, mishaps>> /\ Settled
  BY DEF EditCohort, Edit
<1>4. cohorts' \in Definitions
  <2>1. cohorts \in [CohortKeys -> Entry] /\ cohorts["published"] \in Entry
    BY DEF ReprocessInvariant, TypeOK, CohortKeys
  <2>2. Measured(p) \in Nat /\ Digest(p) \in Predicates \cup {NoDigest}
    BY CohortsAreMeasured DEF Digest
  <2> DEFINE new == Edited(p, update)
  <2>3. new \in Entry /\ new.mart = cohorts["published"].mart
    BY <2>1, <2>2 DEF Entry
  <2>4. cohorts' = [cohorts EXCEPT !["published"] = new]
    BY <1>2
  <2> HIDE DEF new
  <2>5. QED
    BY <2>1, <2>3, <2>4 DEF ReprocessInvariant, Definitions, CohortKeys
<1>5. TypeOK'
  BY <1>1, <1>3, <1>4 DEF ReprocessInvariant, TypeOK, tables, Definitions
<1>6. SessionsAreNamed'
  BY <1>3 DEF ReprocessInvariant, SessionsAreNamed, Settled, At
<1>7. RegistryDescribes' /\ TablesAreOneRun'
  BY <1>3 DEF ReprocessInvariant, RegistryDescribes, TablesAreOneRun, tables
<1>8. QED
  BY <1>4, <1>5, <1>6, <1>7 DEF ReprocessInvariant

LEMMA RowsAreEntries ==
  ASSUME Assumptions, NEW c \in Definitions
  PROVE  RegistryRows(c) \subseteq RegistryEntries
<1>1. ASSUME NEW key \in CohortKeys
      PROVE  CohortRow(key, c[key]) \in RegistryEntries
  <2>1. c[key].predicate \in Predicates /\ c[key].mart \in {"legacy", NoRun}
    BY DEF Definitions, Entry
  <2>2. CohortRow(key, c[key]) =
          CohortRow(key, [predicate |-> c[key].predicate, mart |-> c[key].mart])
    BY DEF CohortRow
  <2>3. QED
    BY <2>1, <2>2 DEF RegistryEntries
<1>2. ASSUME NEW run \in LegacyRuns
      PROVE  LegacyRow(run) \in RegistryEntries
  BY DEF RegistryEntries
<1>3. QED
  BY <1>1, <1>2 DEF RegistryRows

LEMMA BuildRegistryKeeps ==
  ASSUME Assumptions, ReprocessInvariant, BuildRegistry
  PROVE  ReprocessInvariant'
<1>1. registry' = RegistryRows(cohorts) /\ cohorts \in Definitions
  BY DEF BuildRegistry, ReprocessInvariant
<1>2. registry' \subseteq RegistryEntries
  BY <1>1, RowsAreEntries
<1>3. UNCHANGED <<cohorts, rules, scoring, tables, session, edits, mishaps>>
  BY DEF BuildRegistry
<1>4. TypeOK' /\ RegistryDescribes' /\ cohorts' \in Definitions
  BY <1>1, <1>2, <1>3 DEF ReprocessInvariant, TypeOK, RegistryDescribes, tables
<1>5. SessionsAreNamed' /\ TablesAreOneRun'
  BY <1>3 DEF ReprocessInvariant, SessionsAreNamed, At, TablesAreOneRun, tables
<1>6. QED
  BY <1>4, <1>5 DEF ReprocessInvariant

LEMMA InitKeeps ==
  ASSUME Assumptions, Init
  PROVE  ReprocessInvariant
<1>1. AsCommitted \in Definitions
  <2>1. \A p \in {Frozen, Rejected} : p \in Predicates /\ Measured(p) \in Nat /\ Digest(p) = p
    BY CohortsAreMeasured DEF Assumptions, ReprocessAssumption, Digest
  <2>2. AsCommitted \in [CohortKeys -> Entry]
    BY <2>1 DEF AsCommitted, Entry
  <2>3. QED
    BY <2>2 DEF AsCommitted, Definitions, CohortKeys
<1>2. /\ cohorts \in Definitions /\ RegistryDescribes /\ registry \subseteq RegistryEntries
  BY <1>1, RowsAreEntries DEF Init, RegistryDescribes
<1>3. Resting \in SessionStates /\ Resting.pc = "idle" /\ Resting.rules = LiveRules
      /\ Resting.id = RunId(Resting.predicate)
  <2>1. Resting = [Resting EXCEPT !.outcome = "none"]
    BY DEF Resting
  <2>2. QED
    BY <2>1, RestingIsTyped
<1>4. session \in [Operators -> SessionStates] /\ SessionsAreNamed
  BY <1>3 DEF Init, SessionsAreNamed, At
<1>5. TypeOK
  BY <1>2, <1>4 DEF Init, TypeOK, Tables, Definitions, Assumptions, ReprocessAssumption
<1>6. TablesAreOneRun
  BY DEF Init, TablesAreOneRun
<1>7. QED
  BY <1>2, <1>4, <1>5, <1>6 DEF ReprocessInvariant

LEMMA NextKeeps ==
  ASSUME Assumptions, ReprocessInvariant, [Next]_vars
  PROVE  ReprocessInvariant'
<1>1. CASE UNCHANGED vars
  <2>1. UNCHANGED <<config, tables, session, edits, mishaps>>
    BY <1>1 DEF vars
  <2>2. SessionsSound' /\ mishaps' \in 0 .. MaxMishaps
    BY <2>1 DEF ReprocessInvariant, TypeOK, SessionsSound, SessionsAreNamed, At, config
  <2>3. QED
    BY <2>1, <2>2, QuietKeepsTheInvariant
<1>2. ASSUME NEW s \in Operators, ReprocessCohort(s)
      PROVE  ReprocessInvariant'
  BY <1>2, ImportKeeps, StartKeeps, ChecksKeep, AffectedPairsKeeps, LandKeeps, RebuildKeeps, DropKeeps
     DEF ReprocessCohort
<1>3. ASSUME NEW s \in Operators, StartPublish(s) \/ BuildPublication(s) \/ Abort(s)
      PROVE  ReprocessInvariant'
  BY <1>3, PublishKeeps, AbortKeeps
<1>4. CASE EditCohort \/ EditRules \/ EditScoring \/ BuildRegistry
  BY <1>4, EditCohortKeeps, EditRulesKeeps, BuildRegistryKeeps
<1>5. QED
  BY <1>1, <1>2, <1>3, <1>4 DEF Next

LEMMA ReprocessIsInvariant == Spec => []ReprocessInvariant
<1>1. Assumptions
  BY ReprocessAssumption, DomainsAssumption DEF Assumptions
<1>2. Init => ReprocessInvariant
  BY <1>1, InitKeeps
<1>3. ReprocessInvariant /\ [Next]_vars => ReprocessInvariant'
  BY <1>1, NextKeeps
<1>4. QED
  BY <1>2, <1>3, PTL DEF Spec

-----------------------------------------------------------------------------
(* The theorems *)

\* Reprocessing keeps its types, over two staging tables that every run shares: no listen
\* joins more pairs than its names have forms, whatever another run landed (reprocess_cohort.py).
THEOREM ReprocessTypeCorrect == Spec => []TypeOK
<1>1. ReprocessInvariant => TypeOK
  BY DEF ReprocessInvariant
<1>2. QED
  BY <1>1, ReprocessIsInvariant, PTL

\* So many rows as listens, and of so many listens: one of each.
LEMMA OneRowOfEach ==
  ASSUME Assumptions, NEW table \in Tables, table # NoTable, OneRowPerListen(table)
  PROVE  \A l \in Listens : table.rows[l].copies = 1
<1> DEFINE N == Cardinality(Listens)
           there == {l \in Listens : table.rows[l].copies > 0}
           T == UNION {{l} \X (1 .. table.rows[l].copies) : l \in Listens}
           D == Listens \X {1}
<1>1. IsFiniteSet(Listens) /\ N \in Nat
  BY FS_CardinalityType DEF Assumptions, DomainsAssumption
<1>2. table.rows \in Rows
  BY DEF Tables
<1>3. \A l \in Listens : table.rows[l].copies \in 0 .. MaxCopies
  BY <1>2 DEF Rows
<1>4. Cardinality(T) = N /\ Cardinality(there) = N
  BY DEF OneRowPerListen, TotalRows, DistinctListens
<1>5. there = Listens
  <2>1. there \in SUBSET Listens
    OBVIOUS
  <2>2. QED
    BY <1>1, <1>4, <2>1, FS_Subset
<1>6. IsFiniteSet(D) /\ Cardinality(D) = N
  <2>1. IsFiniteSet({1}) /\ Cardinality({1}) = 1
    BY FS_Singleton
  <2>2. IsFiniteSet(D) /\ Cardinality(D) = N * Cardinality({1})
    BY <1>1, <2>1, FS_Product
  <2>3. QED
    BY <1>1, <2>1, <2>2
<1>7. \A l \in Listens, k \in 1 .. MaxCopies : k <= table.rows[l].copies => <<l, k>> \in T
  <2>1. SUFFICES ASSUME NEW l \in Listens, NEW k \in 1 .. MaxCopies, k <= table.rows[l].copies
                 PROVE  <<l, k>> \in {l} \X (1 .. table.rows[l].copies)
    OBVIOUS
  <2>2. QED
    BY <1>3, <2>1 DEF MaxCopies
<1>8. \A d \in D : d \in T
  BY <1>3, <1>5, <1>7 DEF MaxCopies
<1>9. T \subseteq Listens \X (1 .. MaxCopies)
  BY <1>3 DEF MaxCopies
<1>10. IsFiniteSet(T)
  <2>1. IsFiniteSet(1 .. MaxCopies)
    <3>1. 1 \in Int /\ MaxCopies \in Int
      BY DEF MaxCopies
    <3>2. QED
      BY <3>1, FS_Interval
  <2>2. IsFiniteSet(Listens \X (1 .. MaxCopies))
    BY <1>1, <2>1, FS_Product
  <2>3. QED
    BY <1>9, <2>2, FS_Subset
<1>11. T = D
  <2>1. D \in SUBSET T
    BY <1>8
  <2>2. QED
    BY <1>4, <1>6, <1>10, <2>1, FS_Subset
<1>12. SUFFICES ASSUME NEW l \in Listens PROVE table.rows[l].copies = 1
  OBVIOUS
<1>13. <<l, 2>> \notin T
  BY <1>11
<1>14. ~(2 <= table.rows[l].copies)
  BY <1>7, <1>13 DEF MaxCopies
<1>15. QED
  BY <1>3, <1>5, <1>14 DEF MaxCopies

LEMMA ReprocessingDoesNotPublish ==
  ASSUME session \in [Operators -> SessionStates], NEW s \in Operators, ReprocessCohort(s)
  PROVE  \E new : session' = [session EXCEPT ![s] = new] /\ new.pc # "build"
<1>1. session[s] \in SessionStates
  OBVIOUS
<1>2. ASSUME NEW pc \in Steps \ {"build"}, Goto(s, pc)
      PROVE  session' = [session EXCEPT ![s] = [session[s] EXCEPT !.pc = pc]]
             /\ [session[s] EXCEPT !.pc = pc].pc # "build"
  BY <1>1, <1>2 DEF Goto, SessionStates
<1>3. ASSUME NEW o, Stop(s, o)
      PROVE  session' = [session EXCEPT ![s] = [Resting EXCEPT !.outcome = o]]
             /\ [Resting EXCEPT !.outcome = o].pc # "build"
  BY <1>3 DEF Stop, Resting
<1>4. {"pairs", "land_index", "rebuild", "check_shape", "check_lost", "drop_pairs", "drop_index"}
        \subseteq Steps \ {"build"}
  BY DEF Steps
<1>5. CASE ImportCohort(s)
  <2> DEFINE new == [Resting EXCEPT !.pc = "main", !.predicate = cohorts["published"].predicate,
                                    !.measured = cohorts["published"].measured]
  <2>1. new.pc # "build"
    BY DEF Resting
  <2>2. session' = [session EXCEPT ![s] = new] \/ Stop(s, "refused")
    BY <1>5 DEF ImportCohort
  <2> HIDE DEF new
  <2>3. QED
    BY <1>3, <2>1, <2>2
<1>6. CASE StartReprocess(s)
  <2> DEFINE id == RunId(cohorts["published"].predicate)
             new == [session[s] EXCEPT !.pc = "size", !.rules = rules, !.id = id]
  <2>1. new.pc # "build"
    BY <1>1 DEF SessionStates
  <2>2. session' = [session EXCEPT ![s] = new] \/ Stop(s, "refused")
    BY <1>6 DEF StartReprocess
  <2> HIDE DEF new
  <2>3. QED
    BY <1>3, <2>1, <2>2
<1>7. CASE AffectedPairs(s)
  <2> DEFINE read == {Names[l] : l \in Affected(session[s].predicate)}
             new == [session[s] EXCEPT !.pc = "land_pairs", !.read = read]
  <2>1. session' = [session EXCEPT ![s] = new]
    BY <1>7 DEF AffectedPairs
  <2> HIDE DEF read
  <2>2. new.pc # "build"
    BY <1>1 DEF SessionStates
  <2> HIDE DEF new
  <2>3. QED
    BY <2>1, <2>2
<1>8. CASE CohortSize(s) \/ CheckShape(s) \/ CheckLost(s)
  BY <1>2, <1>3, <1>4, <1>8 DEF CohortSize, CheckShape, CheckLost, GotoIf
<1>9. CASE LandPairs(s) \/ LandIndex(s) \/ Rebuild(s) \/ DropPairs(s) \/ DropIndex(s)
  BY <1>2, <1>3, <1>4, <1>9 DEF LandPairs, LandIndex, Rebuild, DropPairs, DropIndex
<1>10. QED
  BY <1>5, <1>6, <1>7, <1>8, <1>9 DEF ReprocessCohort

\* The publisher of the restatement accepts only exact tables, whatever any number of runs
\* did to the table and to the staging tables they share, dying or refused anywhere, and
\* whatever was edited meanwhile: one cohort's listens decided once under the live rules, and
\* every other listen as pub:v1 matched it (publish_restatement.py).
THEOREM AcceptedTablesAreExact == Spec => AcceptedIsExact
<1> DEFINE Accepts == \A s \in Operators : At(s, "idle") /\ session'[s].pc = "build" => IsExact(restated)
<1>1. Assumptions
  BY ReprocessAssumption, DomainsAssumption DEF Assumptions
<1>2. ASSUME Assumptions, ReprocessInvariant, Next
      PROVE  Accepts
  <2>1. SUFFICES ASSUME NEW s \in Operators, At(s, "idle"), session'[s].pc = "build"
                 PROVE  IsExact(restated)
    OBVIOUS
  <2>2. session \in [Operators -> SessionStates]
    BY <1>2 DEF ReprocessInvariant, TypeOK
  <2>3. ~UNCHANGED session /\ session[s].pc = "idle"
    BY <2>1 DEF At
  <2>4. \A o : [Resting EXCEPT !.outcome = o].pc = "idle"
    BY DEF Resting
  <2>5. restated # NoTable /\ OneRowPerListen(restated)
    <3>1. ASSUME NEW t \in Operators, NEW new, session' = [session EXCEPT ![t] = new],
                 new.pc # "build"
          PROVE  FALSE
      BY <2>1, <2>2, <2>3, <3>1
    <3>2. ASSUME NEW t \in Operators, NEW o, Stop(t, o)
          PROVE  FALSE
      BY <2>4, <3>1, <3>2 DEF Stop
    <3>3. ASSUME NEW t \in Operators, StartPublish(t)
          PROVE  restated # NoTable /\ OneRowPerListen(restated)
      BY <3>2, <3>3 DEF StartPublish, CoversEveryListen
    <3>4. ASSUME NEW t \in Operators, ReprocessCohort(t)
          PROVE  FALSE
      BY <2>2, <3>1, <3>4, ReprocessingDoesNotPublish
    <3>5. ~UNCHANGED session
      BY <2>3
    <3>6. QED
      BY <1>2, <3>2, <3>3, <3>4, <3>5
         DEF Next, BuildPublication, Abort, EditCohort, EditRules, EditScoring, BuildRegistry
  <2>6. IsOneRun(restated) /\ restated \in Tables
    BY <1>2, <2>5 DEF ReprocessInvariant, TypeOK, TablesAreOneRun
  <2>7. \A l \in Listens : restated.rows[l].copies = 1
    BY <1>2, <2>5, <2>6, OneRowOfEach
  <2>8. QED
    BY <2>6, <2>7 DEF IsOneRun, IsExact
<1>3. Assumptions /\ ReprocessInvariant /\ [Next]_vars => [Accepts]_vars
  BY <1>2
<1>4. QED
  BY <1>1, <1>3, ReprocessIsInvariant, PTL DEF Spec, AcceptedIsExact

\* The rows of the registry that describe a cohort, and what they hold.
LEMMA RegistryHoldsTwoRuns ==
  ASSUME Assumptions, NEW c \in Definitions
  PROVE  LET p == c["published"].predicate
             r == c["rejected"].predicate
             published_row == CohortRow("published", c["published"])
             rejected_row == CohortRow("rejected", c["rejected"])
         IN  /\ p \in Predicates /\ r \in Predicates
             /\ {row \in RegistryRows(c) : row.cohort # {}} = {published_row, rejected_row}
             /\ UNION {row.cohort : row \in RegistryRows(c)} = {p, r}
             /\ published_row.key = "published" /\ rejected_row.key = "rejected"
             /\ published_row.canonical = {RunId(p)} /\ rejected_row.canonical = {RunId(r)}
             /\ published_row.cohort = {p} /\ rejected_row.cohort = {r}
             /\ published_row.legacy = rejected_row.legacy
             /\ published_row.mart # NoRun /\ rejected_row.mart = NoRun
<1> DEFINE p == c["published"].predicate
           r == c["rejected"].predicate
           a == CohortRow("published", c["published"])
           b == CohortRow("rejected", c["rejected"])
<1>1. /\ a.key = "published" /\ b.key = "rejected"
      /\ a.canonical = {RunId(p)} /\ b.canonical = {RunId(r)}
      /\ a.cohort = {p} /\ b.cohort = {r} /\ a.legacy = b.legacy
      /\ a.mart = c["published"].mart /\ b.mart = c["rejected"].mart
  BY DEF CohortRow, Digest
<1>2. a.mart # NoRun /\ b.mart = NoRun
  BY <1>1 DEF Definitions, Assumptions, DomainsAssumption
<1>3. p \in Predicates /\ r \in Predicates
  BY DEF Definitions, CohortKeys, Entry
<1>4. RegistryRows(c) = {a, b} \cup {LegacyRow(run) : run \in LegacyRuns}
  BY DEF RegistryRows, CohortKeys
<1>5. \A run \in LegacyRuns : LegacyRow(run).cohort = {}
  BY DEF LegacyRow
<1> HIDE DEF a, b
<1>6. {row \in RegistryRows(c) : row.cohort # {}} = {a, b}
  BY <1>1, <1>4, <1>5
<1>7. UNION {row.cohort : row \in RegistryRows(c)} = {p, r}
  BY <1>1, <1>4, <1>5
<1>8. QED
  BY <1>1, <1>2, <1>3, <1>6, <1>7 DEF a, b

LEMMA RegistrySeparates ==
  ASSUME Assumptions, NEW c \in Definitions,
         Cardinality(UNION {row.cohort : row \in RegistryRows(c)}) = 2
  PROVE  SeparatesCohorts(RegistryRows(c))
<1> DEFINE p == c["published"].predicate
           r == c["rejected"].predicate
           a == CohortRow("published", c["published"])
           b == CohortRow("rejected", c["rejected"])
           runs == {row \in RegistryRows(c) : row.cohort # {}}
<1>1. /\ runs = {a, b} /\ UNION {row.cohort : row \in RegistryRows(c)} = {p, r}
      /\ a.key # b.key /\ a.canonical = {RunId(p)} /\ b.canonical = {RunId(r)}
      /\ a.cohort = {p} /\ b.cohort = {r} /\ a.legacy = b.legacy
      /\ a.mart # NoRun /\ b.mart = NoRun
  BY RegistryHoldsTwoRuns
<1> HIDE DEF p, r, a, b, runs
<1>2. p # r
  <2>1. Cardinality({p, r}) = 2
    BY <1>1
  <2>2. QED
    BY <2>1, TwoElements
<1>3. Cardinality(runs) = 2
  BY <1>1, TwoElements
<1>4. Cardinality({row.canonical : row \in runs}) = 2
  <2>1. {row.canonical : row \in runs} = {{RunId(p)}, {RunId(r)}}
    BY <1>1
  <2>2. RunId(p) # RunId(r)
    <3>1. RunId(p).cohort = p /\ RunId(r).cohort = r
      BY DEF RunId, CanonicalInputs, Digest
    <3>2. QED
      BY <1>2, <3>1
  <2>3. {RunId(p)} # {RunId(r)}
    BY <2>2
  <2>4. Cardinality({{RunId(p)}, {RunId(r)}}) = 2
    BY <2>3, TwoElements
  <2>5. QED
    BY <2>1, <2>4
<1>5. Cardinality({row.cohort : row \in runs}) = 2
  <2>1. {row.cohort : row \in runs} = {{p}, {r}}
    BY <1>1
  <2>2. {p} # {r}
    BY <1>2
  <2>3. Cardinality({{p}, {r}}) = 2
    BY <2>2, TwoElements
  <2>4. QED
    BY <2>1, <2>3
<1>6. Cardinality({row.legacy : row \in runs}) = 1
  <2>1. {row.legacy : row \in runs} = {a.legacy}
    BY <1>1
  <2>2. QED
    BY <2>1, FS_Singleton
<1>7. Cardinality({row \in runs : row.mart # NoRun}) = 1
  <2>1. {row \in runs : row.mart # NoRun} = {a}
    BY <1>1
  <2>2. QED
    BY <2>1, FS_Singleton
<1>8. Cardinality({row \in runs : row.mart = NoRun}) = 1
  <2>1. {row \in runs : row.mart = NoRun} = {b}
    BY <1>1
  <2>2. QED
    BY <2>1, FS_Singleton
<1>9. QED
  BY <1>3, <1>4, <1>5, <1>6, <1>7, <1>8 DEF SeparatesCohorts, runs

\* An identifier tells cohorts apart, over time and between the table and the registry,
\* however often the definitions were edited since a table was rebuilt or the registry was
\* built; and the registry fails its assertion only if its cohorts are one (identity.py).
THEOREM IdentifiersTellCohortsApart == Spec => []IdsTellCohortsApart
<1>1. Assumptions
  BY ReprocessAssumption, DomainsAssumption DEF Assumptions
<1>2. ASSUME ReprocessInvariant
      PROVE  IdsTellCohortsApart
  <2>1. PICK c \in Definitions : registry = RegistryRows(c)
    BY <1>2 DEF ReprocessInvariant, RegistryDescribes
  <2>2. ASSUME NEW row \in registry, NEW table \in {restated, published} \ {NoTable},
               table.id \in row.canonical, NEW p \in row.cohort
        PROVE  RecomputedIn(table) = Affected(p)
    <3>1. PICK key \in CohortKeys : row = CohortRow(key, c[key])
      BY <2>1, <2>2 DEF RegistryRows, LegacyRow
    <3>2. row.canonical = {RunId(c[key].predicate)} /\ p = c[key].predicate
      BY <2>2, <3>1 DEF CohortRow, Digest
    <3>3. PICK q \in Predicates : table.id = RunId(q) /\ RecomputedIn(table) = Affected(q)
      BY <1>2, <2>2 DEF ReprocessInvariant, TablesAreOneRun, IsOneRun
    <3>4. p = q
      BY <2>2, <3>2, <3>3 DEF RunId, CanonicalInputs, Digest
    <3>5. QED
      BY <3>3, <3>4
  <2>3. Cardinality(UNION {row.cohort : row \in registry}) = 2 => SeparatesCohorts(registry)
    BY <1>1, <2>1, RegistrySeparates
  <2>4. QED
    BY <2>2, <2>3 DEF IdsTellCohortsApart
<1>3. QED
  BY <1>2, ReprocessIsInvariant, PTL

-----------------------------------------------------------------------------
(* What is matched, and why not *)

\* Every listen of pub:v1 can be scored.
LEMMA ListensAreUsable ==
  ASSUME Assumptions, NEW l \in Listens
  PROVE  LET pair == PythonHash(Names[l]) IN
         Usable(LiveScoring, BlockedAs(pair), FeaturesOf[pair])
<1> DEFINE pair == PythonHash(Names[l])
           exact == WithKey(PriorRules, pair, BlockingIndex)
<1>1. pair \in HashedPairs
  BY DEF HashedPairs, Pairs
<1>2. exact \subseteq Recordings /\ FallbackOf[pair] \subseteq Recordings
  <2>1. BlockingIndex \subseteq Recordings \X Keys
    BY DEF Assumptions, ReprocessAssumption
  <2>2. exact \subseteq Recordings
    BY <2>1 DEF WithKey
  <2>3. QED
    BY <1>1, <2>2 DEF Assumptions, ReprocessAssumption
<1>3. /\ BlockedAs(pair).candidates \subseteq Recordings
      /\ BlockedAs(pair)
           = [block |-> BlockedAs(pair).block, candidates |-> BlockedAs(pair).candidates]
  <2> HIDE DEF pair
  <2>1. QED
    BY <1>2 DEF BlockedAs, Blocked
<1>4. /\ IsFiniteSet(BlockedAs(pair).candidates)
      /\ Absent \notin BlockedAs(pair).candidates
  BY <1>3, FS_Subset DEF Assumptions, DomainsAssumption
<1>5. ASSUME NEW r \in BlockedAs(pair).candidates
      PROVE  ScoredBy(LiveScoring, FeaturesOf[pair][r])
  <2>1. FeaturesOf[pair][r] \in [ScoredFeatures -> 0 .. 100 \cup {Absent}]
    BY <1>1, <1>3 DEF Assumptions, ReprocessAssumption
  <2>2. DOMAIN LiveScoring.weights \subseteq ScoredFeatures
    BY DEF Assumptions, ReprocessAssumption, LoadsScoring
  <2>3. /\ IsFiniteSet(DOMAIN LiveScoring.weights)
        /\ \A f \in DOMAIN LiveScoring.weights : LiveScoring.weights[f] \in Nat
    BY DEF Assumptions, DomainsAssumption
  <2>4. \A f \in ScoredFeatures : FeaturesOf[pair][r][f] \in Int \cup {Absent}
    BY <2>1
  <2> HIDE DEF pair
  <2>5. QED
    BY <2>2, <2>3, <2>4 DEF ScoredBy
<1>6. {LiveScoring.exact, LiveScoring.fallback, LiveScoring.margin, LiveScoring.epsilon}
        \subseteq Nat
  BY DEF Assumptions, DomainsAssumption
<1>7. Usable(LiveScoring, BlockedAs(pair), FeaturesOf[pair])
  <2> HIDE DEF pair
  <2>1. QED
    BY <1>3, <1>4, <1>5, <1>6 DEF Usable
<1>8. QED
  BY <1>7

\* What is decided again is matched to the only candidate.
LEMMA DecidedIsAlone ==
  ASSUME Assumptions, NEW v \in Versions, NEW pair, NEW copies \in 0 .. MaxCopies,
         IsMatched(Decide(v, pair, copies))
  PROVE  Candidates(v, pair) = {Decide(v, pair, copies).recording}
<1> DEFINE found == Candidates(v, pair)
<1>1. IsFiniteSet(found) /\ Cardinality(found) \in Nat
  BY CandidatesTyped, FS_CardinalityType
<1>2. copies * Cardinality(found) = 1
  BY DEF Decide, Unmatched, IsMatched
<1>3. Cardinality(found) = 1
  <2>1. copies \in {0, 1, 2, 3, 4}
    BY DEF MaxCopies
  <2>2. QED
    BY <1>1, <1>2, <2>1
<1>4. PICK r : found = {r}
  BY <1>1, <1>3, FS_Singleton
<1>5. Decide(v, pair, copies).recording = r
  BY <1>2, <1>4 DEF Decide
<1>6. QED
  BY <1>4, <1>5

\* Nothing breaks a tie by candidate order, row number or identifier (scoring.py): of the rows
\* a restated table copies, what is matched is the only candidate of its exact key or leads
\* the others by the margin, and the reasons of what is not are those the Python gives,
\* although the rows are ranked by generated SQL; of the rows it decides again, what is
\* matched is the only candidate. For any weights, thresholds, features and candidates.
THEOREM NoTieIsEverBroken == Spec => []NoTieIsBroken
<1>1. Assumptions
  BY ReprocessAssumption, DomainsAssumption DEF Assumptions
<1>2. ASSUME ReprocessInvariant
      PROVE  NoTieIsBroken
  <2>1. SUFFICES ASSUME NEW table \in {restated, published} \ {NoTable}, NEW l \in Listens
                 PROVE  LET row == table.rows[l] IN
                        IF row.recomputed
                        THEN IsMatched(row.outcome) =>
                               Candidates(table.rules, PythonHash(Names[l]))
                                 = {row.outcome.recording}
                        ELSE IF IsMatched(row.outcome) THEN row.outcome.recording \in Best[l]
                        ELSE Best[l] = {} /\ row.outcome.reason = WhyUnmatched[l]
    BY DEF NoTieIsBroken
  <2> DEFINE row == table.rows[l]
             pair == PythonHash(Names[l])
  <2>2. IsOneRun(table) /\ row \in [copies : 0 .. MaxCopies, recomputed : BOOLEAN,
                                    outcome : Outcomes]
    BY <1>2, <2>1 DEF ReprocessInvariant, TablesAreOneRun, TypeOK, Tables, Rows
  <2>3. /\ table.rules = LiveRules
        /\ row.outcome = IF row.recomputed THEN Decide(LiveRules, pair, row.copies)
                         ELSE Matches[l]
    BY <2>1, <2>2 DEF IsOneRun
  <2>4. CASE row.recomputed
    <3>1. LiveRules \in Versions
      BY <1>1 DEF Assumptions, ReprocessAssumption
    <3>2. QED
      BY <1>1, <2>2, <2>3, <2>4, <3>1, DecidedIsAlone
  <2>5. CASE ~row.recomputed
    <3>1. row.outcome
            = MatchRow(LiveScoring, PriorRules, pair, BlockedAs(pair), FeaturesOf[pair])
      BY <2>3, <2>5 DEF Matches
    <3>2. Absent \notin Int
      BY <1>1 DEF Assumptions, DomainsAssumption
    <3>3. Usable(LiveScoring, BlockedAs(pair), FeaturesOf[pair])
      BY <1>1, ListensAreUsable
    <3>4. IF IsMatched(row.outcome)
          THEN /\ row.outcome.recording \in BlockedAs(pair).candidates
               /\ Undisputed(LiveScoring, BlockedAs(pair), FeaturesOf[pair],
                             row.outcome.recording)
          ELSE /\ \A r \in BlockedAs(pair).candidates :
                    ~Undisputed(LiveScoring, BlockedAs(pair), FeaturesOf[pair], r)
               /\ row.outcome.reason
                    = FailureReason(PriorRules, pair,
                        PythonOutcome(LiveScoring, BlockedAs(pair), FeaturesOf[pair]))
      BY <3>1, <3>2, <3>3, MatchedAsMeant DEF IsMatched
    <3>5. /\ Best[l] = {r \in BlockedAs(pair).candidates :
                          Undisputed(LiveScoring, BlockedAs(pair), FeaturesOf[pair], r)}
          /\ WhyUnmatched[l] = FailureReason(PriorRules, pair,
               PythonOutcome(LiveScoring, BlockedAs(pair), FeaturesOf[pair]))
      BY DEF Best, WhyUnmatched
    <3>6. QED
      BY <2>5, <3>4, <3>5
  <2>6. QED
    BY <2>2, <2>4, <2>5
<1>3. QED
  BY <1>2, ReprocessIsInvariant, PTL

=============================================================================
