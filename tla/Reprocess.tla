----------------------------- MODULE Reprocess -----------------------------
(***************************************************************************)
(* The restated match table: src/restatement/reprocess_cohort.py replaces  *)
(* it, and src/restatement/publish_restatement.py checks it before dbt     *)
(* builds the restated publication from it.                                *)
(*                                                                         *)
(* The cohort is read from the working copy when a program starts, and the *)
(* identity once more. The cohort selects listens three times: to be       *)
(* counted, to be normalized, and to be rebuilt. What was normalized lies  *)
(* in two staging tables whose names every run shares.                     *)
(* The matches of pub:v1 are frozen: Matches is what build_match_results   *)
(* decided of every listen, once.                                          *)
(***************************************************************************)
EXTENDS RestatementIdentity, MatchDecision

CONSTANTS
  Listens,
  Recordings,
  Keys,            \* lookup keys
  Strings,         \* names of artists and recordings
  Names,           \* Names[l]: the artist and recording of a listen
  ScriptsOf,       \* ScriptsOf[name]: the scripts the names are written in
  FallbackOf,      \* FallbackOf[pair]: the recordings of its fallback key
  FeaturesOf,      \* FeaturesOf[pair]: the features of each recording, compared with it
  BlockingIndex,   \* canonical_blocking_index: <<recording, key>>
  Transliterated,  \* Transliterated[version]: the keys canonical recordings gain
  Frozen,          \* the predicate of the published restatement
  Rejected,        \* the predicate that was rejected before publication
  ScoringRules,    \* the scoring rules a developer may write down
  Empty,           \* the empty string
  NoTable,
  Operators,
  MaxEdits,        \* bounds the edits of the working copy
  MaxMishaps       \* bounds the processes killed

Pairs == {Names[l] : l \in Listens}

\* Python hashes the empty string for NULL; CONCAT in SQL is NULL if an argument is.
PythonHash(pair) ==
  [artist |-> IF pair.artist = Absent THEN Empty ELSE pair.artist,
   recording |-> IF pair.recording = Absent THEN Empty ELSE pair.recording]
SqlHash(pair) == IF Absent \in {pair.artist, pair.recording} THEN Absent ELSE pair

HashedPairs == {PythonHash(p) : p \in Pairs}
\* Each of the two names may be empty or NULL: so many pairs may have one hash.
MaxCopies == 4

Outcomes == [recording : Recordings \cup {Absent}, reason : Reasons \cup {Absent},
             candidates : 0 .. MaxCopies * Cardinality(Recordings)]

IsMatched(outcome) == outcome.recording # Absent

\* silver_listen_matches, of pub:v1.
BlockedAs(pair) ==
  Blocked(WithKey(PriorRules, pair, BlockingIndex), FallbackOf[pair])

Matches ==
  [l \in Listens |->
     LET pair == PythonHash(Names[l]) IN
     MatchRow(LiveScoring, PriorRules, pair, BlockedAs(pair), FeaturesOf[pair])]

ASSUME ReprocessAssumption ==
  /\ Names \in [Listens -> [artist : Strings \cup {Absent, Empty},
                            recording : Strings \cup {Absent, Empty}]]
  /\ Empty \in Blank /\ Lettered \subseteq Strings \ Blank
  /\ Folding \in [Versions -> SUBSET Lettered]
  /\ KeyOf \in [Versions -> [HashedPairs -> Keys]]
  /\ FallbackOf \in [HashedPairs -> SUBSET Recordings]
  /\ FeaturesOf \in [HashedPairs -> [Recordings -> [ScoredFeatures -> 0 .. 100 \cup {Absent}]]]
  /\ Matches \in [Listens -> Outcomes]
  /\ LiveScoring \in ScoringRules
  /\ LoadsScoring([rules |-> LiveScoring, recorded |-> LiveScoring])
  /\ BlockingIndex \subseteq Recordings \X Keys
  /\ \A v \in Versions : Transliterated[v] \subseteq Recordings \X Keys
  /\ {PriorRules, LiveRules} \subseteq Versions
  /\ {Frozen, Rejected} \subseteq Predicates
  /\ \A p \in Predicates : p.reasons \subseteq Reasons
  /\ MaxEdits \in Nat /\ MaxMishaps \in Nat

\* Why a listen may be left unmatched when it is decided again.
ReprocessReasons ==
  {"MISSING_ARTIST", "MISSING_RECORDING", "NO_ALPHANUMERIC_CONTENT", "NO_LOOKUP_KEY_PARTIAL",
   "NO_LOOKUP_KEY_EMPTY", "NO_BLOCK_CANDIDATES", "AMBIGUOUS_TIE"}

ASSUME DomainsAssumption ==
  /\ IsFiniteSet(Listens) /\ IsFiniteSet(Recordings)
  /\ ReprocessReasons \subseteq Reasons
  /\ Absent \notin HashedPairs \cup Recordings \cup Int
  /\ NoRun # "legacy"
  /\ IsFiniteSet(DOMAIN LiveScoring.weights)
  /\ \A f \in DOMAIN LiveScoring.weights : LiveScoring.weights[f] \in Nat
  /\ {LiveScoring.exact, LiveScoring.fallback, LiveScoring.margin, LiveScoring.epsilon} \subseteq Nat

VARIABLES
  cohorts,   \* config/restatement_cohorts.yml
  rules,     \* the normalization version of the working copy
  scoring,   \* config/scoring_rules.yml: the rules it holds and the ones recorded
  registry,  \* restatement_run_registry, as dbt built it last
  pairs,     \* stg_restated_pairs
  index,     \* stg_restated_index
  restated,  \* silver_listen_matches_restated
  published, \* the restated matches dbt built a publication from
  session,
  edits,
  mishaps

config == <<cohorts, rules, scoring, registry>>
tables == <<pairs, index, restated, published>>
vars == <<config, tables, session, edits, mishaps>>

Steps == {"idle", "main", "size", "pairs", "land_pairs", "land_index", "rebuild",
          "check_shape", "check_lost", "drop_pairs", "drop_index", "build"}

RegistryEntries ==
  {CohortRow(key, [predicate |-> p, mart |-> mart]) :
     key \in CohortKeys, p \in Predicates, mart \in {"legacy", NoRun}}
  \cup {LegacyRow(run) : run \in LegacyRuns}

\* A row of the restated table, and in how many copies it is there.
Rows == [Listens -> [copies : 0 .. MaxCopies, recomputed : BOOLEAN, outcome : Outcomes]]
Tables == [rows : Rows, rules : Versions, id : RunIds] \cup {NoTable}

SessionStates ==
  [pc : Steps, predicate : Predicates, measured : Nat, id : RunIds, rules : Versions,
   read : SUBSET Pairs, outcome : {"none", "done", "refused", "crashed", "killed"}]

TypeOK ==
  /\ cohorts \in [CohortKeys -> Entry]
  /\ rules \in Versions
  /\ scoring \in [rules : ScoringRules, recorded : ScoringRules]
  /\ registry \subseteq RegistryEntries
  /\ pairs \in [rules : Versions, pairs : SUBSET Pairs] \cup {NoTable}
  /\ index \in {Transliterated[v] : v \in Versions} \cup {NoTable}
  /\ restated \in Tables /\ published \in Tables
  /\ session \in [Operators -> SessionStates]
  /\ edits \in 0 .. MaxEdits /\ mishaps \in 0 .. MaxMishaps

-----------------------------------------------------------------------------
(* The cohort *)

Affected(predicate) ==
  {l \in Listens : SelectedBy(predicate, ScriptsOf[Names[l]], Matches[l].reason)}

Measured(predicate) == Cardinality(Affected(predicate))

\* Mutant: the join has lost its condition.
CrossJoined(l) == pairs.pairs

\* The landed pairs a listen of the cohort joins: none, or several of one hash.
Joined(l) == {p \in pairs.pairs : PythonHash(p) = SqlHash(Names[l])}

Candidates(version, pair) ==
  WithKey(version, pair, BlockingIndex \cup Transliterated[version])

\* cohort_decided: one candidate is a structural match, and several are never scored. A
\* listen that joined several pairs counts its candidates as often.
Decide(version, pair, copies) ==
  LET found == Candidates(version, pair)
      counted == copies * Cardinality(found) IN
  IF counted = 1 THEN
    [recording |-> CHOOSE r \in found : TRUE, reason |-> Absent, candidates |-> 1]
  ELSE IF counted > 1 THEN Unmatched("AMBIGUOUS_TIE", counted)
  ELSE Unmatched(FailureReason(version, pair, "NO_BLOCK_CANDIDATES"), 0)

Copied(l) == [copies |-> 1, recomputed |-> FALSE, outcome |-> Matches[l]]
Recomputed(l) ==
  LET copies == Cardinality(Joined(l)) IN
  [copies |-> copies, recomputed |-> TRUE,
   outcome |-> Decide(pairs.rules, PythonHash(Names[l]), copies)]

-----------------------------------------------------------------------------
(* Sessions *)

At(s, pc) == session[s].pc = pc
Resting ==
  [pc |-> "idle", predicate |-> Frozen, measured |-> 0, id |-> RunId(Frozen),
   rules |-> LiveRules, read |-> {}, outcome |-> "none"]
Goto(s, pc) == session' = [session EXCEPT ![s].pc = pc]
Stop(s, outcome) == session' = [session EXCEPT ![s] = [Resting EXCEPT !.outcome = outcome]]
GotoIf(s, condition, pc) == IF condition THEN Goto(s, pc) ELSE Stop(s, "refused")
Runs(s, pc) == At(s, pc) /\ UNCHANGED <<config, edits, mishaps>>

\* The cohort is loaded when the module is imported.
ImportCohort(s) ==
  /\ Runs(s, "idle")
  /\ IF Loads(cohorts)
     THEN session' = [session EXCEPT ![s] =
            [Resting EXCEPT !.pc = "main", !.predicate = cohorts["published"].predicate,
                            !.measured = cohorts["published"].measured]]
     ELSE Stop(s, "refused")
  /\ UNCHANGED tables

\* main reads the file again to name the run. The live rules must not be those of pub:v1,
\* and must yield, with the scoring, the identifier its restatement was published under.
StartReprocess(s) ==
  /\ Runs(s, "main")
  /\ IF /\ Loads(cohorts)
        /\ LoadsScoring(scoring)
        /\ rules # PriorRules
        /\ LegacyRunId(rules, scoring.rules) = LegacyRunId(LiveRules, LiveScoring)
     THEN session' = [session EXCEPT ![s].pc = "size", ![s].rules = rules,
                        ![s].id = RunId(cohorts["published"].predicate)]
     ELSE Stop(s, "refused")
  /\ UNCHANGED tables

CohortSize(s) ==
  /\ Runs(s, "size")
  /\ GotoIf(s, session[s].measured = Measured(session[s].predicate), "pairs")
  /\ UNCHANGED tables

AffectedPairs(s) ==
  /\ Runs(s, "pairs")
  /\ session' = [session EXCEPT ![s].pc = "land_pairs",
                   ![s].read = {Names[l] : l \in Affected(session[s].predicate)}]
  /\ UNCHANGED tables

\* WRITE_TRUNCATE into a table every run shares.
LandPairs(s) ==
  /\ Runs(s, "land_pairs")
  /\ pairs' = [rules |-> session[s].rules, pairs |-> session[s].read]
  /\ Goto(s, "land_index")
  /\ UNCHANGED <<index, restated, published>>

LandIndex(s) ==
  /\ Runs(s, "land_index")
  /\ index' = Transliterated[session[s].rules]
  /\ Goto(s, "rebuild")
  /\ UNCHANGED <<pairs, restated, published>>

Rebuilt(s) ==
  LET affected == Affected(session[s].predicate) IN
  [rows |-> [l \in Listens |-> IF l \in affected THEN Recomputed(l) ELSE Copied(l)],
   rules |-> session[s].rules, id |-> session[s].id]

\* Another run may have dropped a staging table, and the query raises.
Rebuild(s) ==
  /\ Runs(s, "rebuild")
  /\ IF NoTable \in {pairs, index} THEN Stop(s, "crashed") /\ UNCHANGED restated
     ELSE restated' = Rebuilt(s) /\ Goto(s, "check_shape")
  /\ UNCHANGED <<pairs, index, published>>

TotalRows(table) ==
  Cardinality(UNION {{l} \X (1 .. table.rows[l].copies) : l \in Listens})
DistinctListens(table) == Cardinality({l \in Listens : table.rows[l].copies > 0})

\* Mutant: the rows are counted, the listens are not.
AsManyRows(table) == TotalRows(table) = Cardinality(Listens)

OneRowPerListen(table) ==
  TotalRows(table) = Cardinality(Listens) /\ DistinctListens(table) = Cardinality(Listens)

Moved(table) ==
  {l \in Listens : ~table.rows[l].recomputed /\ table.rows[l].outcome # Matches[l]}
Lost(table) ==
  {l \in Listens : /\ table.rows[l].copies > 0 /\ table.rows[l].recomputed
                   /\ IsMatched(Matches[l]) /\ ~IsMatched(table.rows[l].outcome)}

\* The checks read the table that is there, after it was replaced.
CheckShape(s) ==
  /\ Runs(s, "check_shape")
  /\ GotoIf(s, OneRowPerListen(restated) /\ Moved(restated) = {}, "check_lost")
  /\ UNCHANGED tables

CheckLost(s) ==
  /\ Runs(s, "check_lost")
  /\ GotoIf(s, Lost(restated) = {}, "drop_pairs")
  /\ UNCHANGED tables

DropPairs(s) ==
  /\ Runs(s, "drop_pairs")
  /\ pairs' = NoTable
  /\ Goto(s, "drop_index")
  /\ UNCHANGED <<index, restated, published>>

DropIndex(s) ==
  /\ Runs(s, "drop_index")
  /\ index' = NoTable
  /\ Stop(s, "done")
  /\ UNCHANGED <<pairs, restated, published>>

ReprocessCohort(s) ==
  \/ ImportCohort(s) \/ StartReprocess(s) \/ CohortSize(s) \/ AffectedPairs(s)
  \/ LandPairs(s) \/ LandIndex(s) \/ Rebuild(s) \/ CheckShape(s) \/ CheckLost(s) \/ DropPairs(s) \/ DropIndex(s)

-----------------------------------------------------------------------------
(* The publisher of the restatement *)

\* The identity it computes is the recorded one.
IdentityIsRecorded ==
  Loads(cohorts) /\ RunId(cohorts["published"].predicate) = RunId(Frozen)

\* Every listen once, under the versions it restates. What the table says of the run it is
\* of is not read.
CoversEveryListen(table) ==
  table # NoTable /\ OneRowPerListen(table) /\ table.rules = LiveRules

StartPublish(s) ==
  /\ Runs(s, "idle")
  /\ IF IdentityIsRecorded /\ CoversEveryListen(restated)
     THEN Goto(s, "build") ELSE Stop(s, "refused")
  /\ UNCHANGED tables

BuildPublication(s) ==
  /\ Runs(s, "build")
  /\ published' = restated
  /\ Stop(s, "done")
  /\ UNCHANGED <<pairs, index, restated>>

-----------------------------------------------------------------------------
(* The developer *)

\* The file is not edited between the two reads of a program that is starting.
Settled == \A s \in Operators : ~At(s, "main")
Edit == Settled /\ edits < MaxEdits /\ edits' = edits + 1

\* A predicate is changed; its digest and its measured size are brought up to date, or not.
EditCohort ==
  /\ Edit
  /\ \E p \in Predicates, update \in SUBSET {"recorded", "measured"} :
       LET entry == cohorts["published"] IN
       cohorts' = [cohorts EXCEPT !["published"] =
         [entry EXCEPT !.predicate = p,
                       !.recorded = IF "recorded" \in update THEN Digest(p) ELSE entry.recorded,
                       !.measured = IF "measured" \in update THEN Measured(p) ELSE entry.measured]]
  /\ UNCHANGED <<rules, scoring, registry, tables, session, mishaps>>

EditRules ==
  /\ Edit
  /\ rules' \in Versions \ {rules}
  /\ UNCHANGED <<cohorts, scoring, registry, tables, session, mishaps>>

\* A weight, a threshold or a margin is changed; its digest is brought up to date, or not.
EditScoring ==
  /\ Edit
  /\ \E new \in ScoringRules \ {scoring.rules}, update \in BOOLEAN :
       scoring' = [rules |-> new, recorded |-> IF update THEN new ELSE scoring.recorded]
  /\ UNCHANGED <<cohorts, rules, registry, tables, session, mishaps>>

\* python -m restatement.registry --write, and the dbt build of the model.
BuildRegistry ==
  /\ Loads(cohorts)
  /\ registry' = RegistryRows(cohorts)
  /\ UNCHANGED <<cohorts, rules, scoring, tables, session, edits, mishaps>>

Abort(s) ==
  /\ ~At(s, "idle")
  /\ mishaps < MaxMishaps /\ mishaps' = mishaps + 1
  /\ Stop(s, "killed")
  /\ UNCHANGED <<config, tables, edits>>

-----------------------------------------------------------------------------

AsCommitted ==
  [key \in CohortKeys |->
     LET p == IF key = "published" THEN Frozen ELSE Rejected IN
     [predicate |-> p, recorded |-> Digest(p), measured |-> Measured(p),
      mart |-> IF key = "published" THEN "legacy" ELSE NoRun]]

Init ==
  /\ cohorts = AsCommitted
  /\ rules = LiveRules
  /\ scoring = [rules |-> LiveScoring, recorded |-> LiveScoring]
  /\ registry = RegistryRows(AsCommitted)
  /\ pairs = NoTable /\ index = NoTable /\ restated = NoTable /\ published = NoTable
  /\ session = [s \in Operators |-> Resting]
  /\ edits = 0 /\ mishaps = 0

Next ==
  \/ \E s \in Operators :
       ReprocessCohort(s) \/ StartPublish(s) \/ BuildPublication(s) \/ Abort(s)
  \/ EditCohort \/ EditRules \/ EditScoring \/ BuildRegistry

Spec == Init /\ [][Next]_vars

-----------------------------------------------------------------------------
(* Properties *)

RecomputedIn(table) == {l \in Listens : table.rows[l].recomputed}

\* Contained and whole: one cohort's listens, decided once under the live rules, and every
\* other listen as pub:v1 matched it.
IsExact(table) ==
  /\ \E p \in Predicates : RecomputedIn(table) = Affected(p)
  /\ \A l \in Listens :
       /\ table.rows[l].copies = 1
       /\ table.rows[l].outcome =
            IF table.rows[l].recomputed
            THEN Decide(LiveRules, PythonHash(Names[l]), 1) ELSE Matches[l]

\* The publisher accepts only exact tables, whatever runs died over the table, were refused
\* after they replaced it, or landed their pairs under another run that was rebuilding it.
AcceptedIsExact ==
  [][\A s \in Operators : At(s, "idle") /\ session'[s].pc = "build" => IsExact(restated)]_vars

\* An identifier tells cohorts apart, over time and between the table and the registry:
\* whatever was edited since a table was rebuilt, a run of the registry that has the
\* table's identifier describes the listens the table recomputed; and the assertion that
\* the registry separates its cohorts fails only if they are the same.
IdsTellCohortsApart ==
  /\ \A row \in registry, table \in {restated, published} \ {NoTable} :
       table.id \in row.canonical =>
         \A p \in row.cohort : RecomputedIn(table) = Affected(p)
  /\ Cardinality(UNION {row.cohort : row \in registry}) = 2 => SeparatesCohorts(registry)

\* What the rules mean for a listen of pub:v1: the candidates that nothing disputes, and
\* the reason to give where there is none.
Best ==
  [l \in Listens |->
     LET pair == PythonHash(Names[l]) IN
     {r \in BlockedAs(pair).candidates :
        Undisputed(LiveScoring, BlockedAs(pair), FeaturesOf[pair], r)}]

WhyUnmatched ==
  [l \in Listens |->
     LET pair == PythonHash(Names[l]) IN
     FailureReason(PriorRules, pair,
                   PythonOutcome(LiveScoring, BlockedAs(pair), FeaturesOf[pair]))]

\* "Nothing anywhere below breaks a tie by candidate order, row number or MBID value"
\* (scoring.py:22), in the rows a restated table copies and in those it decides again by
\* other SQL: what is matched is the only candidate of its exact key or leads the others by
\* the margin, a listen with such a candidate is matched, and the others have the reason
\* that ScoringRules.decide gives.
NoTieIsBroken ==
  \A table \in {restated, published} \ {NoTable}, l \in Listens :
    LET row == table.rows[l] IN
    IF row.recomputed
    THEN IsMatched(row.outcome) =>
           Candidates(table.rules, PythonHash(Names[l])) = {row.outcome.recording}
    ELSE IF IsMatched(row.outcome) THEN row.outcome.recording \in Best[l]
    ELSE Best[l] = {} /\ row.outcome.reason = WhyUnmatched[l]

\* "Identity and cohort have diverged; refusing to restate under an id that would describe
\* a different set of rows" (reprocess_cohort.py): the publication is made of the listens
\* its recorded identity describes.
PublishedAsIdentified ==
  published # NoTable => RecomputedIn(published) = Affected(Frozen)

=============================================================================
