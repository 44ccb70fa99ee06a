# Splitsheet in TLA+

Splitsheet takes a month of listens, matches them to recordings, decides which
of them pay, and publishes what each rights holder is owed.  A publication is
never edited: a correction is published beside it under another run id, and the
difference is recorded as a delta.  This directory models that program, checks
the models with TLC and proves the main results with TLAPS.

Paths below are relative to the repository root.

## The system

| Part | State it keeps | Operations | Talks to |
|---|---|---|---|
| Preservation and ingestion (`src/preservation`, `src/recon`, `src/ingestion`) | local files, objects of a bucket, staging tables named by run id, `bronze_listens`, `mapper_reference_labels` | extract, upload, verify, stage, validate, swap in one transaction, drop the staging, clean up orphans | bucket, warehouse |
| Normalization (`src/normalization`) | the listen mapping, canonical index, `canonical_match_texts` | pure functions on strings; normalize the texts of a candidate set, load, swap | bronze, candidates |
| Blocking and features (`src/matching`) | `silver_listens_normalized`, `silver_match_candidates`, `silver_candidate_features` | skip, or stage, validate, swap | the mapping, the texts |
| Match results (`src/matching/build_match_results.py`, `scoring.py`) | `silver_listen_matches` | skip, or decide each listen, stage, validate, swap | candidates, features; read by the publisher's checks |
| Evaluation (`src/evaluation`) | `config/scoring_rules.yml` through a person, reports | choose the rules over a grid, measure what was built | labels, features, match results |
| Reprocessing (`src/restatement/reprocess_cohort.py`) | `silver_listen_matches_restated`, two staging tables | recompute a cohort, copy the rest, check | match results; read by dbt |
| Rights (`src/rights`) | `splitsheet_rights`: holders, splits, rate card; a report | generate, land table by table, revise, verify | the catalogue of matched recordings; read by dbt |
| dbt, rebuilt half | ownership validity and resolution, eligibility, disposition, attributable streams, reconciliation | CREATE OR REPLACE on every build | rights; the restated matches, by default for every caller |
| dbt, appended half | `fct_royalty_attribution`, `fct_restatements` | guarded incremental MERGE | the rebuilt half |
| Publisher (`src/payout/publish.py`) | the CURRENT pointer | validate what exists, or build it; promote; prove idempotency and pointer movement | fact, registry, dbt |
| Freezer (`src/restatement/freeze_baseline.py`) | `publication_registry` | digest the baseline, register it, unfreeze an entry that no longer matches | fact, registry |
| Restater (`src/restatement/publish_restatement.py`) | an entry of the registry, the pointer | check the baseline and the restated matches, build, digest, delta, register, move CURRENT, test | all of the above |
| Pipeline (`dags/`) | task states | 11 tasks in a row, retries, a publication guard | runs all of the above as processes |

What makes it hard.  Every step is a warehouse job of its own; nothing groups
them in a transaction and no lock keeps two programs apart.  A program may be
killed, or a dbt run may time out, between any two jobs, and the answer to that
is to run it again.  The append-only tables are guarded by a `select count(*)`
in the query whose result a *later* job merges.  The tests that judge a table
run after it was written, and the append-only ones keep what a test rejects.
The match tables and the rights are replaced while what was derived from them
stands, in tables that are not rebuilt together.  The programs share staging
tables of fixed names, and skip their work when the target already carries the
identity they were asked for, whatever became of their inputs.  Configuration
is a file a person edits while programs run.  Rules are written twice, in
Python and in SQL.

What makes each part correct:

- loads: listens and labels in force are one slice's, and change together;
- match builders: a table holds what its labels say, both sides of a comparison
  are of one version, and a run that ends green leaves what it was asked for;
- match decision: what is matched leads the other candidates by the margin, or
  is the only one of its exact key; the rest has the reason the rules give;
- choice of the rules: by a rule fixed beforehand, over the decisions the
  matcher will make, and reported of the rows those rules decided;
- reprocessing: one cohort's listens decided once under the new rules, and
  every other listen copied; an identifier names one cohort;
- rights: a landed table is what its label generates; a cleared layer has the
  defects that were put into it, and no others;
- gates, ownership and rounding: SQL gates decide as the Python policy, a day
  has at most one usable ownership set, every group's cents add up;
- fact: rows under a run id appear once and are never changed after;
- registry: entries are added, never rewritten, and a frozen one is the proof of
  the rows that stand in the fact;
- delta mart: each restatement id tells one story, from the baseline that stands
  to a publication that stands;
- pointer: it names a publication that has rows, registered and frozen, and only
  whoever asked for a promotion moves it;
- publisher: running it again on a valid publication only validates.

## Modules

| Module | Models |
|---|---|
| `PeriodLoad` | extraction, upload, the two verifications, the load and the cleanup of a month of listens; the scheduler with its retries; kills |
| `PeriodInForce` | the abstract promise of a load |
| `Matching` | texts, blocking, features and match results: what each program asks of its target, stages, validates, publishes and drops; the scheduler; programs run by hand; kills |
| `Normalization` | whether a pair of names is valid and whether it has a key, and the reason a listen is not matched |
| `MatchDecision` | blocking, score and decision in Python and in SQL, and the row of a listen |
| `Evaluation` | the division of the labels, the choice of the rules over the grid, the rules on disk, the matches and the report |
| `RestatementIdentity` | the identities of a restatement and the registry of runs generated from them |
| `Reprocess` | the rebuild of the restated table, and the publisher that checks it, while the configuration is edited |
| `RightsModel` | what a version of the rights model generates |
| `LargestRemainder` | one amount among the holders of a set, in Python and in SQL |
| `Ownership` | the dbt models between the landed rights and the money, as functions of their tables; the gates in Python and in SQL |
| `Rights` | landing and revising the rights, dbt's tables rebuilt one by one from whatever stands, the gate of the verification |
| `FinancialLayer` | the tables of the financial layer, one operator per dbt model that keeps state and one per data test that can stop a build |
| `Publication` | publisher, freezer, restater and a plain `dbt build`, each a sequence of jobs run by a session against the financial layer, the registry and the pointer; kills; replacement of the match tables |
| `PublicationLedger` | the abstract promise: a ledger of publications, the one in force, the record of restatements |
| `MCPeriodLoad`, `MCMatching`, `MCEvaluation`, `MCReprocess`, `MCRights`, `MCPublication` | the constants of the runs |
| `PeriodLoadProofs`, `MatchingProofs`, `EvaluationProofs`, `ReprocessProofs`, `RightsProofs`, `PublicationProofs` | the theorems of one module each |
| `ScoringProofs` | lemmas about `MatchDecision`, used by the proofs about evaluation and reprocessing |
| `FiniteSums` | induction over naturals and finite sets, and sums over a finite set; used by the proofs about rights, evaluation and reprocessing |

How they compose.  `PeriodLoad` and `Publication` instantiate their abstract
specifications with refinement mappings (`InForce`, `L`).  `MatchDecision`
EXTENDS `Normalization`, and is used twice: `Reprocess` copies what it decides
and decides a cohort again by other SQL, `Evaluation` chooses the rules it is
given.  `Rights` is `RightsModel` and `Ownership`, which EXTENDS
`LargestRemainder`.  The four chains (load, match, restate, pay) meet where one
replaces a table another reads, and each sees of the others only that: matches
are replaced under `Rights` and `Publication` (`Rematch`), the restated table
under `Publication` (`Reprocess`), the mapping under `Matching` (`Remap`).

## Ingestion (`PeriodLoad`)

| Variable | In the system |
|---|---|
| `raw`, `objects` | the extracted members on disk; the objects of the bucket, which the external table reads in place |
| `stg` | `stg_bronze_listens_<run>` and `stg_labels_<run>`, by run id; `NoTable` once dropped |
| `table` | `bronze_listens`, with the run id its rows carry, and `mapper_reference_labels` |
| `session` | each process: its program, its slice, `--force`, the query it is at, what upload and cleanup have done |
| `dag`, `mishaps` | the DAG run's task and retries; the kills so far |

A *slice* is a sequence of members (files); the run id is hashed from their
checksums, so the slice is its own run id.  Rows are the slice each member came
from.  `Counted`, `Unique` and `SameListens` are what the count checks can tell.
Each query is a step: the contract (objects against the manifest), the counts of
the external table, the inspection of the target (the skip, or `--force`), two
staging tables filled by two reads of the external table, the validation, the
transaction that replaces both tables, two drops.  A query over a staging table
that a cleanup dropped raises.  The dry run and the figures of the report are
left out.

Assumed, since nothing in the code sees to it: the bucket is not written while a
load runs (`Preserved`).

## The match builders (`Matching`)

| Variable | In the code |
|---|---|
| `mapping` | the normalization version `listen_pair_normalization` was loaded under |
| `table` | `silver_listens_normalized` and `silver_match_candidates`, `canonical_match_texts`, `silver_candidate_features`, `silver_listen_matches` |
| `stg` | `stg_listens_normalized`, `stg_match_candidates`, `stg_canonical_texts`, `stg_candidate_features`, `stg_listen_matches`; `NoTable` once dropped |
| `session` | each process: its program and arguments, the job it is at, the file `build_canonical_texts.py` wrote |
| `dag` | the DAG run: its params, its task, the retries used |

Rows are abstracted to what they were made of: a features table is the label its
rows carry (`version`, `universe`) with the candidates, listens and texts that
were really joined.  A *version* is a normalization version with the blocking
version used with it; the candidate run id is a hash of the two, so it is the
version.  `Nothing` is a table without rows.  The pinned counts (`EXPECTED_*`)
are of one version, `Ratified`: candidates of another have another number of
pairs, and texts made for other candidates leave pairs without a text unless
`TextsCover` says otherwise (it is empty in the runs, any relation in the proofs).

Each program is its jobs in order: `Inspect` (the skip), then for blocking
`StageListens`, `ValidateListens`, `StageCandidates`, `ValidateCandidates`,
`PublishCandidates`, two drops; for the texts `ReadTexts`, `LoadTexts`,
`PublishTexts`, a drop, `CheckTexts`; for features and matches stage, validate,
publish, drop.  `Absent` is the exception of a query over a staging table another
process dropped.  `ValidateMatches` lets matches without any score through, since
no check of `build_match_results.py` asks for scores; where scores are of other
candidates than those counted, it may pass or refuse.  `Abort` is a kill, a
failed job or `--fail-before-publish`.

`StartRun`, `NextTask` and `RetryOrFail` are the scheduler: the four consecutive
tasks of `dags/pipeline_spec.py` that write these tables, one DAG run at a time,
each run under its own params.  Bronze does not change.  Left out: the local file
shared by two runs of the texts builder in one work directory, jobs that go on in
the warehouse after their client was killed, and `build_baseline_cardinality.py`,
whose table nothing reads.

## The match decision and its evaluation (`Normalization`, `MatchDecision`, `Evaluation`)

`MatchDecision` takes the recordings under the exact and the fallback key of a
listen and the features of each candidate as constants.  A score is kept to a
thousandth of a percent and a disagreement rate is a fraction, where the code has
doubles.  `PythonDecision` is
`ScoringRules.decide`, `SqlDecision` the expression generated from the same
rules, with what NULL does in it; `MatchRow` is the row `build_match_results.py`
writes, with the ranking by score and MBID.  The rewriting of names, character by
character, is a constant of `Normalization`.

| Variable of `Evaluation` | In the system |
|---|---|
| `reference` | `mapper_reference_labels` |
| `config` | `config/scoring_rules.yml`: the rules and the digest recorded of them |
| `matches` | `silver_listen_matches`: the rules of its `scoring_version`, and its rows |
| `calibration`, `report` | the reports of `calibrate.py` and `validate_scoring.py` |
| `session` | `validate_scoring.py`: the rules it read, whether its `--candidate-run-id` is the published one, what it measured |

`Calibrate` is the grid query and `choose`, on any partition and `--tie-epsilon`;
`EditRules` is the person who writes what was chosen into the file, with its
digest or without; `BuildMatches` the builder, seen by its result; the rest are
the queries of `validate_scoring.py`, which compares the published
`scoring_version` with the file's once and measures three partitions after that.
The breakdowns by script and information class are left out.

Assumed: matches are not rebuilt while they are measured (the version is checked
once, before nine queries); a change of rules is a change of `scoring_version`
(`config/scoring_rules.yml:44` asks for it, nothing enforces it); candidates are
in the snapshot; only the release can be missing.

## Reprocessing (`RestatementIdentity`, `Reprocess`)

| Variable | In the system |
|---|---|
| `cohorts`, `rules`, `scoring` | `config/restatement_cohorts.yml` with recorded digests and measured sizes; the normalization version of the working copy; the scoring rules and their digest |
| `registry` | `restatement_run_registry`, as dbt built it last |
| `pairs`, `index` | `stg_restated_pairs`, `stg_restated_index`, whose names every run shares |
| `restated` | `silver_listen_matches_restated`: each listen's copies, whether it was recomputed, its outcome |
| `published` | the restated matches dbt built a publication from |
| `session` | each process: the cohort it imported, the identifier it computed later, the pairs it read |

A cohort is a predicate (scripts, reasons); SHA-256 is injective.  `ImportCohort`
and `StartReprocess` are the two reads of the file; then come the size of the
cohort against its measure, the pairs, the two landings, the rebuild in which the
cohort is decided by its own SQL and the rest copied, the checks that read the
table after it was replaced, two drops.  `StartPublish` checks what the publisher
of the restatement checks before its dbt build.  `EditCohort`, `EditRules` and
`EditScoring` are a developer; `BuildRegistry` generates and builds the registry.
The matches of pub:v1 are frozen: `Matches` is what `MatchDecision` makes of the
constants.  Assumed: the file is not edited between the two reads of a program
that is starting (`Settled`).

## Rights and money (`RightsModel`, `LargestRemainder`, `Ownership`, `Rights`)

| Variable | In the system |
|---|---|
| `config`, `matches` | `config/rights_model.yml` with its recorded version; the match run in `silver_listen_matches` |
| `landed`, `staged`, `report` | the three tables of `splitsheet_rights` with the run on their label; `stg_<table>`; `rights_generation.json` |
| `validity`, `eligibility`, `resolution`, `disposition`, `streams` | the `int_*` models of the same names |
| `attribution` | what `fct_royalty_attribution` selects, before its guard |
| `lander`, `builder`, `verdict` | `build_rights.py`; dbt, publish or `verify_rights.py`; the last verdict of the gate |

The hashed choices of the generator (defect order, holders, weights) are constant
operators, arbitrary for each version; what it does with them, down to the units
of a share, is `RightsModel`.  Dates are numbered by what they bound.  A listen of
the model stands for `Streams[l]` listens of a recording on a day.  `Ownership`
has each dbt model as a function of the tables it reads; recording-days are
computed with the resolution, as dbt rebuilds them just before it.  `Rights` runs
them one by one, while the lander stages, inserts and drops table by table, the
publisher starts in mid-chain (at the disposition, on whatever resolution
stands), matches are replaced and either is killed.  The verification reads the
report and config, runs the generator again, counts the flagged sets, then the
holders, and judges.

Assumed: one lander and one builder at a time (both are run by hand or by the
pipeline's single active run; staging tables have fixed names and two landers
would insert each other's rows); the seed and `rights_version` tell versions
apart; orphans and the numbers of holders are the same for each version, quotas are
not.  Of the hashed choices, as
`generator.py` makes them: a set has between one and `Assignable` holders and no
more than the configuration's greatest `holders_per_recording`, `MostHolders`,
each drawn below `Assignable` and weighted above zero.  With four holders at most
the minimum share of one can always be taken from the biggest.  The cards of one
version have ids of their own (`rate-<version>-<number>`) and begin on different
days, so that sorting them by their first days leaves no choice.

## The publication layer (`FinancialLayer`, `Publication`, `PublicationLedger`)

| Variable | In the warehouse |
|---|---|
| `silver`, `restated` | `silver_listen_matches`, `silver_listen_matches_restated`; the latter may not exist |
| `derived` | `int_payout_eligibility`, `int_ownership_resolution`, `int_financial_disposition`, `int_attributable_streams` |
| `fact` | `fct_royalty_attribution`, by `attribution_run_id`: content and a stamp for `published_at` |
| `delta` | `fct_restatements`, by `restatement_run_id` |
| `recon` | the verdict of `restatement_reconciliation` |
| `hasRegistry`, `registry` | `publication_registry` |
| `pointer` | the CURRENT row of `publication_pointer`; `NoTable` and `NoRow` where it does not exist, `Parked` for `attr:none` |
| `session` | each process: its arguments, the job it is at, where it resumes after dbt, dbt's temporary relations, what it read and still relies on |

Amounts are abstracted to where they come from.  A *universe* is one match
result of the period.  A *statement* is what a build prices: the listens of one
universe on the ownership resolved for another (the same one, unless a killed
build left tables of different generations).  A publication's *content* is the
set of statements merged into it, and stands for its rows and its digest: two
contents have one digest exactly when they are equal.  `Amount`, `Complete`,
`Barren` and `Covers` are what the data tests can tell about a universe: what it
pays, whether it has every listen, whether nothing in it is attributable, and
whether every recording paid out of one is still attributable in another.  How a
universe's cents come about is `Rights`, and not part of these modules.

One action per warehouse job or group of jobs between which the program decides
nothing.  Each action's guard is the step the program stands at; refused checks
(`SystemExit`) end the program with outcome `"refused"`, uncaught exceptions
with `"crashed"`, and what was written stays.

- dbt is `Eligibility`, `Resolution`, `Disposition`, `Streams`,
  `SelectFact`/`MergeFact`, `SelectDelta`/`MergeDelta`, `Reconciliation`,
  `Verify`, and `Test` for `dbt test`.  dbt runs four threads, but each model of
  this chain `ref`s the one before, so there is one order.  An incremental model
  is two jobs: the select into a temporary relation, with its guard, then the
  MERGE.  Tests placed between two models by the graph are part of the action
  that starts the second model.
- `StartPublish` takes the run ids the policy and the two labels hash to;
  `StartFreeze` the publication id it may be given; `StartRestate` the ids and
  normalization versions of `RestateArgs`, and the flag of its guard
  (`MayRestate`); `StartBuild` the defaults of `dbt_project.yml`.
- `Abort` is a kill, a failed job or a timeout.
- `Rematch` and `Reprocess` replace a match table from an idle session: they are
  programs like the others, seen here only by what they leave.

Left out: the dry run and the money summary of the publisher, the reports and
the registry columns no program compares.  The check of the restatement's
identity is in `Reprocess`.  A digest's two queries (digest, `published_at`) are
read as one step, and `PointAway` reads a digest and moves the pointer in one.

`SumOfNothingIsNull` chooses between two worlds.  In the warehouse the row count
of a digest query is a SUM over no buckets, hence NULL, hence `int(None)`, and
the publisher's build path cannot be reached.  The unit tests' double answers 0,
and the build path runs.  Both are checked: the first because it is what the
code does, the second because that is the code the program means to run.

Initially pub:v1 is in the fact, priced from the match run the policy names, the
registry does not exist, nothing was restated, and CURRENT is on v1, unset, or
without a table.  The few `restate:pending` rows of the project's history are
not in the initial state.

## Checks

| Run | Bounds | Shows |
|---|---|---|
| `period_load` | two slices that agree in every count and of which one has a listen twice, two members, a scheduler and an operator, two mishaps; under fairness | `OneSliceInForce`: listens, labels and run id in force are of one slice; `LoadsAreAtomic`: the programs implement `PeriodInForce`; `LoadedInTheEnd`: a slice that stays preserved gets into force for good, whatever was killed or cleaned up; `TypeOK` |
| `matching_scheduled` | DAG runs only, two versions, params at will | `PublishedAsValidated`: candidates, listens, texts and features are of the identity they carry; `ScoredUnderOneVersion`: matches were decided from the candidates they name and scores under their version on both sides; `GreenRunIsCurrent`: a run that ends green leaves the matches its params ask for, as they would be built now; `TypeOK` |
| `matching_by_hand` | a scheduler and an operator at once, one version; under fairness | `RunsEnd`: a DAG run ends, whatever is run by hand on its staging tables or killed |
| `evaluation` | eleven listens, four recordings, 16 cells of a grid, two epsilons, 18 labelings, one calibration | `ChosenByTheRule`: what calibration chooses satisfies the rule stated beforehand, told of the decisions the matcher makes; `ShippedAsCalibrated`: matches built under the chosen rules are reported with the counts they were chosen by; `ReportedAsDecided`: a report counts rows the rules it names decided; `TypeOK` |
| `reprocess` | eight listens, two operators (symmetric), three cohort definitions, three scoring rules, two edits, one kill | `AcceptedIsExact`: the publisher accepts only tables in which one cohort's listens are decided once under the new rules and all others are copied; `IdsTellCohortsApart`: an identifier in the table and in the registry is of one set of listens; `NoTieIsBroken`: what is matched leads by the margin or is alone; `TypeOK` |
| `rights` | seven recordings (each defect, a change of owner, a plain one), an orphan, a recording of another match run, twelve listens, four holders, four versions, of which one has other quotas and one never loads, two match runs, two mishaps | `LandedAsGenerated`, `DefectsAreFound`, `GatesAgree`: SQL gates decide as the Python policy and what is not payable carries no set and no rate; `PaidAsOwned`: every amount is of one set of one generation, in force, without a defect; `ClosesInCents`; `ClearedIsAsInjected`: a cleared layer has the defects its own generation injected, as many as the report says; `TypeOK` |
| `publication_serial` | one session, two match runs, restated tables of two normalization versions | `PublishedRowsAreImmutable`: once rows stand under a run id no step adds to, replaces or restamps them; `RegisteredRestatementReconciles`: the delta mart tells exactly the story of the registered restatement; `PricedUnderItsVersion`: it was priced from matches of its version; `TypeOK` |
| `publication_counted` | one session, a good and a barren restated table, the build path of the publisher reachable, a freezer given either publication id | `Ledger`: the programs implement the abstract ledger; `FrozenEntriesMatchTheFact`: a frozen entry's digest is that of the rows; `RegistryIsAppendOnly`; `RepublishingOnlyValidates`; `ReportedPromotionIsInForce`: a program that ends well and reports CURRENT on its run leaves it there; `CurrentHasRows` |
| `publication_concurrent` | two sessions, one match run, one restated table | `RegisteredIsBacked`: the rows of an entry have not left the fact; `DeltasComparePublications`: both sides of a recorded change are published rows |

### Bounds

*Publication.* The state spaces are finite with no bound in any guard: run ids
and restatement ids are few, contents are sets of statements of the run's
universes, and a stamp moves only when a merge has rows.  Four restater outcomes
(published id under its own version, under another, an unexplained id, a
rehearsal) are enough for every comparison the code makes between two of them; a
second session is enough for every pair of steps, since no program looks at
sessions.  `PricedUnderItsVersion` holds because the restatements of
`publication_serial` pay different totals: the recorded delta, compared by a data
test, then stops a second one.  Where totals agree (`AmountOfR3 = 3`) it is
published under the wrong version, and a second restatement is promoted
unregistered (below).  `FreezeIds` has the
restatement's id in `publication_counted`, since only a freezer that is given it
finds another digest than its own and unfreezes the entry.

*Matching.* Two versions are enough where a program only asks whether two are
equal and whether one is ratified; one is enough for `RunsEnd`, which is about
tables that vanish and not about what is in them.

*PeriodLoad.* Two members are the least with which a bucket can hold parts of
two slices; `MaxMishaps` counts kills and cleanups started, and two are enough
for one that leaves a staging table and one that meets it.  `Counted` has both
slices, so that no count tells them apart and only the checksums can.

*Reprocess.* Two operators share the staging tables; `MaxEdits = 2` is a change
and its reversal, `MaxMishaps = 1` a run that dies over a table another uses.
The listens are chosen one per path: matched by its Latin part, one and two
candidates after transliteration, untouched, NULL and empty artist of one title,
two scored ones.

*Rights.* `MaxMishaps = 2` counts edits, rematches and kills: a death in the
middle of a landing and a new version landed over it.  The numbers of streams,
weights and rates are such that a leftover cent, a half cent, a share below the
minimum and a rate gap happen.

*Evaluation.* `Bound` is 40 % where the code has 2 %, and `Floor` one listen
where it has a thousand, since the instance has eleven; both branches of the
choice are taken.  One calibration is enough for the properties, which relate
the last one to what was shipped.

Every action and every disjunct fires in some passing run: the publisher's build
path only where the row count is 0, absent staging tables only in
`matching_by_hand` and `period_load`, a replaced mapping only with two versions.

### Fairness

In `PeriodLoad`, `FairSpec` asks weak fairness of each session's `Continue` and
of the scheduler, which runs the graph again and again: a program is a
sequential script whose next query nobody holds back, and nothing makes an
operator start one.  Kills and cleanups stay, bounded.

In `Matching`, `FairSpec` asks weak fairness of the scheduler's program and of
the scheduler (`NextTask \/ RetryOrFail`), and nothing of operators.  Kills stay:
each task has a bounded number of attempts, so a run ends though every attempt
is killed.

Elsewhere the code gives no ground for fairness: people start the programs, and
what a killed one leaves waits for the next person.  A publisher killed between
parking the pointer and restoring it leaves `attr:none` until somebody promotes
again, and nothing makes anybody do so; what `ReportedPromotionIsInForce` says is
that the next program that reports a promotion has made it.

### Where the code and its documents disagree

Each of these runs checks one sentence of the repository and ends in a
counterexample.

| Run | The sentence | What the code does |
|---|---|---|
| `absent_publication` | `existing_publication` returns "None when neither holds it" (`src/payout/publish.py:234`) | the row count of an unpublished run is NULL and `int()` of it raises |
| `rejected_published` (four listens, one operator, two edits) | "Identity and cohort have diverged; refusing to restate under an id that would describe a different set of rows." (`src/restatement/reprocess_cohort.py:236`) | a table rebuilt while the cohort definition was another one is published under the recorded identity after the definition was put back: the publisher never reads the identifier the table carries |
| `leftover_cent` | "Generated from the constants above so the warehouse cannot drift from the Python the unit tests pin." (`src/payout/rounding.py:120`) | NUMERIC keeps nine decimals of a product of ten: an order of fractions becomes a tie, and the leftover cent goes to another holder |

Read in the code, and stated here without a run of their own:

- the pipeline's plain `dbt build` inserts a published statement under the
  default run id when the fact does not hold it, though publication "is off by
  default" (`dags/pipeline_spec.py:41`);
- the registry MERGE of the restater is insert-only under the constant `pub:v2`: a
  second restatement, of another version and the recorded total, gets no entry and
  becomes CURRENT all the same, though the pointer "names a REGISTERED one"
  (`tests/integration/test_payout_contract.py:449`).  `PromotesOnlyRegistered` in
  `Publication` is that sentence, and it does not hold: with `AmountOfR3 = 3` in
  `publication_serial.cfg`, and as its only property, TLC shows the second restater
  move CURRENT to `v4` while `pub:v2` names `v2`.  With `AmountOfR3 = 5` it would
  pass, since the data test then stops every second restatement: that would say
  nothing of the code, so it is checked nowhere and nothing is proved of it;
- two builds under one run id may both select before either merges, and the
  second MERGE updates the first, though "A completed publication is never
  updated" (`fct_royalty_attribution.sql:26`): nothing keeps two builds apart;
- the publisher's build prices the disposition as the last build left it, under
  the run id of a policy that names another match run;
- the restater always moves CURRENT (`publish_restatement.py:341`), but by an
  UPDATE: where CURRENT was never set it changes no row, and the program ends well;
- a delta that `assert_every_restatement_run_id_is_explained` rejects was merged
  before the test and is never removed;
- the features "are a function of the candidate set, the canonical texts and the
  feature version alone" (`build_candidate_features.py:151`), but join texts of
  whatever version stands and take their label from the arguments; the match
  builder keeps matches by identity when the features they came from were
  rebuilt (`build_match_results.py:241`);
- "The validation partition is opened exactly once" (`validate_scoring.py:1`) is
  enforced by nothing: the report writes `"opened_once": True` always, and
  `calibrate.py --partition` takes any partition;
- where no cell of the grid is complete `choose` ends in the ValueError of an
  empty `min`, and equal cells are taken in the order the rows arrived, which a
  GROUP BY without ORDER BY does not fix;
- `bucket_of` takes an empty label for unlabelled, the generated SQL only NULL.

`PublishedAsValidated` is a property of how the builders are operated.  With an
operator beside the scheduler (`Operators = {alice}` in `matching_scheduled.cfg`)
TLC finds two runs of the texts builder that share `stg_canonical_texts`: one
publishes under its labels what the other loaded.  `max_active_runs=1` keeps
two DAG runs apart, and nothing keeps a program run by hand from either.  In the
same way, the order of the DAG's tasks is what keeps `ScoredUnderOneVersion`.

## Proofs

Every theorem is for all values of the constants that satisfy the named
assumptions of their module, which TLC evaluates on every run of the module.  A
theorem with a hypothesis of its own says so; each such hypothesis is a way the
system is operated.

### Ingestion (`PeriodLoadProofs`)

Any slices, members and operators; `PeriodLoadAssumption`.

| Theorem | Says |
|---|---|
| `PeriodLoadTypeCorrect` | `Spec => []TypeOK`; with it, no task is retried more than twice |
| `OneSliceIsInForce` | `Spec => []OneSliceInForce` |
| `LoadsImplementPeriodInForce` | `Spec => InForce!Spec` |

What is published was read from the bucket some queries earlier, so
`OneSliceInForce` needs `Verified`, which says what a load knows where it stands:
past the contract its slice is in the bucket (kept because the bucket does not
change while it runs), and at the transaction the slice is a measured one.
`StagedWhole` says that whatever is staged under a run id is that slice, also
what a killed load left or two loads of one run id share: a load can only replace
it by the same, and a cleanup only take it away.  `LoadInv` is the three
together.  The refinement maps `Publish` to `Load` and `UploadMember` to
`Upload`; every other step stutters (`OthersStutter`).  It rests on `Preserved`.

### The match builders (`MatchingProofs`)

Any versions; `MatchingAssumption`, and for the last two `RowsAssumption` (no
table is `Nothing`).

| Theorem | Says | Operated |
|---|---|---|
| `MatchingTypeCorrect` | `Spec => []TypeOK`; with it, no task is retried more than twice | by anyone |
| `InTurnPublishedAsValidated` | `TurnSpec => []PublishedAsValidated`, where `TurnSpec` is `Spec` with nobody starting a program while another one runs | in turn |
| `ScheduledScoresAreOfOneVersion` | `Spec => []ScoredUnderOneVersion` | by DAG runs alone (`Operators = {}`) |
| `GreenRunsAreCurrent` | `Spec => GreenRunIsCurrent` | by DAG runs alone |

A publication is validated some jobs before it happens, so `PublishedAsValidated`
needs `Staged`: at each step of each program, what stands in its staging tables
is what that program staged for its arguments and, past the validation, what was
validated.  A program's own steps keep it (one lemma per program), and a step of
another is impossible while it runs (`AloneStaged`).  A program that is killed
leaves its staging tables behind, which nobody reads before replacing them.

No builder compares the versions of its inputs, and none rebuilds a target that
already carries its label.  That scores are of one version all the same follows
from the DAG's order, and `RunFacts` says how: of a run at its i-th task,
everything the earlier tasks write carries the run's params (`TasksInOrder`),
whether the task built it or found it there; the task under way works under those
params (`OnTask`) and has brought its table to them once it is past its
publication (`TaskBrought`); and whatever features and matches stand or are
staged, of this run or an older one, were made of inputs of one version
(`InForceUnder`, `StagedUnder`).  With an operator beside the scheduler
`TasksInOrder` is false: TLC shows it.

### The match decision and its evaluation (`ScoringProofs`, `EvaluationProofs`)

Any listens, candidates, features, weights, thresholds, labels and grid;
`EvaluationAssumption` and `DomainsAssumption`.

| Theorem | Says |
|---|---|
| `EvaluationTypeCorrect` | `Spec => []TypeOK`; with it, no group has more wrong decisions than it can judge |
| `ReportsAreOfWhatWasDecided` | `Spec => []ReportedAsDecided` |
| `ShippedIsCalibrated` | `Spec => []ShippedAsCalibrated` |
| `ChoicesAreByTheRule` | `Spec => ChosenByTheRule` |

`ScoringProofs` compares two programs.  `scoring.py` leaves an absent feature out
of the weighted mean, the generated SQL adds zeros in its place: the scores are
the same (`ScoresAgree`).  The best and second best of one and the ranking of the
other, where an absent score is NULL, have the same first and second for every
set of candidates, whatever order a tie is ranked in (`RanksAgree`).  Then the
outcomes are the same (`OutcomesAgree`), and what is matched leads the other
candidates by the margin (`AcceptedLeads`, `MatchedAsMeant`).

`EvaluationProofs` has a third program, the grid of `calibrate.py`, and a fourth
that counts rows.  Both come to the matcher's decisions: the cells of the grid
accept what it accepts (`GridIsTheMatcher`), rows are matched where it accepts
and hold the candidate that leads (`RowsFollowTheMatcher`, `AcceptedIsTheLeader`),
and whoever counts that counts the same errors (`DecisionsCounted`).  A report
asked for with another candidate run finds no reference among the candidates;
then each ranking error is told as one not retrieved, and the sum stays, since
candidates are in the snapshot.  The invariant is `Evaluated`: the matches are
rows of the version they carry (`MatchesAreBuilt`), the calibration is a cell of
the grid (`CalibrationIsACell`), and what a validation has measured, and then
reported, are metrics of such rows under the version it compared once (`Measuring`,
`Reported`), which is kept because matches are not rebuilt while it measures.
Edits of the rules on disk do not matter to it.

The rule compares cells by fractions of sums, and says what it promises stage by
stage.  The worst stage is one of them and bounds the others (`WorstOfStages`,
over `RatesAreTransitive`), so a complete cell has the errors, the coverage and
the eligibility the rule ascribes to its rules (`CellsAreTheirRules`), and the
best of the cells is as it says (`BestOfCells`).

### Reprocessing (`ReprocessProofs`)

Any listens, cohorts, rules, weights and operators, all of whom share the staging
tables; `ReprocessAssumption` and `DomainsAssumption`.

| Theorem | Says |
|---|---|
| `ReprocessTypeCorrect` | `Spec => []TypeOK` |
| `AcceptedTablesAreExact` | `Spec => AcceptedIsExact` |
| `IdentifiersTellCohortsApart` | `Spec => []IdsTellCohortsApart` |
| `NoTieIsEverBroken` | `Spec => []NoTieIsBroken` |

`TypeOK` bounds the copies of a listen by the forms its name has, so it needs
that a listen joins at most four pairs, whichever run landed them
(`JoinedAreAlike`).  The publisher judges by counts a table that another run may
have rebuilt.  It is exact because every table ever written is one run's rebuild,
decisions of one cohort and copies of the rest, though perhaps with pairs of
another run or with too many rows (`TablesAreOneRun`), and because as many rows
and as many distinct listens as there are listens leave one row each.
`IdsTellCohortsApart` rests on an identifier containing a hash of the listens,
and on `RegistryDescribes`: what the registry holds was generated from one
configuration.  `NoTieIsBroken` is `MatchedAsMeant` of every row that
stands, copied or decided again.

### Rights and money (`RightsProofs`)

Any catalogue, rights versions, match runs, rate cards, holders and hashed
choices; `RightsModelAssumption`, `RightsAssumption`, `NullAssumption`.

| Theorem | Says |
|---|---|
| `RightsTypeCorrect` | `Spec => []TypeOK` |
| `LandingsAreAsGenerated` | `Spec => []LandedAsGenerated` |
| `TheGatesAgree` | `Spec => []GatesAgree` |
| `DefectsFound` | `Spec => []DefectsAreFound` |
| `ClearingIsAsInjected` | `Spec => ClearedIsAsInjected` |
| `PaymentsAreOwned` | `Spec => []PaidAsOwned` |
| `PaymentsClose` | `Spec => []ClosesInCents` |

`LandedAsGenerated` needs that what stands in the staging table when a lander
inserts is the generation it began with (`StagedForInsert`).  `GatesAgree` is not
a theorem of the two gate definitions alone, since one reads NULLs and the other
does not: `BuiltSound` says which columns can be NULL together in each table a
build has reached, of whatever generation the table before it was.

`DefectsAreFound` is two facts.  One is of the generator: the shares it gives a
recording add up to the whole exactly (`SharesExact`: what quantizing leaves goes to
the last holder, and what that one lacks of the minimum is taken from the
biggest), so a set sums to something else only if its defect moved a share, and
the sets of a recording touch, overlap or leave a day out as the defect says
(`Spans`, `SetsOfVersion`).  `FlaggedAsGiven` compares these with what
`int_ownership_validity` computes, kind by kind.  The other is of the system:
the validity table stands on splits of one version, on all the holders whoever
landed them, and on the catalogue of one match run (`DerivedSets`); in one
landing the holders come first (`HoldersFirst`), or a holder could be missing
without a defect.  Together they make `FoundInvariant`.

`ClearedIsAsInjected` is about what the gate remembers from the step in which it
read the sets to the step in which it judges (`ClearingSound`).  Counts are enough
because every kind but one is injected in one set of a recording (`OneSetEach`),
and because every orphan is flagged whatever else is (`OrphansFlagged`): if as many
recordings are flagged as there are orphans, they are the orphans
(`CountedAsInjected`).  What is flagged with a defect is, recording by recording,
what the generation of the sets gave it to (`RecordingsAsGiven`): so where the
report is of another generation, the two injected as many of every kind.

`PaidAsOwned` follows a payment back through `DispositionOwned`, `ResolutionOwned`
and `ValidityOwned`: each table's row names a valid set of some version, whether
or not the tables before it have been built or landed again meanwhile.  A valid
set has no flag, so by the first theorem its recording has no defect.  The fact
joins the splits that stand then, not those the resolution saw; the identifier is
of one version (`OneVersion`), so the join finds the set's own rows or none
(`AttributionOwned`).  The streams are a sum over a disposition of one match run,
and a listen is in one group at most, since a listen has one set and one rate and
a card of a version has one interval (`GroupPaid`).

`ClosesInCents` is an argument in four parts.

1. *Shares.*  The generator walks forward from a drawn index to a free holder;
   one is free because fewer are taken than there are, so a set has one row per
   holder (`HoldersApart`).  A valid set's shares lie between nothing and the
   whole and add up to it, and one split identifier is of one version
   (`RightsVersion` is injective): it is `Payable` whatever version stands.
2. *The chain.*  `PaidSound` carries that from validity to resolution, to
   disposition, to the streams, to the fact: a statement for each position of the
   builder, since between any two of them the rights may be landed or a new build
   may start over half of the old tables.
3. *The cents.*  For each group, exact amounts and their whole parts differ by
   less than a cent each, so the leftover is at least 0 and at most the number of
   holders with a fraction; ranks of the holders count 1, 2, 3, so exactly as many
   get a cent as are left over (`CentsClose`).
4. *NUMERIC.*  The SQL rounds each product to nine decimals first.  The rounding
   can reach the next cent, but only where it leaves no fraction, and then it
   takes that cent out of the leftover.  So groups close, although the order of
   the fractions, and so the holder who gets the cent, may not be the Python's
   (`leftover_cent`).

### The publication layer (`PublicationProofs`)

Any universes, run ids, publication ids and amounts; `UniversesAssumption` and
`RunsAssumption` of `FinancialLayer`, `SessionsAssumption` and
`EntriesAssumption`.

| Theorem | Says | Sessions |
|---|---|---|
| `TypeCorrect` | `Spec => []TypeOK` | any |
| `RegisteredRowsRemain` | `Spec => []RegisteredIsBacked` | any |
| `RegistryOnlyGrows` | `Spec => RegistryIsAppendOnly` | any |
| `DeltasTellPublications` | `Spec => []DeltasComparePublications` | any |
| `CurrentIsNeverEmpty` | `Spec => []CurrentHasRows` | any |
| `PublicationsAreImmutable` | `Spec => PublishedRowsAreImmutable` | one |
| `FrozenEntriesAreProofs` | `Spec => []FrozenEntriesMatchTheFact` | one |
| `RepublishingValidates` | `Spec => RepublishingOnlyValidates` | one |
| `ReportsOfThePointerAreTrue` | `Spec => ReportedPromotionIsInForce` | one |
| `ProgramsImplementTheLedger` | `Spec => Ledger` | one |
| `RegisteredRestatementsReconcile` | `Spec => []RegisteredRestatementReconciles`, when the SUM of nothing is NULL, a restatement id is published under one run id (`OneRunEach`), and rows pay (`RowsPay`) | one |
| `RestatementsAreOfTheirVersion` | `Spec => []PricedUnderItsVersion`, when run ids of two versions differ (`VersionsApart`) and the recorded difference tells the version (`RecordedTells`) | one |

*Any sessions.*  `TypeCorrect` goes by one lemma per action group; the amounts
never matter to it, so `Paid` stays folded.  `RegisteredIsBacked` is not
inductive: an entry is written from what a program read some jobs earlier
(`made`), so the invariant must say that those rows are still in the fact.
`Holding` says so of one session, with where the program stands: from the
freezer's digest on, and from the restater's identity across the whole dbt run to
its registry MERGE, `made` is not empty and is part of what stands under the
session's run.  `Backed` is `RegisteredIsBacked` and `Holding` of every session.
It is kept because the fact only accumulates (`RowsStay`: the MERGE has no delete
branch and nothing else writes the fact) and because a step of one session leaves
the others' memories alone (`OthersWait`).  `Accounted` adds, in the same way,
that the temporary relation of the delta mart compares rows that stand
(`Standing`), and that a program about to move the pointer saw rows (`Walking`).

*One session.*  Immutability is not a matter of the guard alone: the guard is
true when the select reads it, and must still be when the MERGE writes.
`FreshMerge` says so, and `Exact` that what is registered, and what is about to
be, equals what is published.  `Serial` is `Backed`, `FreshMerge` and `Exact`.
With one session no step of another can come between the select and the merge,
and `SerialStep` follows; with two it is false.  So the assumption of one session
is not a convenience of the proof: the code has no lock, and immutability is a
property of how it is operated.  `Alone` is what a program may rely on at each of
its steps (the delta it selected is of what stands; what it builds is not
registered; what it promoted is in force unless its own proof parks it), and
`Lone` is all of it.

`ReportedPromotionIsInForce` is about the end of a program, and CURRENT was moved
jobs before it: a publisher that built runs dbt's tests, possibly the publication
again, and a proof that parks CURRENT, and every one of these may fail or be
killed.  `Promoted` carries the pointer from the promotion through them, and
`WhereOutcomesComeFrom` lists the steps a program can end well at.

The refinement maps `MergeFact` to one added statement, `MergeDelta` to the
record of a restatement, the pointer's moves to `Promote` and `Withdraw`, and
every other step to a stutter; that a merge adds at most one statement, and
compares statements that stand, is what it takes from `Lone`.

`RegisteredRestatementReconciles` needs what a total can tell.  Before it
registers, the restater only asks that the delta's totals agree with the fact's,
and the delta under its id may be of an earlier build that was killed, or that
published nothing.  `OneStatement` says that a publication is one statement, and
`Telling` that whatever the delta mart holds under an id compares the baseline
that stands with what stands now under the id's run, or with nothing.  An exact
reconciliation excludes the nothing, because rows pay (`ReconciliationTells`);
`Restating` carries the delta so told (`Told`) from there past the verification
to the registry, and immutability keeps it afterwards.  `OneRunEach` excludes an
operator who gives two run ids to one restatement: then the delta of the first
stands under the id of the second, and only amounts that differ keep the second
from registering, as in `publication_serial`.  `RowsPay` excludes a publication
all of whose amounts are 0, which a total cannot tell from none.

`PricedUnderItsVersion` is not secured by the check it repeats.  The restater
compares the version of `silver_listen_matches_restated` with its argument before
it builds (`publish_restatement.py:225`), and `Pricing` carries that through
eligibility, resolution, disposition and streams to the merge.  But a run that
already stands is not built again, and under `PublishedRestatement` a plain build,
which checks no version, may have stood first.  `Dated` says what can stand:
restated matches of the version hashed into the run id, or of any under that one
run.  What stops the rest from being registered is a total: the reconciliation
makes that of the delta what stands, the data test what was recorded, and
`Explaining` keeps the two to the registry.  So `RecordedTells` is a hypothesis
the property needs: where matches of another version pay the recorded difference
they are registered under the wrong one (TLC finds it with `AmountOfR3 = 3`).
`VersionsApart` is what hashing the version into the run id is for
(`publish_restatement.py:112`); the constants of `publication_serial` satisfy both.

### Sums and induction (`FiniteSums`)

The library states induction over an operator, which no installed prover can
instantiate.  `FiniteSums` states it over a set (`NaturalInduction`,
`SubsetInduction`, from the well-foundedness of `<`), which a proof can give.
From it come the facts about `SumFunction` of the community modules, in whatever
order it chooses the elements: that it adds up (`SumsTotal`), is linear, bounded,
counts, is unchanged by renaming and by zeros, that a sum over a part is no
greater, that whole quotients of the parts are at most that of the sum, and that
of a finite set of numbers one is greatest.  The recursive functions of
`RightsModel` are proved by the same induction.

### Only model-checked

- `RunsEnd` and `LoadedInTheEnd`: liveness under fairness is out of the prover's
  reach.
- The three disagreements with the documents are violated, and so have no proof.

## Plan

1. Done: the four chains (load, match and evaluate, restate, pay) and the
   publication layer; two abstract specifications with their refinements;
   thirty-four theorems, which state every invariant and action property the
   passing runs check.
2. Open: `RecordedTells`, `OneRunEach` and `RowsPay` are hypotheses on amounts and
   ids because the programs tell two publications under one run apart by totals
   only.  If the code comes to compare the version or the digest of what stands,
   `Restate` changes and the hypotheses should go.

## Not modelled

Transliteration, similarity and the rewriting of names work on strings character
by character: unit tests reach them, a model checker does not, and here they are
constants.  The programs under `src/recon` other than extraction and the
verification of a slice, and those of `src/evaluation`, `src/restatement` and
`src/rights` that only measure, profile files and tables and write reports which
nothing reads.  Landing the canonical dump is a copy.  The report task and the
guard in front of publication add no state to the pipeline.  Infrastructure is
declarative.  Each is listed with its sources in `PROJECT.json`.
