------------------------ MODULE RestatementIdentity ------------------------
(***************************************************************************)
(* What names a restatement: src/restatement/identity.py, and the registry *)
(* generated from it, src/restatement/registry.py.                         *)
(*                                                                         *)
(* A cohort is a predicate over listens: which scripts their names must    *)
(* contain, and for which reasons the prior publication failed to match    *)
(* them. SHA-256 is taken to be injective, so a digest stands for what was *)
(* hashed; a predicate is hashed sorted, so a set stands for a list.       *)
(***************************************************************************)
EXTENDS Naturals, FiniteSets

CONSTANTS
  Reasons,      \* why a listen was not matched
  KnownScripts, \* hangul and kana
  Predicates,   \* the cohort definitions a developer may write down
  Versions,     \* normalization versions
  LiveScoring,  \* the scoring rules pub:v1 and its restatement were matched under
  LegacyRuns,   \* what the mart holds that no cohort restated: restate:pending
  NoDigest,     \* no cohort_sha256 recorded, or PLACEHOLDER
  NoRun         \* no mart_run_id: the cohort was rejected before publication

\* The two entries of config/restatement_cohorts.yml.
CohortKeys == {"published", "rejected"}

Entry == [predicate : Predicates, recorded : Predicates \cup {NoDigest}, measured : Nat,
          mart : {"legacy", NoRun}]

\* The rules pub:v1 was matched under, and those its restatement was published under.
PriorRules == "v1.0"
LiveRules == "v1.1"

Digest(predicate) == predicate

\* load_cohorts: unknown scripts and stale digests are refused, of every entry.
Loads(cohorts) ==
  \A key \in CohortKeys :
    /\ cohorts[key].predicate.scripts \subseteq KnownScripts
    /\ cohorts[key].recorded \in {NoDigest, Digest(cohorts[key].predicate)}

\* The versions among the twelve inputs are literals; what varies is the cohort.
CanonicalInputs(predicate) == [scheme |-> "v1", cohort |-> Digest(predicate)]

\* Mutant: one cohort's digest for every run.
CohortBlind(predicate) == CanonicalInputs(CHOOSE p \in Predicates : TRUE)

RunId(predicate) == CanonicalInputs(predicate)

RunIds == {RunId(p) : p \in Predicates}

\* The superseded formula: the cohort is not among its inputs.
LegacyRunId(version, scoring) == [scheme |-> "legacy", version |-> version, scoring |-> scoring]

\* A listen without a failure reason compares as NULL, and is not selected.
SelectedBy(predicate, scripts, reason) ==
  /\ predicate.scripts \cap scripts # {}
  /\ predicate.reasons # {} => reason \in predicate.reasons

-----------------------------------------------------------------------------
(* The registry of runs *)

CohortRow(key, cohort) ==
  [key |-> key, mart |-> cohort.mart, canonical |-> {RunId(cohort.predicate)},
   legacy |-> LegacyRunId(LiveRules, LiveScoring), cohort |-> {Digest(cohort.predicate)}]

LegacyRow(run) == [key |-> run, mart |-> run, canonical |-> {}, legacy |-> run, cohort |-> {}]

RegistryRows(cohorts) ==
  {CohortRow(key, cohorts[key]) : key \in CohortKeys} \cup {LegacyRow(run) : run \in LegacyRuns}

\* assert_restatement_identity_separates_cohorts, of the rows that describe a cohort.
SeparatesCohorts(rows) ==
  LET runs == {row \in rows : row.cohort # {}} IN
  /\ Cardinality(runs) >= 2
  /\ Cardinality({row.canonical : row \in runs}) = Cardinality(runs)
  /\ Cardinality({row.cohort : row \in runs}) = Cardinality(runs)
  /\ Cardinality({row.legacy : row \in runs}) = 1
  /\ Cardinality({row \in runs : row.mart # NoRun}) = 1
  /\ Cardinality({row \in runs : row.mart = NoRun}) = 1

=============================================================================
