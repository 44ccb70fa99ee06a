--------------------------- MODULE FinancialLayer ---------------------------
(***************************************************************************)
(* The financial half of the warehouse: the match results it reads, the    *)
(* tables dbt rebuilds from them, and the two tables dbt only ever appends *)
(* to -- the publications (fct_royalty_attribution) and the restatement    *)
(* deltas (fct_restatements).  One operator per dbt model that keeps state,*)
(* one per data test that can stop a build; module Publication schedules   *)
(* them.                                                                   *)
(*                                                                         *)
(* Amounts are abstracted to the match results they were priced from.  A   *)
(* "universe" is one match result of the period.  A "statement" is what a  *)
(* build prices: the listens of one universe, on ownership resolved for    *)
(* the recording-days of another -- the same one, unless a build stopped   *)
(* half way left tables of different generations.  The content of a        *)
(* publication is the set of statements merged into it.                    *)
(***************************************************************************)
EXTENDS Integers, FiniteSets, FiniteSetsExt

CONSTANTS
  Universes,        \* match results: the published one, later ones, restated ones
  NoTable,          \* a table that does not exist
  Amount,           \* what a universe pays over the period
  Barren,           \* universes in which no listen is attributable
  Complete,         \* universes that hold every listen of the period
  Covers,           \* <<d, f>>: all recordings paid out of f are attributable in d
  Runs,             \* attribution_run_ids
  PriorRun,         \* var prior_attribution_run_id: the run of pub:v1
  PriorPaid,        \* var prior_portfolio_paid, the total pub:v1 was frozen with
  RestatementIds,   \* restatement_run_ids
  RecordedDelta,    \* restatement_run_registry: the delta recorded for an id ...
  Unexplained       \* ... or this, for an id the registry does not hold

ASSUME UniversesAssumption ==
  /\ NoTable \notin Universes
  /\ Amount \in [Universes -> Nat]
  /\ Barren \subseteq Universes
  /\ Complete \subseteq Universes
  /\ Covers \subseteq Universes \X Universes

ASSUME RunsAssumption ==
  /\ PriorRun \in Runs
  /\ PriorPaid \in Nat
  /\ RecordedDelta \in [RestatementIds -> Int \cup {Unexplained}]

VARIABLES
  silver,     \* the universe in silver_listen_matches
  restated,   \* the universe in silver_listen_matches_restated
  derived,    \* the rebuilt tables: the universes each was computed from
  fact,       \* fct_royalty_attribution, by attribution_run_id
  delta,      \* fct_restatements, by restatement_run_id
  recon       \* restatement_reconciliation: delta_reconciles_exactly

layerVars == <<silver, restated, derived, fact, delta, recon>>

Statements == [listens : Universes, owners : Universes]
Contents == SUBSET Statements

\* The rows under one run id. `stamp` stands for published_at: it moves each
\* time a MERGE writes rows under the id.
Publications == [content : Contents, stamp : Nat]
Unpublished == [content |-> {}, stamp |-> 0]

\* One pass of fct_restatements: the two publications it compared.
Changes == [prior : Contents, new : Contents]

DerivedTables == [eligibility : Universes, resolution : Universes,
                  disposition : Statements, streams : Statements]

LayerTypeOK ==
  /\ silver \in Universes
  /\ restated \in Universes \cup {NoTable}
  /\ derived \in DerivedTables
  /\ fact \in [Runs -> Publications]
  /\ delta \in [RestatementIds -> SUBSET Changes]
  /\ recon \in {"absent", "exact", "inexact"}

-----------------------------------------------------------------------------
(* What is read off the tables *)

\* A listen is attributable only if its own universe matched it and the other
\* one had an owner for its recording.
Sources(statement) == {statement.listens, statement.owners}

\* The rows fct_royalty_attribution makes of int_attributable_streams.
Priced(statement) ==
  IF Sources(statement) \cap Barren = {} THEN {statement} ELSE {}

\* SUM(holder_payout) over a content.
Paid(content) ==
  MapThenSumSet(LAMBDA st : Min({Amount[u] : u \in Sources(st)}), content)

Difference(change) == Paid(change.new) - Paid(change.prior)

-----------------------------------------------------------------------------
(* Models rebuilt on every build: CREATE OR REPLACE TABLE ... AS SELECT *)

\* stg_silver__listen_matches is a view over the table `matches_source` names,
\* "restated" for every caller; int_payout_eligibility materialises it.
BuildEligibility == derived' = [derived EXCEPT !.eligibility = restated]

BuildResolution == derived' = [derived EXCEPT !.resolution = derived.eligibility]

BuildDisposition ==
  derived' = [derived EXCEPT !.disposition =
                [listens |-> derived.eligibility, owners |-> derived.resolution]]

BuildStreams == derived' = [derived EXCEPT !.streams = derived.disposition]

\* Every caller builds it with prior_attribution_run_id = PriorRun. The totals
\* of an absent publication are NULL, and so is any comparison with them.
ReconcilesExactly(run, rid) ==
  /\ fact[PriorRun].content # {}
  /\ fact[run].content # {}
  /\ \E change \in delta[rid] :
       /\ delta[rid] = {change}
       /\ Difference(change) = Paid(fact[run].content) - Paid(fact[PriorRun].content)
  /\ restated \in Complete
  /\ derived.disposition.listens \in Complete

BuildReconciliation(run, rid) ==
  recon' = IF ReconcilesExactly(run, rid) THEN "exact" ELSE "inexact"

-----------------------------------------------------------------------------
(* Incremental models: a guarded select into a temporary relation, then a   *)
(* MERGE of what it held                                                    *)

\* Mutant: the select without its guard.
SelectAlways(run) == Priced(derived.streams)

SelectAttribution(run) ==
  IF fact[run].content = {} THEN Priced(derived.streams) ELSE {}

\* Equal keys are updated, new keys inserted: in both cases the rows carry the
\* published_at of this merge.
MergeAttribution(run, rows) ==
  fact' = IF rows = {} THEN fact
          ELSE [fact EXCEPT ![run] = [content |-> @.content \cup rows,
                                      stamp |-> @.stamp + 1]]

\* Mutants: the select without its guard; the two sides swapped; the prior side
\* taken from the rebuilt tables.
SelectChangesAlways(run, rid) ==
  {[prior |-> fact[PriorRun].content, new |-> fact[run].content]}
SelectSwapped(run, rid) ==
  IF delta[rid] = {} /\ fact[PriorRun].content \cup fact[run].content # {}
  THEN {[prior |-> fact[run].content, new |-> fact[PriorRun].content]}
  ELSE {}
SelectAgainstRebuilt(run, rid) ==
  IF delta[rid] = {}
  THEN {[prior |-> Priced(derived.streams), new |-> fact[run].content]}
  ELSE {}

\* The guard looks only at the restatement id; a full outer join of two absent
\* publications has no rows.
SelectRestatement(run, rid) ==
  IF delta[rid] = {} /\ fact[PriorRun].content \cup fact[run].content # {}
  THEN {[prior |-> fact[PriorRun].content, new |-> fact[run].content]}
  ELSE {}

MergeRestatement(rid, rows) == delta' = [delta EXCEPT ![rid] = @ \cup rows]

-----------------------------------------------------------------------------
(* Data tests: a failing one stops the models below it *)

\* assert_prior_publication_is_untouched, against the total passed in the vars
PriorUntouched(paid) ==
  /\ fact[PriorRun].content # {}
  /\ Paid(fact[PriorRun].content) = paid

\* assert_held_listens_never_produce_money, its last branch: every recording
\* that was ever paid is attributable in the disposition of the day.
NothingHeldReachedTheFact ==
  \A run \in Runs : \A statement \in fact[run].content :
    \A d \in Sources(derived.disposition) :
      \E f \in Sources(statement) : <<d, f>> \in Covers

\* Mutant: the recorded amount is not compared.
ExplainedByName(rid) ==
  delta[rid] # {} => RecordedDelta[rid] # Unexplained

\* assert_every_restatement_run_id_is_explained
Explained(rid) ==
  delta[rid] # {} =>
    \E change \in delta[rid] :
      /\ delta[rid] = {change}
      /\ RecordedDelta[rid] # Unexplained
      /\ Difference(change) = RecordedDelta[rid]

EveryDeltaIsExplained == \A rid \in RestatementIds : Explained(rid)

\* assert_restatement_delta_reconciles_exactly and the not_null tests
DeltaReconciles == recon = "exact"

=============================================================================
