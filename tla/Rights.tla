------------------------------- MODULE Rights -------------------------------
(***************************************************************************)
(* The modelled rights, from the generator to the money: build_rights.py   *)
(* lands the three tables of splitsheet_rights one after the other, dbt    *)
(* derives from them, in tables that are not rebuilt together, what each   *)
(* holder is paid, and verify_rights.py clears the layer.                  *)
(*                                                                         *)
(* The lander is run by hand, by one operator at a time; the builder is    *)
(* the pipeline's tail (dbt build, verify_rights, publish), or the same    *)
(* commands by hand, one at a time. Neither waits for the other.           *)
(***************************************************************************)
EXTENDS RightsModel, Ownership

CONSTANTS
  MatchRuns,
  FrozenRun,        \* universe.match_run_id, of the model and of the payout policy
  MatchedAs(_, _),  \* of a match run and a listen: [recording, day, matched, method]
  PolicyVersion,    \* the version whose generation the payout policy names
  Revised,          \* --revise-payee-status
  NoTable, Idle,
  MaxMishaps        \* edits of the config, rematches and killed processes: a bound

VARIABLES
  config,       \* config/rights_model.yml: the version it holds and the one recorded
  matches,      \* the match run in silver_listen_matches
  landed,       \* splitsheet_rights: each table's rows and the run they are labelled with
  staged,       \* stg_<table>
  report,       \* docs/phase0/rights_generation.json
  validity, eligibility, resolution, disposition, streams,  \* the derived tables
  attribution,  \* what fct_royalty_attribution selects, before its guard
  lander, builder,
  verdict,      \* of the last verify_rights
  mishaps

inputs == <<config, matches>>
rights == <<landed, staged, report>>
derived == <<validity, eligibility, resolution, disposition, streams, attribution>>
vars == <<inputs, rights, derived, lander, builder, verdict, mishaps>>

Tables == {"rights_holders", "ownership_splits", "rate_card"}
Models == {"validity", "eligibility", "resolution", "disposition", "streams", "fact"}

Matched(run) == [l \in Listens |-> MatchedAs(run, l)]
Catalogue(run) == {MatchedAs(run, l).recording : l \in {k \in Listens : MatchedAs(run, k).matched}}

\* recording_universe, as the query finds it now.
FoundUniverse == IF matches = FrozenRun THEN Universe ELSE {}

ASSUME RightsAssumption ==
  /\ IsFiniteSet(Listens) /\ Streams \in [Listens -> Nat]
  /\ FrozenRun \in MatchRuns /\ PolicyVersion \in Versions
  /\ Catalogue(FrozenRun) = Universe
  /\ \A run \in MatchRuns : Catalogue(run) \cap Orphans = {}
  /\ \A v, w \in Versions : RightsVersion(v) = RightsVersion(w) => v = w
  /\ Revised \in 1 .. HolderCount

-----------------------------------------------------------------------------
(* build_rights.py *)

\* holder_row, with the status revise_holders flips.
HolderRows(v, revised) ==
  {[holder |-> h, pending |-> (h \in PendingPayees(v)) # (revised /\ h < Revised)] : h \in Holders}

\* What a version generates over the universe, computed once.
SplitsOf == [v \in Versions |-> OwnershipSplits(v, Universe)]
Defect == [v \in Versions |-> [r \in Universe \cup Orphans |-> DefectOf(v, r, Universe)]]
WithDefect(v, kind) == {r \in Universe : Defect[v][r] = kind}

Generated(table, v, revised) ==
  CASE table = "rights_holders"   -> HolderRows(v, revised)
    [] table = "ownership_splits" -> SplitsOf[v]
    [] table = "rate_card"        -> RateCard(v)

RunOf(v, revised) == <<v, revised>>
NoRun == Null

\* A NULL is no label, no set, no rate, no count and no status.
ASSUME NullAssumption ==
  /\ Null \notin Nat
  /\ Null # "NOT_APPLICABLE" /\ Null \notin DOMAIN OwnershipStatus
  /\ \A status \in DOMAIN OwnershipStatus : OwnershipStatus[status] # Null
  /\ Null \notin Versions \X BOOLEAN
  /\ \A v \in Versions, r \in Universe \cup Orphans, from \in Base .. OpenEnd :
       SplitVersionId(v, r, from) # Null

\* Mutant: a revision lands every table.
EveryTarget(revised) == <<"rights_holders", "ownership_splits", "rate_card">>

Targets(revised) ==
  IF revised THEN <<"rights_holders">> ELSE <<"rights_holders", "ownership_splits", "rate_card">>

\* The config is read once, here, and the universe of the catalogue has the expected size.
StartLanding ==
  /\ lander = Idle
  /\ Loads(config)
  /\ Cardinality(FoundUniverse) = Cardinality(Universe)
  /\ \E revised \in BOOLEAN :
       lander' = [at |-> "load", version |-> config.version, revised |-> revised, target |-> 1]
  /\ UNCHANGED <<inputs, rights, derived, builder, verdict, mishaps>>

Target == Targets(lander.revised)[lander.target]
GeneratedNow == Generated(Target, lander.version, lander.revised)

\* Mutant: the staging table is appended to, not truncated.
Appended(table) == GeneratedNow \cup (IF staged[table] = NoTable THEN {} ELSE staged[table])

\* WRITE_TRUNCATE.
Truncated(table) == GeneratedNow

LoadStaging ==
  /\ lander # Idle /\ lander.at = "load"
  /\ staged' = [staged EXCEPT ![Target] = Truncated(Target)]
  /\ lander' = [lander EXCEPT !.at = "insert"]
  /\ UNCHANGED <<inputs, landed, report, derived, builder, verdict, mishaps>>

\* One transaction deletes every row and inserts the staged ones, under this run's label.
InsertFromStaging ==
  /\ lander # Idle /\ lander.at = "insert"
  /\ landed' = [landed EXCEPT ![Target] =
                  [run |-> RunOf(lander.version, lander.revised), rows |-> staged[Target]]]
  /\ lander' = [lander EXCEPT !.at = "drop"]
  /\ UNCHANGED <<inputs, staged, report, derived, builder, verdict, mishaps>>

DropStaging ==
  /\ lander # Idle /\ lander.at = "drop"
  /\ staged' = [staged EXCEPT ![Target] = NoTable]
  /\ lander' = IF lander.target < Len(Targets(lander.revised))
               THEN [lander EXCEPT !.at = "load", !.target = @ + 1]
               ELSE [lander EXCEPT !.at = "report"]
  /\ UNCHANGED <<inputs, landed, report, derived, builder, verdict, mishaps>>

\* A revision is reported in a file of its own.
WriteReport ==
  /\ lander # Idle /\ lander.at = "report"
  /\ report' = IF lander.revised THEN report ELSE lander.version
  /\ lander' = Idle
  /\ UNCHANGED <<inputs, landed, staged, derived, builder, verdict, mishaps>>

-----------------------------------------------------------------------------
(* dbt: the models in the order they depend on each other, each replaced whole *)

HolderIds == {h.holder : h \in landed["rights_holders"].rows}
Splits == landed["ownership_splits"].rows
Rates == landed["rate_card"].rows

Building(model) == builder # Idle /\ builder.at = model
Then(next) == builder' = [builder EXCEPT !.at = next]
UntouchedByDbt == <<inputs, rights, lander, verdict, mishaps>>

StartBuild ==
  /\ builder = Idle
  /\ builder' = [at |-> "validity"]
  /\ UNCHANGED <<inputs, rights, derived, lander, verdict, mishaps>>

BuildValidity ==
  /\ Building("validity")
  /\ validity' = Validity(Splits, HolderIds, Catalogue(matches))
  /\ Then("eligibility")
  /\ UNCHANGED <<UntouchedByDbt, eligibility, resolution, disposition, streams, attribution>>

BuildEligibility ==
  /\ Building("eligibility")
  /\ eligibility' = Matched(matches)
  /\ Then("resolution")
  /\ UNCHANGED <<UntouchedByDbt, validity, resolution, disposition, streams, attribution>>

\* The recording-days are a table of their own, rebuilt from the eligibility just before.
BuildResolution ==
  /\ Building("resolution")
  /\ resolution' = Resolution(RecordingDays(eligibility), validity, Rates)
  /\ Then("disposition")
  /\ UNCHANGED <<UntouchedByDbt, validity, eligibility, disposition, streams, attribution>>

BuildDisposition ==
  /\ Building("disposition")
  /\ disposition' = Disposition(eligibility, resolution)
  /\ Then("streams")
  /\ UNCHANGED <<UntouchedByDbt, validity, eligibility, resolution, streams, attribution>>

BuildStreams ==
  /\ Building("streams")
  /\ streams' = AttributableStreams(disposition, Rates)
  /\ Then("fact")
  /\ UNCHANGED <<UntouchedByDbt, validity, eligibility, resolution, disposition, attribution>>

BuildFact ==
  /\ Building("fact")
  /\ attribution' = Attribution(streams, Splits)
  /\ builder' = Idle
  /\ UNCHANGED <<UntouchedByDbt, validity, eligibility, resolution, disposition, streams>>

\* verify_frozen_inputs looks at the match run, the splits and the rate card as they are now;
\* what publish.py builds starts at the disposition, on the resolution that is there.
StartPublish ==
  /\ builder = Idle
  /\ resolution # NoTable
  /\ matches = FrozenRun
  /\ landed["ownership_splits"].run = RunOf(PolicyVersion, FALSE)
  /\ landed["rate_card"].run = RunOf(PolicyVersion, FALSE)
  /\ builder' = [at |-> "disposition"]
  /\ UNCHANGED <<inputs, rights, derived, lander, verdict, mishaps>>

-----------------------------------------------------------------------------
(* verify_rights.py *)

Injected(kind, v) ==
  CASE kind \in Kinds                     -> Cardinality(WithDefect(v, kind))
    [] kind = "orphan_recording_mbid"     -> Cardinality(Orphans)
    [] kind = "holder_without_split"      -> Reserved

Regenerated(v) ==
  <<HolderCount, Cardinality(OwnershipSplits(v, FoundUniverse)), Cardinality(RateCard(v))>>
Reported(v) ==
  <<HolderCount, Cardinality(SplitsOf[v]), Cardinality(RateCard(v))>>

\* The report, the config and the match run are read; then the generator is run again.
StartVerify ==
  /\ builder = Idle
  /\ report # Null /\ Loads(config) /\ validity # NoTable
  /\ builder' = [at |-> "detect", version |-> report,
                 agrees |-> Regenerated(config.version) = Reported(report)]
  /\ verdict' = "none"
  /\ UNCHANGED <<inputs, rights, derived, lander, mishaps>>

\* Some kinds are counted by set, and some by recording.
Flagged(kind) == {s \in validity : kind \in s.flags}
Detected(kind) ==
  IF kind \in {"temporal_overlap", "temporal_gap", "orphan_recording_mbid"}
  THEN Cardinality({s.recording : s \in Flagged(kind)})
  ELSE Cardinality(Flagged(kind))

\* Mutant: the defects are compared all together.
AgreesInTotal ==
  LET kinds == Kinds \cup {"orphan_recording_mbid"} IN
  SumFunction([kind \in kinds |-> Injected(kind, builder.version)])
    = SumFunction([kind \in kinds |-> Detected(kind)])

Agrees ==
  \A kind \in Kinds \cup {"orphan_recording_mbid"} :
    Injected(kind, builder.version) = Detected(kind)

HoldersWithoutSplit == Cardinality(HolderIds \ {r.holder : r \in Splits})

Detect ==
  /\ Building("detect")
  /\ builder' = [builder EXCEPT !.at = "holders", !.agrees = @ /\ Agrees]
  /\ UNCHANGED <<inputs, rights, derived, lander, verdict, mishaps>>

\* THE GATE, after the holders were counted in the landed tables.
Reconcile ==
  /\ Building("holders")
  /\ verdict' = IF /\ builder.agrees
                   /\ HoldersWithoutSplit = Injected("holder_without_split", builder.version)
                THEN "cleared" ELSE "refused"
  /\ builder' = Idle
  /\ UNCHANGED <<inputs, rights, derived, lander, mishaps>>

-----------------------------------------------------------------------------
(* What happens around them *)

\* Somebody edits the model, and the digest with it or not.
EditConfig ==
  /\ mishaps < MaxMishaps
  /\ \E v \in Versions, digest \in BOOLEAN :
       /\ v # config.version
       /\ config' = [version |-> v, recorded |-> IF digest THEN v ELSE config.recorded]
  /\ mishaps' = mishaps + 1
  /\ UNCHANGED <<matches, rights, derived, lander, builder, verdict>>

\* build_match_results replaces the period's matches.
Rematch ==
  /\ mishaps < MaxMishaps
  /\ matches' \in MatchRuns \ {matches}
  /\ mishaps' = mishaps + 1
  /\ UNCHANGED <<config, rights, derived, lander, builder, verdict>>

KillLander ==
  /\ mishaps < MaxMishaps /\ lander # Idle
  /\ lander' = Idle /\ mishaps' = mishaps + 1
  /\ UNCHANGED <<inputs, rights, derived, builder, verdict>>

KillBuilder ==
  /\ mishaps < MaxMishaps /\ builder # Idle
  /\ builder' = Idle /\ mishaps' = mishaps + 1
  /\ UNCHANGED <<inputs, rights, derived, lander, verdict>>

-----------------------------------------------------------------------------
Init ==
  /\ config = [version |-> PolicyVersion, recorded |-> PolicyVersion]
  /\ matches = FrozenRun
  /\ landed = [t \in Tables |-> [run |-> NoRun, rows |-> {}]]
  /\ staged = [t \in Tables |-> NoTable]
  /\ report = Null
  /\ validity = NoTable /\ eligibility = NoTable /\ resolution = NoTable
  /\ disposition = NoTable /\ streams = NoTable /\ attribution = {}
  /\ lander = Idle /\ builder = Idle
  /\ verdict = "none"
  /\ mishaps = 0

Land == StartLanding \/ LoadStaging \/ InsertFromStaging \/ DropStaging \/ WriteReport
Dbt == \/ StartBuild \/ BuildValidity \/ BuildEligibility \/ BuildResolution
       \/ BuildDisposition \/ BuildStreams \/ BuildFact
Clear == StartVerify \/ Detect \/ Reconcile
Happen == EditConfig \/ Rematch \/ KillLander \/ KillBuilder

Next == Land \/ Dbt \/ StartPublish \/ Clear \/ Happen

Spec == Init /\ [][Next]_vars

-----------------------------------------------------------------------------
(* Properties *)

\* The shape of every table and session. A revision has one target: it leaves the splits
\* and the rates alone (build_rights.py:202).
TypeOK ==
  /\ config.version \in Versions /\ config.recorded \in Versions /\ matches \in MatchRuns
  /\ \A t \in Tables :
       /\ landed[t].run \in {NoRun} \cup (Versions \X BOOLEAN)
       /\ t # "rights_holders" => \A v \in Versions : landed[t].run # RunOf(v, TRUE)
  /\ report \in Versions \cup {Null}
  /\ lander # Idle => /\ lander.at \in {"load", "insert", "drop", "report"}
                      /\ lander.version \in Versions /\ lander.revised \in BOOLEAN
                      /\ lander.target \in 1 .. Cardinality(Tables)
  /\ builder # Idle => builder.at \in Models \cup {"detect", "holders"}
  /\ verdict \in {"none", "cleared", "refused"}

\* The rows of a landed table are the ones the run on their label generates, whatever died
\* between the staging, the insert and the drop of an earlier landing (build_rights.py:266).
LandedAsGenerated ==
  \A t \in Tables :
    landed[t].run # NoRun =>
      \E v \in Versions, r \in BOOLEAN :
        landed[t].run = RunOf(v, r) /\ landed[t].rows = Generated(t, v, r)

\* The version a split set was generated under is in its id.
VersionOf(set) == CHOOSE v \in Versions : RightsVersion(v) = set.split[1]

\* The quality layer finds the defect each recording was given, and no other, though the
\* source does not label it and the holders may be of another landing. An orphan is one by
\* the matches (int_ownership_validity.sql:106).
DefectsAreFound ==
  validity # NoTable =>
    \A s \in validity :
      LET kind == Defect[VersionOf(s)][s.recording] IN
      s.flags \ {"orphan_recording_mbid"} = IF kind = Healthy THEN {} ELSE {kind}

\* When verify_rights clears the layer, the recordings the quality layer flagged are those
\* the generation of the sets it read gave the defect to, kind by kind, the orphans included,
\* and as many as the report says: the gate compares only counts, and the sets may be of
\* another generation than the report, with other quotas, and the catalogue of another match
\* run than they were generated for (verify_rights.py:396).
ClearedIsAsInjected ==
  [][(verdict = "none" /\ verdict' = "cleared") =>
       /\ {s.recording : s \in Flagged("orphan_recording_mbid")} = Orphans
       /\ \A kind \in Kinds :
            LET found == {s.recording : s \in Flagged(kind)} IN
            /\ Cardinality(found) = Injected(kind, builder.version)
            /\ \A s \in validity : found = WithDefect(VersionOf(s), kind)]_vars

\* The gates in SQL decide each listen as PayoutPolicy.disposition does, and the columns that
\* can be multiplied are there exactly where the listen is attributable, on a disposition
\* whose eligibility and resolution were built apart (int_financial_disposition.sql:135).
GatesAgree ==
  disposition # NoTable =>
    \A l \in Listens :
      LET d == disposition[l] IN
      /\ d.status = PythonDisposition(d.matched, d.method, d.resolved, d.rateRows)
      /\ (d.split # Null) = (d.status = "ATTRIBUTABLE")
      /\ (d.rate # Null) = (d.status = "ATTRIBUTABLE")

PayableOn(run, recording, from, to) ==
  {l \in Listens : LET m == MatchedAs(run, l) IN
     /\ Eligible(m) /\ m.recording = recording
     /\ from <= m.day /\ m.day < to}

\* Every amount is of one ownership set of one generation, complete and without a defect: its
\* holders and shares are the set's, and no more streams are paid under it than one match run
\* has payable listens on the days the set and the rate were both in force. The resolution
\* may be of one landing and the splits joined to it of another (fct_royalty_attribution.sql:80).
PaidAsOwned ==
  \A paid \in attribution :
    LET g == paid.group IN
    \E v \in Versions :
      LET rows == RowsOf(g, SplitsOf[v])
      IN  /\ g.recording \in Universe
          /\ Defect[v][g.recording] = Healthy
          /\ rows # {} /\ paid.share = Shares(rows)
          /\ \E s \in rows, run \in MatchRuns : \E c \in UNION {RateCard(w) : w \in Versions} :
               /\ c.card = g.card /\ c.rate = g.rate
               /\ paid.streams <= SumFunctionOnSet(Streams, PayableOn(run, g.recording, s.from, s.to)
                                                          \cap PayableOn(run, g.recording, c.from, c.to))

\* The cents of a group's holders add up to its rounded gross, and no holder is given two of
\* the leftover cents or has one taken (fct_royalty_attribution.sql:93, rounding.py:84).
ClosesInCents ==
  \A paid \in attribution :
    LET target == TargetCents(paid.streams, paid.group.rate)
        amount == Unrounded(paid.streams, paid.group.rate, paid.share)
    IN  /\ ClosesIn(paid.cents, target)
        /\ \A h \in DOMAIN paid.share :
             paid.cents[h] - (amount[h] \div 100000000) \in {0, 1}

\* rounding.py:120, tests/integration/test_payout_contract.py:341: the warehouse pays each
\* holder the cents that allocate gives.
CentsAsPython ==
  \A paid \in attribution :
    paid.cents = PythonCents(paid.streams, paid.group.rate, paid.share)

=============================================================================
