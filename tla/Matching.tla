------------------------------ MODULE Matching ------------------------------
(***************************************************************************)
(* The programs that turn the normalized listens into match results:       *)
(*                                                                         *)
(*   texts      src/normalization/build_canonical_texts.py                 *)
(*   blocking   src/matching/build_blocking.py                             *)
(*   features   src/matching/build_candidate_features.py                   *)
(*   matches    src/matching/build_match_results.py                        *)
(*                                                                         *)
(* Each of them looks whether its target already carries the identity it   *)
(* was asked for, and ends there if so.  Otherwise it fills a staging      *)
(* table, validates it, swaps it into the target in one transaction, and   *)
(* drops it.  The staging tables have fixed names and are shared by        *)
(* whoever runs the program: the scheduler, one DAG run at a time, in the  *)
(* order of dags/pipeline_spec.py and with its retries, and operators, who *)
(* run any of them by hand.                                                *)
(*                                                                         *)
(* Rows are abstracted to what they were made of.  A version stands for a  *)
(* normalization version with the blocking version it is used with; the    *)
(* candidate_run_id hashed from it is the version itself.                  *)
(***************************************************************************)
EXTENDS Naturals, Sequences

CONSTANTS
  Versions,
  Ratified,     \* the version the EXPECTED_* counts were measured on
  TextsCover,   \* <<t, c>>: the recordings of candidates t include those of c
  Operators,    \* shells in which programs are run by hand
  Scheduler,
  Nothing,      \* a table without rows
  NoTable       \* a staging table that does not exist

ASSUME MatchingAssumption ==
  /\ Ratified \in Versions
  /\ TextsCover \subseteq Versions \X Versions
  /\ Scheduler \notin Operators
  /\ Nothing \notin Versions /\ NoTable \notin Versions
  /\ Nothing # NoTable

VARIABLES
  mapping,   \* the version listen_pair_normalization was loaded under
  table,     \* the published tables
  stg,       \* the staging tables
  session,   \* what runs in each shell, and in the scheduler's worker
  dag        \* the DAG run, if one is active

vars == <<mapping, table, stg, session, dag>>

Sessions == Operators \cup {Scheduler}
Jobs == {"texts", "blocking", "features", "matches"}

\* candidate_run_id, which is also the version on the rows; and the version of
\* the listens that were really joined.
Candidates == [run : Versions, of : Versions]
\* source_universe and normalization_version; the candidates whose recordings it
\* holds, and the rules they were really normalized under.
Texts == [universe : Versions, version : Versions, of : Versions, rules : Versions]
Features == [version : Versions, universe : Versions, of : Versions,
             texts : Texts, listens : Versions]
Matches == [version : Versions, universe : Versions, of : Versions \cup {Nothing},
            features : Features \cup {Nothing}, listens : Versions]

\* A table without rows is not one that has some.
ASSUME RowsAssumption == Nothing \notin Candidates \cup Texts \cup Features \cup Matches

Tables == [listens    : Versions \cup {Nothing},    \* silver_listens_normalized
           candidates : Candidates \cup {Nothing},  \* silver_match_candidates
           texts      : Texts \cup {Nothing},       \* canonical_match_texts
           features   : Features \cup {Nothing},    \* silver_candidate_features
           matches    : Matches \cup {Nothing}]     \* silver_listen_matches

\* Staged texts have no labels yet.
TextRows == [of : Versions, rules : Versions]

StagingTables == [listens    : Versions \cup {NoTable},
                  candidates : Versions \cup {NoTable},
                  texts      : TextRows \cup {Nothing, NoTable},
                  features   : Features \cup {Nothing, NoTable},
                  matches    : Matches \cup {Nothing, NoTable}]

Steps == {"idle", "inspect", "stage", "validate", "stage_candidates",
          "validate_candidates", "load", "publish", "drop", "drop_candidates", "check"}

SessionStates == [job : Jobs, version : Versions, universe : Versions, pc : Steps,
                  made : TextRows \cup {Nothing},   \* the local file of `texts`
                  outcome : {"none", "done", "refused", "crashed", "killed"}]

\* The tasks that write these tables, in the order of the graph, with their retries.
Tasks == <<"texts", "blocking", "features", "matches">>
Retries == [job \in Jobs |-> IF job = "matches" THEN 1 ELSE 2]

DagStates == [version : Versions, universe : Versions,  \* the params of the run
              at : 0 .. Len(Tasks),                     \* 0 when none is active
              tries : 0 .. 2]

TypeOK ==
  /\ mapping \in Versions
  /\ table \in Tables
  /\ stg \in StagingTables
  /\ session \in [Sessions -> SessionStates]
  /\ dag \in DagStates

Resting == [job |-> "texts", version |-> Ratified, universe |-> Ratified, pc |-> "idle",
            made |-> Nothing, outcome |-> "none"]

NoRun == [version |-> Ratified, universe |-> Ratified, at |-> 0, tries |-> 0]

\* The tables as Terraform creates them.
Init ==
  /\ mapping \in Versions
  /\ table = [listens |-> Nothing, candidates |-> Nothing, texts |-> Nothing,
              features |-> Nothing, matches |-> Nothing]
  /\ stg = [listens |-> NoTable, candidates |-> NoTable, texts |-> NoTable,
            features |-> NoTable, matches |-> NoTable]
  /\ session = [s \in Sessions |-> Resting]
  /\ dag = NoRun

-----------------------------------------------------------------------------
(* What the programs ask of the tables *)

\* inspect_target: the target carries the identity asked for, at its full size.
BlockingDone(version) ==
  /\ version = Ratified
  /\ table.candidates = [run |-> version, of |-> Ratified]

\* Mutant: the normalization version is not compared.
TextsOfUniverse(version, universe) ==
  /\ table.texts # Nothing
  /\ table.texts.universe = universe

TextsDone(version, universe) ==
  /\ table.texts # Nothing
  /\ table.texts.universe = universe /\ table.texts.version = version

\* The feature staging has a row per scored pair of the ratified candidates.
FullSize(features) ==
  /\ features # Nothing
  /\ features.of = Ratified
  /\ <<features.texts.of, features.of>> \in TextsCover \cup {<<v, v>> : v \in Versions}

FeaturesDone(version, universe) ==
  /\ FullSize(table.features)
  /\ table.features.version = version /\ table.features.universe = universe

MatchesDone(version, universe) ==
  /\ table.matches # Nothing
  /\ table.matches.version = version /\ table.matches.universe = universe

Already(job, version, universe) ==
  CASE job = "blocking" -> BlockingDone(version)
    [] job = "texts"    -> TextsDone(version, universe)
    [] job = "features" -> FeaturesDone(version, universe)
    [] job = "matches"  -> MatchesDone(version, universe)

\* The candidates that carry a run id.
CandidatesOf(universe) ==
  IF table.candidates # Nothing /\ table.candidates.run = universe
  THEN table.candidates.of ELSE Nothing

TextRowsOf(version, universe) ==
  LET of == CandidatesOf(universe)
  IN  IF of = Nothing THEN Nothing ELSE [of |-> of, rules |-> version]

\* The listens and the texts are joined whatever they carry.
FeatureRows(version, universe) ==
  LET of == CandidatesOf(universe)
  IN  IF Nothing \in {of, table.listens, table.texts} THEN Nothing
      ELSE [version |-> version, universe |-> universe, of |-> of,
            texts |-> table.texts, listens |-> table.listens]

\* One row per normalized listen; candidates and scores only for those that have any.
MatchRows(version, universe) ==
  IF table.listens = Nothing THEN Nothing
  ELSE [version |-> version, universe |-> universe, of |-> CandidatesOf(universe),
        features |-> IF table.features # Nothing /\ table.features.universe = universe
                     THEN table.features ELSE Nothing,
        listens |-> table.listens]

-----------------------------------------------------------------------------
(* Moving a session along *)

At(s, job, pc) == session[s].job = job /\ session[s].pc = pc
Idle(s) == session[s].pc = "idle"
Version(s) == session[s].version
Universe(s) == session[s].universe

Goto(s, pc) == session' = [session EXCEPT ![s].pc = pc]
Stop(s, outcome) == session' = [session EXCEPT ![s] = [Resting EXCEPT !.outcome = outcome]]
GotoIf(s, condition, pc, otherwise) ==
  IF condition THEN Goto(s, pc) ELSE Stop(s, otherwise)

Begin(s, job, version, universe) ==
  session' = [session EXCEPT ![s] =
    [Resting EXCEPT !.job = job, !.version = version, !.universe = universe,
                    !.pc = "inspect"]]

Inspect(s) ==
  /\ session[s].pc = "inspect"
  /\ IF Already(session[s].job, Version(s), Universe(s))
     THEN Stop(s, "done") ELSE Goto(s, "stage")
  /\ UNCHANGED <<mapping, table, stg, dag>>

\* A query over a table somebody dropped raises; a transaction that raises is
\* rolled back.
Absent(s, tables) ==
  /\ \E t \in tables : stg[t] = NoTable
  /\ Stop(s, "crashed")
  /\ UNCHANGED <<mapping, table, stg, dag>>

Present(tables) == \A t \in tables : stg[t] # NoTable

Drop(s, job, t, pc) ==
  /\ At(s, job, "drop")
  /\ stg' = [stg EXCEPT ![t] = NoTable]
  /\ IF pc = "idle" THEN Stop(s, "done") ELSE Goto(s, pc)
  /\ UNCHANGED <<mapping, table, dag>>

-----------------------------------------------------------------------------
(* blocking: the normalized listens and their candidates, published together *)

StageListens(s) ==
  /\ At(s, "blocking", "stage")
  /\ stg' = [stg EXCEPT !.listens = mapping]
  /\ Goto(s, "validate")
  /\ UNCHANGED <<mapping, table, dag>>

ValidateListens(s) ==
  /\ At(s, "blocking", "validate")
  /\ \/ Absent(s, {"listens"})
     \/ /\ Present({"listens"})
        /\ GotoIf(s, stg.listens = Version(s), "stage_candidates", "refused")
        /\ UNCHANGED <<mapping, table, stg, dag>>

StageCandidates(s) ==
  /\ At(s, "blocking", "stage_candidates")
  /\ \/ Absent(s, {"listens"})
     \/ /\ Present({"listens"})
        /\ stg' = [stg EXCEPT !.candidates = stg.listens]
        /\ Goto(s, "validate_candidates")
        /\ UNCHANGED <<mapping, table, dag>>

\* The grain, the keys and the two stages are checked, which any staged
\* candidates satisfy; whose they are is not.
ValidateCandidates(s) ==
  /\ At(s, "blocking", "validate_candidates")
  /\ \/ Absent(s, {"candidates"})
     \/ /\ Present({"candidates"})
        /\ Goto(s, "publish")
        /\ UNCHANGED <<mapping, table, stg, dag>>

\* Mutant: only the candidates are swapped.
PublishCandidatesAlone(s) ==
  /\ At(s, "blocking", "publish")
  /\ \/ Absent(s, {"listens", "candidates"})
     \/ /\ Present({"listens", "candidates"})
        /\ table' = [table EXCEPT !.candidates = [run |-> Version(s), of |-> stg.candidates]]
        /\ Goto(s, "drop")
        /\ UNCHANGED <<mapping, stg, dag>>

PublishCandidates(s) ==
  /\ At(s, "blocking", "publish")
  /\ \/ Absent(s, {"listens", "candidates"})
     \/ /\ Present({"listens", "candidates"})
        /\ table' = [table EXCEPT !.listens = stg.listens,
                       !.candidates = [run |-> Version(s), of |-> stg.candidates]]
        /\ Goto(s, "drop")
        /\ UNCHANGED <<mapping, stg, dag>>

DropCandidates(s) ==
  /\ At(s, "blocking", "drop_candidates")
  /\ stg' = [stg EXCEPT !.candidates = NoTable]
  /\ Stop(s, "done")
  /\ UNCHANGED <<mapping, table, dag>>

Blocking(s) ==
  \/ StageListens(s) \/ ValidateListens(s) \/ StageCandidates(s) \/ ValidateCandidates(s)
  \/ PublishCandidates(s) \/ Drop(s, "blocking", "listens", "drop_candidates")
  \/ DropCandidates(s)

-----------------------------------------------------------------------------
(* texts: normalized locally, uploaded, loaded; the counts are compared        *)

ReadTexts(s) ==
  /\ At(s, "texts", "stage")
  /\ session' = [session EXCEPT ![s] =
       [@ EXCEPT !.pc = "load", !.made = TextRowsOf(Version(s), Universe(s))]]
  /\ UNCHANGED <<mapping, table, stg, dag>>

LoadTexts(s) ==
  /\ At(s, "texts", "load")
  /\ stg' = [stg EXCEPT !.texts = session[s].made]
  /\ Goto(s, "publish")
  /\ UNCHANGED <<mapping, table, dag>>

\* An empty staging table empties the target: no labels, no rows.
PublishTexts(s) ==
  /\ At(s, "texts", "publish")
  /\ \/ Absent(s, {"texts"})
     \/ /\ Present({"texts"})
        /\ table' = [table EXCEPT !.texts =
             IF stg.texts = Nothing THEN Nothing
             ELSE [universe |-> Universe(s), version |-> Version(s),
                   of |-> stg.texts.of, rules |-> stg.texts.rules]]
        /\ Goto(s, "drop")
        /\ UNCHANGED <<mapping, stg, dag>>

SameCount(texts, rows) ==
  IF Nothing \in {texts, rows} THEN texts = rows ELSE texts.of = rows.of

CheckTexts(s) ==
  /\ At(s, "texts", "check")
  /\ Stop(s, IF SameCount(table.texts, session[s].made) THEN "done" ELSE "refused")
  /\ UNCHANGED <<mapping, table, stg, dag>>

BuildTexts(s) ==
  \/ ReadTexts(s) \/ LoadTexts(s) \/ PublishTexts(s)
  \/ Drop(s, "texts", "texts", "check") \/ CheckTexts(s)

-----------------------------------------------------------------------------
(* features and matches: staged rows carry their labels                        *)

StageFeatures(s) ==
  /\ At(s, "features", "stage")
  /\ stg' = [stg EXCEPT !.features = FeatureRows(Version(s), Universe(s))]
  /\ Goto(s, "validate")
  /\ UNCHANGED <<mapping, table, dag>>

\* Mutant: the number of pairs is not checked.
ValidateNothing(s) ==
  /\ At(s, "features", "validate")
  /\ \/ Absent(s, {"features"})
     \/ /\ Present({"features"})
        /\ Goto(s, "publish")
        /\ UNCHANGED <<mapping, table, stg, dag>>

ValidateFeatures(s) ==
  /\ At(s, "features", "validate")
  /\ \/ Absent(s, {"features"})
     \/ /\ Present({"features"})
        /\ GotoIf(s, FullSize(stg.features), "publish", "refused")
        /\ UNCHANGED <<mapping, table, stg, dag>>

PublishFeatures(s) ==
  /\ At(s, "features", "publish")
  /\ \/ Absent(s, {"features"})
     \/ /\ Present({"features"})
        /\ table' = [table EXCEPT !.features = stg.features]
        /\ Goto(s, "drop")
        /\ UNCHANGED <<mapping, stg, dag>>

BuildFeatures(s) ==
  \/ StageFeatures(s) \/ ValidateFeatures(s) \/ PublishFeatures(s)
  \/ Drop(s, "features", "features", "idle")

StageMatches(s) ==
  /\ At(s, "matches", "stage")
  /\ stg' = [stg EXCEPT !.matches = MatchRows(Version(s), Universe(s))]
  /\ Goto(s, "validate")
  /\ UNCHANGED <<mapping, table, dag>>

\* There is a row per listen, each with a match or a reason. That scores exist for
\* the candidates is not checked: without one, a listen has no block candidates.
\* Scores of other candidates than the ones counted may leave a winner among
\* several without a margin, which is refused.
Verdicts(rows) ==
  IF rows = Nothing THEN {"refused"}
  ELSE IF rows.features # Nothing /\ rows.features.of # rows.of
       THEN {"refused", "valid"} ELSE {"valid"}

ValidateMatches(s) ==
  /\ At(s, "matches", "validate")
  /\ \/ Absent(s, {"matches"})
     \/ /\ Present({"matches"})
        /\ \E verdict \in Verdicts(stg.matches) :
             GotoIf(s, verdict = "valid", "publish", "refused")
        /\ UNCHANGED <<mapping, table, stg, dag>>

PublishMatches(s) ==
  /\ At(s, "matches", "publish")
  /\ \/ Absent(s, {"matches"})
     \/ /\ Present({"matches"})
        /\ table' = [table EXCEPT !.matches = stg.matches]
        /\ Goto(s, "drop")
        /\ UNCHANGED <<mapping, stg, dag>>

BuildMatches(s) ==
  \/ StageMatches(s) \/ ValidateMatches(s) \/ PublishMatches(s)
  \/ Drop(s, "matches", "matches", "idle")

-----------------------------------------------------------------------------
(* The scheduler: one run at a time, each task after the one before it         *)

StartRun ==
  /\ dag.at = 0 /\ Idle(Scheduler)
  /\ \E version, universe \in Versions :
       /\ dag' = [version |-> version, universe |-> universe, at |-> 1, tries |-> 0]
       /\ Begin(Scheduler, Tasks[1], version, universe)
  /\ UNCHANGED <<mapping, table, stg>>

Ended(outcomes) ==
  dag.at > 0 /\ Idle(Scheduler) /\ session[Scheduler].outcome \in outcomes

BeginTask(at, tries) ==
  /\ dag' = [dag EXCEPT !.at = at, !.tries = tries]
  /\ Begin(Scheduler, Tasks[at], dag.version, dag.universe)

EndRun(outcome) == dag' = NoRun /\ Stop(Scheduler, outcome)

NextTask ==
  /\ Ended({"done"})
  /\ IF dag.at < Len(Tasks) THEN BeginTask(dag.at + 1, 0) ELSE EndRun("done")
  /\ UNCHANGED <<mapping, table, stg>>

Failures == {"refused", "crashed", "killed"}

\* Mutant: the task is tried again for as long as it fails.
RetryForever ==
  /\ Ended(Failures)
  /\ BeginTask(dag.at, dag.tries)
  /\ UNCHANGED <<mapping, table, stg>>

\* Mutant: the first attempt is not counted.
RetryOnceMore ==
  /\ Ended(Failures)
  /\ IF dag.tries <= Retries[Tasks[dag.at]]
     THEN BeginTask(dag.at, dag.tries + 1) ELSE EndRun("refused")
  /\ UNCHANGED <<mapping, table, stg>>

\* Mutant: a task that failed to the last does not stop those below it.
GoOnAfterFailure ==
  /\ Ended(Failures)
  /\ IF dag.tries < Retries[Tasks[dag.at]] THEN BeginTask(dag.at, dag.tries + 1)
     ELSE IF dag.at < Len(Tasks) THEN BeginTask(dag.at + 1, 0) ELSE EndRun("done")
  /\ UNCHANGED <<mapping, table, stg>>

RetryOrFail ==
  /\ Ended(Failures)
  /\ IF dag.tries < Retries[Tasks[dag.at]]
     THEN BeginTask(dag.at, dag.tries + 1) ELSE EndRun("refused")
  /\ UNCHANGED <<mapping, table, stg>>

-----------------------------------------------------------------------------
(* Everything together *)

\* A program run by hand, under any arguments.
StartByHand(s) ==
  /\ s \in Operators /\ Idle(s)
  /\ \E job \in Jobs, version, universe \in Versions : Begin(s, job, version, universe)
  /\ UNCHANGED <<mapping, table, stg, dag>>

\* The process is killed, fails on its way, or was told --fail-before-publish.
Abort(s) ==
  /\ ~Idle(s)
  /\ Stop(s, "killed")
  /\ UNCHANGED <<mapping, table, stg, dag>>

\* build_listen_mapping.py writes a file; loading it is done by hand.
Remap ==
  /\ mapping' \in Versions \ {mapping}
  /\ UNCHANGED <<table, stg, session, dag>>

Continue(s) ==
  Inspect(s) \/ Blocking(s) \/ BuildTexts(s) \/ BuildFeatures(s) \/ BuildMatches(s)

Schedule == StartRun \/ NextTask \/ RetryOrFail

Next ==
  \/ \E s \in Sessions : StartByHand(s) \/ Continue(s) \/ Abort(s)
  \/ Schedule \/ Remap

Spec == Init /\ [][Next]_vars

\* Nobody starts a program while another one runs. Nothing in the code sees to that
\* but max_active_runs, which the programs run by hand know nothing of.
InTurn == \A s, t \in Sessions : Idle(s) \/ Idle(t) \/ s = t

TurnSpec == Init /\ [][Next /\ InTurn']_vars

\* A program that runs goes on, and the scheduler attends to the tasks of its run.
\* Nobody is obliged to start a run.
FairSpec ==
  /\ Spec
  /\ WF_vars(Continue(Scheduler))
  /\ WF_vars(NextTask \/ RetryOrFail)

-----------------------------------------------------------------------------
(* Properties *)

\* "Failure-safe: stage, validate, then publish inside one transaction": what is
\* published under a label is what was validated for that label.
PublishedAsValidated ==
  /\ table.candidates # Nothing =>
       /\ table.candidates.of = table.candidates.run
       /\ table.listens = table.candidates.run
  /\ table.texts # Nothing =>
       /\ table.texts.rules = table.texts.version
       /\ table.texts.of = table.texts.universe
  /\ table.features # Nothing =>
       /\ FullSize(table.features)
       /\ table.features.of = table.features.universe

\* The match results in force were decided from the candidates they name and from
\* scores under their own normalization version, on both sides of the comparison.
ScoredUnderOneVersion ==
  table.matches # Nothing =>
    LET m == table.matches IN
    /\ m.of = m.universe /\ m.listens = m.version
    /\ m.features # Nothing
    /\ m.features.version = m.version /\ m.features.listens = m.version
    /\ m.features.texts.rules = m.version

\* A run that ends green leaves the match results its params ask for, as they
\* would be built from the tables that now stand.
GreenRunIsCurrent ==
  [][NextTask /\ dag.at = Len(Tasks)
       => table.matches = MatchRows(dag.version, dag.universe)]_vars

\* A run ends, whatever fails or is killed on its way.
RunsEnd == dag.at > 0 ~> dag.at = 0

=============================================================================
