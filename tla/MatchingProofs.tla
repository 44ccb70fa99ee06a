--------------------------- MODULE MatchingProofs ---------------------------
(***************************************************************************)
(* Type correctness of Matching, for any number of programs at once; what  *)
(* a published table promises when they run one after the other; and what  *)
(* the match results promise when the scheduler alone runs them.           *)
(***************************************************************************)
EXTENDS Matching, TLAPS

Typed == TypeOK /\ MatchingAssumption

LEMMA RestingTyped ==
  ASSUME MatchingAssumption
  PROVE  Resting \in SessionStates
BY DEF MatchingAssumption, Resting, SessionStates, Jobs, Steps

LEMMA GotoTyped ==
  ASSUME NEW s \in Sessions, NEW pc \in Steps, Typed, Goto(s, pc)
  PROVE  session' \in [Sessions -> SessionStates]
BY DEF Typed, TypeOK, Goto, SessionStates

LEMMA StopTyped ==
  ASSUME NEW s \in Sessions, NEW o \in {"done", "refused", "crashed", "killed"},
         Typed, Stop(s, o)
  PROVE  session' \in [Sessions -> SessionStates]
<1>1. [Resting EXCEPT !.outcome = o] \in SessionStates
  BY RestingTyped DEF Typed, SessionStates
<1>2. QED
  BY <1>1 DEF Typed, TypeOK, Stop

LEMMA BeginTyped ==
  ASSUME NEW s \in Sessions, NEW job \in Jobs, NEW version \in Versions,
         NEW universe \in Versions, Typed, Begin(s, job, version, universe)
  PROVE  session' \in [Sessions -> SessionStates]
<1> DEFINE begun == [Resting EXCEPT !.job = job, !.version = version,
                                    !.universe = universe, !.pc = "inspect"]
<1>1. begun \in SessionStates
  BY RestingTyped DEF Typed, SessionStates, Steps
<1>2. QED
  BY <1>1 DEF Typed, TypeOK, Begin

LEMMA ArgumentsTyped ==
  ASSUME NEW s \in Sessions, Typed
  PROVE  /\ Version(s) \in Versions /\ Universe(s) \in Versions
         /\ session[s].job \in Jobs /\ session[s].pc \in Steps
         /\ session[s].made \in TextRows \cup {Nothing}
BY DEF Typed, TypeOK, Version, Universe, SessionStates

\* What the staging queries return has the type of the staging table.
LEMMA RowsTyped ==
  ASSUME Typed, NEW version \in Versions, NEW universe \in Versions
  PROVE  /\ CandidatesOf(universe) \in Versions \cup {Nothing}
         /\ TextRowsOf(version, universe) \in TextRows \cup {Nothing}
         /\ FeatureRows(version, universe) \in Features \cup {Nothing}
         /\ MatchRows(version, universe) \in Matches \cup {Nothing}
<1>1. CandidatesOf(universe) \in Versions \cup {Nothing}
  BY DEF Typed, TypeOK, Tables, Candidates, CandidatesOf
<1>2. TextRowsOf(version, universe) \in TextRows \cup {Nothing}
  BY <1>1 DEF TextRowsOf, TextRows
<1>3. FeatureRows(version, universe) \in Features \cup {Nothing}
  <2>1. /\ table.listens \in Versions \cup {Nothing}
        /\ table.texts \in Texts \cup {Nothing}
    BY DEF Typed, TypeOK, Tables
  <2>2. QED
    BY <1>1, <2>1 DEF FeatureRows, Features
<1>4. MatchRows(version, universe) \in Matches \cup {Nothing}
  <2>1. /\ table.listens \in Versions \cup {Nothing}
        /\ table.features \in Features \cup {Nothing}
    BY DEF Typed, TypeOK, Tables
  <2>2. QED
    BY <1>1, <2>1 DEF MatchRows, Matches
<1>5. QED
  BY <1>1, <1>2, <1>3, <1>4

LEMMA InitTyped ==
  ASSUME MatchingAssumption, Init
  PROVE  TypeOK
<1>1. session \in [Sessions -> SessionStates]
  BY RestingTyped DEF Init
<1>2. table \in Tables /\ stg \in StagingTables
  BY DEF Init, Tables, StagingTables
<1>3. dag \in DagStates
  BY DEF Init, NoRun, DagStates, Tasks, MatchingAssumption
<1>4. QED
  BY <1>1, <1>2, <1>3 DEF Init, TypeOK

\* A program that ends or moves on and leaves the tables alone.
LEMMA AbsentTyped ==
  ASSUME Typed, NEW s \in Sessions, NEW tables, Absent(s, tables)
  PROVE  TypeOK'
<1>1. session' \in [Sessions -> SessionStates]
  BY StopTyped DEF Absent
<1>2. QED
  BY <1>1 DEF Absent, Typed, TypeOK

LEMMA DropTyped ==
  ASSUME Typed, NEW s \in Sessions, NEW job,
         NEW t \in {"listens", "texts", "features", "matches"},
         NEW pc \in Steps, Drop(s, job, t, pc)
  PROVE  TypeOK'
<1>1. session' \in [Sessions -> SessionStates]
  BY StopTyped, GotoTyped DEF Drop
<1>2. stg' \in StagingTables
  BY DEF Drop, Typed, TypeOK, StagingTables
<1>3. QED
  BY <1>1, <1>2 DEF Drop, Typed, TypeOK

LEMMA InspectTyped ==
  ASSUME Typed, NEW s \in Sessions, Inspect(s)
  PROVE  TypeOK'
<1>1. session' \in [Sessions -> SessionStates]
  BY StopTyped, GotoTyped DEF Inspect, Steps
<1>2. QED
  BY <1>1 DEF Inspect, Typed, TypeOK

LEMMA BlockingTyped ==
  ASSUME Typed, NEW s \in Sessions, Blocking(s)
  PROVE  TypeOK'
<1> USE DEF Steps
<1>1. CASE StageListens(s)
  <2>1. session' \in [Sessions -> SessionStates]
    BY <1>1, GotoTyped DEF StageListens
  <2>2. stg' \in StagingTables
    BY <1>1 DEF StageListens, Typed, TypeOK, StagingTables
  <2>3. QED
    BY <1>1, <2>1, <2>2 DEF StageListens, Typed, TypeOK
<1>2. CASE ValidateListens(s)
  <2>1. CASE Absent(s, {"listens"})
    BY <2>1, AbsentTyped
  <2>2. CASE Present({"listens"}) /\ ~Absent(s, {"listens"})
    <3>1. session' \in [Sessions -> SessionStates]
      BY <1>2, <2>2, GotoTyped, StopTyped DEF ValidateListens, GotoIf
    <3>2. QED
      BY <1>2, <2>2, <3>1 DEF ValidateListens, Typed, TypeOK
  <2>3. QED
    BY <1>2, <2>1, <2>2 DEF ValidateListens
<1>3. CASE StageCandidates(s)
  <2>1. CASE Absent(s, {"listens"})
    BY <2>1, AbsentTyped
  <2>2. CASE Present({"listens"}) /\ ~Absent(s, {"listens"})
    <3>1. session' \in [Sessions -> SessionStates]
      BY <1>3, <2>2, GotoTyped DEF StageCandidates
    <3>2. stg' \in StagingTables
      BY <1>3, <2>2 DEF StageCandidates, Present, Typed, TypeOK, StagingTables
    <3>3. QED
      BY <1>3, <2>2, <3>1, <3>2 DEF StageCandidates, Typed, TypeOK
  <2>3. QED
    BY <1>3, <2>1, <2>2 DEF StageCandidates
<1>4. CASE ValidateCandidates(s)
  <2>1. CASE Absent(s, {"candidates"})
    BY <2>1, AbsentTyped
  <2>2. CASE Present({"candidates"}) /\ ~Absent(s, {"candidates"})
    <3>1. session' \in [Sessions -> SessionStates]
      BY <1>4, <2>2, GotoTyped DEF ValidateCandidates
    <3>2. QED
      BY <1>4, <2>2, <3>1 DEF ValidateCandidates, Typed, TypeOK
  <2>3. QED
    BY <1>4, <2>1, <2>2 DEF ValidateCandidates
<1>5. CASE PublishCandidates(s)
  <2>1. CASE Absent(s, {"listens", "candidates"})
    BY <2>1, AbsentTyped
  <2>2. CASE Present({"listens", "candidates"}) /\ ~Absent(s, {"listens", "candidates"})
    <3>1. session' \in [Sessions -> SessionStates]
      BY <1>5, <2>2, GotoTyped DEF PublishCandidates
    <3>2. stg.listens \in Versions /\ stg.candidates \in Versions
      BY <2>2 DEF Present, Typed, TypeOK, StagingTables
    <3>3. [run |-> Version(s), of |-> stg.candidates] \in Candidates
      BY <3>2, ArgumentsTyped DEF Candidates
    <3>4. table' \in Tables
      BY <1>5, <2>2, <3>2, <3>3 DEF PublishCandidates, Typed, TypeOK, Tables
    <3>5. QED
      BY <1>5, <2>2, <3>1, <3>4 DEF PublishCandidates, Typed, TypeOK
  <2>3. QED
    BY <1>5, <2>1, <2>2 DEF PublishCandidates
<1>6. CASE Drop(s, "blocking", "listens", "drop_candidates")
  BY <1>6, DropTyped
<1>7. CASE DropCandidates(s)
  <2>1. session' \in [Sessions -> SessionStates]
    BY <1>7, StopTyped DEF DropCandidates
  <2>2. stg' \in StagingTables
    BY <1>7 DEF DropCandidates, Typed, TypeOK, StagingTables
  <2>3. QED
    BY <1>7, <2>1, <2>2 DEF DropCandidates, Typed, TypeOK
<1>8. QED
  BY <1>1, <1>2, <1>3, <1>4, <1>5, <1>6, <1>7 DEF Blocking

LEMMA BuildTextsTyped ==
  ASSUME Typed, NEW s \in Sessions, BuildTexts(s)
  PROVE  TypeOK'
<1> USE DEF Steps
<1>1. CASE ReadTexts(s)
  <2>1. TextRowsOf(Version(s), Universe(s)) \in TextRows \cup {Nothing}
    BY RowsTyped, ArgumentsTyped
  <2>2. session[s] \in SessionStates
    BY DEF Typed, TypeOK
  <2>3. [session[s] EXCEPT !.pc = "load", !.made = TextRowsOf(Version(s), Universe(s))]
          \in SessionStates
    BY <2>1, <2>2 DEF SessionStates
  <2>4. session' \in [Sessions -> SessionStates]
    BY <1>1, <2>3 DEF ReadTexts, Typed, TypeOK
  <2>5. QED
    BY <1>1, <2>4 DEF ReadTexts, Typed, TypeOK
<1>2. CASE LoadTexts(s)
  <2>1. session' \in [Sessions -> SessionStates]
    BY <1>2, GotoTyped DEF LoadTexts
  <2>2. stg' \in StagingTables
    BY <1>2, ArgumentsTyped DEF LoadTexts, Typed, TypeOK, StagingTables
  <2>3. QED
    BY <1>2, <2>1, <2>2 DEF LoadTexts, Typed, TypeOK
<1>3. CASE PublishTexts(s)
  <2>1. CASE Absent(s, {"texts"})
    BY <2>1, AbsentTyped
  <2>2. CASE Present({"texts"}) /\ ~Absent(s, {"texts"})
    <3>1. session' \in [Sessions -> SessionStates]
      BY <1>3, <2>2, GotoTyped DEF PublishTexts
    <3>2. stg.texts \in TextRows \cup {Nothing}
      BY <2>2 DEF Present, Typed, TypeOK, StagingTables
    <3>3. ASSUME stg.texts # Nothing
          PROVE  [universe |-> Universe(s), version |-> Version(s),
                  of |-> stg.texts.of, rules |-> stg.texts.rules] \in Texts
      BY <3>2, <3>3, ArgumentsTyped DEF TextRows, Texts
    <3>4. table' \in Tables
      BY <1>3, <2>2, <3>3 DEF PublishTexts, Typed, TypeOK, Tables
    <3>5. QED
      BY <1>3, <2>2, <3>1, <3>4 DEF PublishTexts, Typed, TypeOK
  <2>3. QED
    BY <1>3, <2>1, <2>2 DEF PublishTexts
<1>4. CASE Drop(s, "texts", "texts", "check")
  BY <1>4, DropTyped
<1>5. CASE CheckTexts(s)
  <2>1. session' \in [Sessions -> SessionStates]
    BY <1>5, StopTyped DEF CheckTexts
  <2>2. QED
    BY <1>5, <2>1 DEF CheckTexts, Typed, TypeOK
<1>6. QED
  BY <1>1, <1>2, <1>3, <1>4, <1>5 DEF BuildTexts

LEMMA BuildFeaturesTyped ==
  ASSUME Typed, NEW s \in Sessions, BuildFeatures(s)
  PROVE  TypeOK'
<1> USE DEF Steps
<1>1. CASE StageFeatures(s)
  <2>1. session' \in [Sessions -> SessionStates]
    BY <1>1, GotoTyped DEF StageFeatures
  <2>2. FeatureRows(Version(s), Universe(s)) \in Features \cup {Nothing}
    BY RowsTyped, ArgumentsTyped
  <2>3. stg' \in StagingTables
    BY <1>1, <2>2 DEF StageFeatures, Typed, TypeOK, StagingTables
  <2>4. QED
    BY <1>1, <2>1, <2>3 DEF StageFeatures, Typed, TypeOK
<1>2. CASE ValidateFeatures(s)
  <2>1. CASE Absent(s, {"features"})
    BY <2>1, AbsentTyped
  <2>2. CASE Present({"features"}) /\ ~Absent(s, {"features"})
    <3>1. session' \in [Sessions -> SessionStates]
      BY <1>2, <2>2, GotoTyped, StopTyped DEF ValidateFeatures, GotoIf
    <3>2. QED
      BY <1>2, <2>2, <3>1 DEF ValidateFeatures, Typed, TypeOK
  <2>3. QED
    BY <1>2, <2>1, <2>2 DEF ValidateFeatures
<1>3. CASE PublishFeatures(s)
  <2>1. CASE Absent(s, {"features"})
    BY <2>1, AbsentTyped
  <2>2. CASE Present({"features"}) /\ ~Absent(s, {"features"})
    <3>1. session' \in [Sessions -> SessionStates]
      BY <1>3, <2>2, GotoTyped DEF PublishFeatures
    <3>2. stg.features \in Features \cup {Nothing}
      BY <2>2 DEF Present, Typed, TypeOK, StagingTables
    <3>3. table' \in Tables
      BY <1>3, <2>2, <3>2 DEF PublishFeatures, Typed, TypeOK, Tables
    <3>4. QED
      BY <1>3, <2>2, <3>1, <3>3 DEF PublishFeatures, Typed, TypeOK
  <2>3. QED
    BY <1>3, <2>1, <2>2 DEF PublishFeatures
<1>4. CASE Drop(s, "features", "features", "idle")
  BY <1>4, DropTyped
<1>5. QED
  BY <1>1, <1>2, <1>3, <1>4 DEF BuildFeatures

LEMMA BuildMatchesTyped ==
  ASSUME Typed, NEW s \in Sessions, BuildMatches(s)
  PROVE  TypeOK'
<1> USE DEF Steps
<1>1. CASE StageMatches(s)
  <2>1. session' \in [Sessions -> SessionStates]
    BY <1>1, GotoTyped DEF StageMatches
  <2>2. MatchRows(Version(s), Universe(s)) \in Matches \cup {Nothing}
    BY RowsTyped, ArgumentsTyped
  <2>3. stg' \in StagingTables
    BY <1>1, <2>2 DEF StageMatches, Typed, TypeOK, StagingTables
  <2>4. QED
    BY <1>1, <2>1, <2>3 DEF StageMatches, Typed, TypeOK
<1>2. CASE ValidateMatches(s)
  <2>1. CASE Absent(s, {"matches"})
    BY <2>1, AbsentTyped
  <2>2. CASE Present({"matches"}) /\ ~Absent(s, {"matches"})
    <3>1. session' \in [Sessions -> SessionStates]
      BY <1>2, <2>2, GotoTyped, StopTyped DEF ValidateMatches, GotoIf
    <3>2. QED
      BY <1>2, <2>2, <3>1 DEF ValidateMatches, Typed, TypeOK
  <2>3. QED
    BY <1>2, <2>1, <2>2 DEF ValidateMatches
<1>3. CASE PublishMatches(s)
  <2>1. CASE Absent(s, {"matches"})
    BY <2>1, AbsentTyped
  <2>2. CASE Present({"matches"}) /\ ~Absent(s, {"matches"})
    <3>1. session' \in [Sessions -> SessionStates]
      BY <1>3, <2>2, GotoTyped DEF PublishMatches
    <3>2. stg.matches \in Matches \cup {Nothing}
      BY <2>2 DEF Present, Typed, TypeOK, StagingTables
    <3>3. table' \in Tables
      BY <1>3, <2>2, <3>2 DEF PublishMatches, Typed, TypeOK, Tables
    <3>4. QED
      BY <1>3, <2>2, <3>1, <3>3 DEF PublishMatches, Typed, TypeOK
  <2>3. QED
    BY <1>3, <2>1, <2>2 DEF PublishMatches
<1>4. CASE Drop(s, "matches", "matches", "idle")
  BY <1>4, DropTyped
<1>5. QED
  BY <1>1, <1>2, <1>3, <1>4 DEF BuildMatches

LEMMA BeginTaskTyped ==
  ASSUME Typed, NEW at \in 1 .. 4, NEW tries \in 0 .. 2, BeginTask(at, tries)
  PROVE  dag' \in DagStates /\ session' \in [Sessions -> SessionStates]
<1>1. Tasks[at] \in Jobs /\ Len(Tasks) = 4
  BY DEF Tasks, Jobs
<1>2. dag.version \in Versions /\ dag.universe \in Versions
  BY DEF Typed, TypeOK, DagStates
<1>3. session' \in [Sessions -> SessionStates]
  BY <1>1, <1>2, BeginTyped DEF BeginTask, Sessions
<1>4. at \in 0 .. Len(Tasks)
  BY <1>1
<1>5. dag' \in DagStates
  BY <1>4 DEF BeginTask, Typed, TypeOK, DagStates
<1>6. QED
  BY <1>3, <1>5

LEMMA EndRunTyped ==
  ASSUME Typed, NEW o \in {"done", "refused"}, EndRun(o)
  PROVE  dag' \in DagStates /\ session' \in [Sessions -> SessionStates]
<1>1. NoRun \in DagStates
  BY DEF Typed, NoRun, DagStates, Tasks, MatchingAssumption
<1>2. QED
  BY <1>1, StopTyped DEF EndRun, Sessions

\* The scheduler never counts more attempts than the task has.
LEMMA ScheduleTyped ==
  ASSUME Typed, Schedule
  PROVE  TypeOK'
<1>1. Len(Tasks) = 4 /\ \A at \in 1 .. 4 : Retries[Tasks[at]] \in {1, 2}
  BY DEF Tasks, Retries, Jobs
<1>2. dag.at \in 0 .. 4 /\ dag.tries \in 0 .. 2
  BY <1>1 DEF Typed, TypeOK, DagStates
<1>3. dag' \in DagStates /\ session' \in [Sessions -> SessionStates]
  <2>1. CASE StartRun
    <3>1. PICK version, universe \in Versions :
            /\ dag' = [version |-> version, universe |-> universe, at |-> 1, tries |-> 0]
            /\ Begin(Scheduler, Tasks[1], version, universe)
      BY <2>1 DEF StartRun
    <3>2. Tasks[1] \in Jobs /\ Scheduler \in Sessions
      BY DEF Tasks, Jobs, Sessions
    <3>3. session' \in [Sessions -> SessionStates]
      BY <3>1, <3>2, BeginTyped
    <3>4. QED
      BY <1>1, <3>1, <3>3 DEF DagStates
  <2>2. CASE NextTask
    <3>1. CASE dag.at < 4
      <4>1. BeginTask(dag.at + 1, 0) /\ dag.at + 1 \in 1 .. 4 /\ 0 \in 0 .. 2
        BY <1>1, <1>2, <2>2, <3>1 DEF NextTask
      <4>2. QED
        BY <4>1, BeginTaskTyped
    <3>2. CASE ~(dag.at < 4)
      BY <1>1, <2>2, <3>2, EndRunTyped DEF NextTask
    <3>3. QED
      BY <3>1, <3>2
  <2>3. CASE RetryOrFail
    <3>1. dag.at \in 1 .. 4
      BY <1>2, <2>3 DEF RetryOrFail, Ended
    <3>2. CASE dag.tries < Retries[Tasks[dag.at]]
      <4>1. dag.tries + 1 \in 0 .. 2
        BY <1>1, <1>2, <3>1, <3>2
      <4>2. QED
        BY <2>3, <3>1, <3>2, <4>1, BeginTaskTyped DEF RetryOrFail
    <3>3. CASE ~(dag.tries < Retries[Tasks[dag.at]])
      BY <2>3, <3>3, EndRunTyped DEF RetryOrFail
    <3>4. QED
      BY <3>2, <3>3
  <2>4. QED
    BY <2>1, <2>2, <2>3 DEF Schedule
<1>4. UNCHANGED <<mapping, table, stg>>
  BY DEF Schedule, StartRun, NextTask, RetryOrFail
<1>5. QED
  BY <1>3, <1>4 DEF Typed, TypeOK

LEMMA NextTyped ==
  ASSUME Typed, [Next]_vars
  PROVE  TypeOK'
<1>1. ASSUME NEW s \in Sessions, StartByHand(s)
      PROVE  TypeOK'
  <2>1. PICK job \in Jobs, version, universe \in Versions :
          Begin(s, job, version, universe)
    BY <1>1 DEF StartByHand
  <2>2. session' \in [Sessions -> SessionStates]
    BY <2>1, BeginTyped
  <2>3. QED
    BY <1>1, <2>2 DEF StartByHand, Typed, TypeOK
<1>2. ASSUME NEW s \in Sessions, Continue(s)
      PROVE  TypeOK'
  BY <1>2, InspectTyped, BlockingTyped, BuildTextsTyped, BuildFeaturesTyped,
     BuildMatchesTyped DEF Continue
<1>3. ASSUME NEW s \in Sessions, Abort(s)
      PROVE  TypeOK'
  <2>1. session' \in [Sessions -> SessionStates]
    BY <1>3, StopTyped DEF Abort
  <2>2. QED
    BY <1>3, <2>1 DEF Abort, Typed, TypeOK
<1>4. CASE Schedule
  BY <1>4, ScheduleTyped
<1>5. CASE Remap
  BY <1>5 DEF Remap, Typed, TypeOK
<1>6. CASE UNCHANGED vars
  BY <1>6 DEF vars, Typed, TypeOK
<1>7. QED
  BY <1>1, <1>2, <1>3, <1>4, <1>5, <1>6 DEF Next

\* The published tables, the staging tables, the programs and the DAG run keep their
\* types, whoever runs what, and no task is retried more than twice.
THEOREM MatchingTypeCorrect == Spec => []TypeOK
<1>1. Init => TypeOK
  BY InitTyped, MatchingAssumption
<1>2. TypeOK /\ [Next]_vars => TypeOK'
  BY NextTyped, MatchingAssumption DEF Typed
<1>3. QED
  BY <1>1, <1>2, PTL DEF Spec

-----------------------------------------------------------------------------
(* One program after the other                                                 *)

\* The staged texts a program loads and publishes are those of its arguments.
TextsOf(s, rows) == rows \in {Nothing, [of |-> Universe(s), rules |-> Version(s)]}

\* What stands in the staging tables of a program that is past the step that wrote
\* or validated them.
Staged(s) ==
  LET job == session[s].job
      pc == session[s].pc
  IN  /\ job = "blocking" /\ pc \in {"stage_candidates", "validate_candidates", "publish"}
           => stg.listens = Version(s)
      /\ job = "blocking" /\ pc \in {"validate_candidates", "publish"}
           => stg.candidates = Version(s)
      /\ job = "texts" /\ pc = "load" => TextsOf(s, session[s].made)
      /\ job = "texts" /\ pc = "publish" => TextsOf(s, stg.texts)
      /\ job = "features" /\ pc \in {"validate", "publish"} /\ stg.features # Nothing
           => stg.features.of = stg.features.universe
      /\ job = "features" /\ pc = "publish" => FullSize(stg.features)

TurnInvariant ==
  /\ TypeOK
  /\ InTurn
  /\ PublishedAsValidated
  /\ \A s \in Sessions : Staged(s)

Good == Typed /\ PublishedAsValidated

\* The candidates of a run id are those of that version.
LEMMA OwnCandidates ==
  ASSUME Good, NEW universe \in Versions
  PROVE  CandidatesOf(universe) \in {Nothing, universe}
BY DEF Good, PublishedAsValidated, CandidatesOf

\* A step that leaves the tables alone leaves what they promise.
LEMMA SameTables ==
  ASSUME PublishedAsValidated, UNCHANGED table
  PROVE  PublishedAsValidated'
BY DEF PublishedAsValidated, FullSize

\* Where a step takes its own program, and that it leaves the others where they are.
LEMMA GotoMoves ==
  ASSUME Typed, NEW s \in Sessions, NEW pc, Goto(s, pc)
  PROVE  /\ session'[s] = [session[s] EXCEPT !.pc = pc]
         /\ session'[s].pc = pc
         /\ session'[s].job = session[s].job /\ session'[s].made = session[s].made
         /\ Version(s)' = Version(s) /\ Universe(s)' = Universe(s)
         /\ \A t \in Sessions \ {s} : session'[t] = session[t]
BY DEF Typed, TypeOK, Goto, SessionStates, Version, Universe

LEMMA StopMoves ==
  ASSUME Typed, NEW s \in Sessions, NEW o, Stop(s, o)
  PROVE  /\ session'[s].pc = "idle"
         /\ \A t \in Sessions \ {s} : session'[t] = session[t]
BY DEF Typed, TypeOK, Stop, Resting

LEMMA BeginMoves ==
  ASSUME Typed, NEW s \in Sessions, NEW job, NEW version, NEW universe,
         Begin(s, job, version, universe)
  PROVE  /\ session'[s].pc = "inspect"
         /\ \A t \in Sessions \ {s} : session'[t] = session[t]
BY DEF Typed, TypeOK, Begin, Resting

LEMMA RestStaged ==
  ASSUME NEW s \in Sessions, session'[s].pc \in {"idle", "inspect"}
  PROVE  Staged(s)'
BY DEF Staged

LEMMA StopStaged ==
  ASSUME Typed, NEW s \in Sessions, NEW o, Stop(s, o)
  PROVE  Staged(s)'
BY StopMoves, RestStaged

LEMMA AbsentGood ==
  ASSUME Good, NEW s \in Sessions, NEW tables, Absent(s, tables)
  PROVE  PublishedAsValidated' /\ Staged(s)'
BY SameTables, StopStaged DEF Good, Absent

LEMMA BlockingGood ==
  ASSUME Good, NEW s \in Sessions, Staged(s), Blocking(s)
  PROVE  PublishedAsValidated' /\ Staged(s)'
<1>1. CASE StageListens(s)
  <2>1. session'[s].pc = "validate" /\ session'[s].job = "blocking"
    BY <1>1, GotoMoves DEF StageListens, At, Good
  <2>2. Staged(s)'
    BY <2>1 DEF Staged
  <2>3. QED
    BY <1>1, <2>2, SameTables DEF StageListens, Good
<1>2. CASE ValidateListens(s)
  <2>1. CASE Absent(s, {"listens"})
    BY <2>1, AbsentGood
  <2>2. CASE stg.listens = Version(s) /\ Goto(s, "stage_candidates") /\ UNCHANGED <<table, stg>>
    <3>1. /\ session'[s].pc = "stage_candidates" /\ session'[s].job = "blocking"
          /\ Version(s)' = Version(s)
      BY <1>2, <2>2, GotoMoves DEF ValidateListens, At, Good
    <3>2. Staged(s)'
      BY <2>2, <3>1 DEF Staged
    <3>3. QED
      BY <2>2, <3>2, SameTables DEF Good
  <2>3. CASE Stop(s, "refused") /\ UNCHANGED table
    BY <2>3, StopStaged, SameTables DEF Good
  <2>4. QED
    BY <1>2, <2>1, <2>2, <2>3 DEF ValidateListens, GotoIf
<1>3. CASE StageCandidates(s)
  <2>1. CASE Absent(s, {"listens"})
    BY <2>1, AbsentGood
  <2>2. CASE ~Absent(s, {"listens"})
    <3>1. /\ session'[s].pc = "validate_candidates" /\ session'[s].job = "blocking"
          /\ Version(s)' = Version(s)
      BY <1>3, <2>2, GotoMoves DEF StageCandidates, At, Good
    <3>2. stg'.candidates = stg.listens /\ stg'.listens = stg.listens
      BY <1>3, <2>2 DEF StageCandidates, Good, Typed, TypeOK, StagingTables
    <3>3. stg.listens = Version(s)
      BY <1>3 DEF Staged, StageCandidates, At
    <3>4. Staged(s)'
      BY <3>1, <3>2, <3>3 DEF Staged
    <3>5. QED
      BY <1>3, <2>2, <3>4, SameTables DEF StageCandidates, Good
  <2>3. QED
    BY <2>1, <2>2
<1>4. CASE ValidateCandidates(s)
  <2>1. CASE Absent(s, {"candidates"})
    BY <2>1, AbsentGood
  <2>2. CASE ~Absent(s, {"candidates"})
    <3>1. /\ session'[s].pc = "publish" /\ session'[s].job = "blocking"
          /\ Version(s)' = Version(s) /\ UNCHANGED <<table, stg>>
      BY <1>4, <2>2, GotoMoves DEF ValidateCandidates, At, Good
    <3>2. stg.listens = Version(s) /\ stg.candidates = Version(s)
      BY <1>4 DEF Staged, ValidateCandidates, At
    <3>3. Staged(s)'
      BY <3>1, <3>2 DEF Staged
    <3>4. QED
      BY <3>1, <3>3, SameTables DEF Good
  <2>3. QED
    BY <2>1, <2>2
<1>5. CASE PublishCandidates(s)
  <2>1. CASE Absent(s, {"listens", "candidates"})
    BY <2>1, AbsentGood
  <2>2. CASE ~Absent(s, {"listens", "candidates"})
    <3>1. session'[s].pc = "drop" /\ session'[s].job = "blocking"
      BY <1>5, <2>2, GotoMoves DEF PublishCandidates, At, Good
    <3>2. Staged(s)'
      BY <3>1 DEF Staged
    <3>3. stg.listens = Version(s) /\ stg.candidates = Version(s)
      BY <1>5 DEF Staged, PublishCandidates, At
    <3>4. /\ table'.listens = Version(s)
          /\ table'.candidates = [run |-> Version(s), of |-> Version(s)]
          /\ table'.texts = table.texts /\ table'.features = table.features
      BY <1>5, <2>2, <3>3 DEF PublishCandidates, Good, Typed, TypeOK, Tables
    <3>5. PublishedAsValidated'
      BY <3>4 DEF PublishedAsValidated, FullSize, Good
    <3>6. QED
      BY <3>2, <3>5
  <2>3. QED
    BY <2>1, <2>2
<1>6. CASE Drop(s, "blocking", "listens", "drop_candidates")
  <2>1. session'[s].pc = "drop_candidates" /\ session'[s].job = "blocking" /\ UNCHANGED table
    BY <1>6, GotoMoves DEF Drop, At, Good
  <2>2. Staged(s)'
    BY <2>1 DEF Staged
  <2>3. QED
    BY <2>1, <2>2, SameTables DEF Good
<1>7. CASE DropCandidates(s)
  BY <1>7, StopStaged, SameTables DEF DropCandidates, Good
<1>8. QED
  BY <1>1, <1>2, <1>3, <1>4, <1>5, <1>6, <1>7 DEF Blocking

LEMMA BuildTextsGood ==
  ASSUME Good, NEW s \in Sessions, Staged(s), BuildTexts(s)
  PROVE  PublishedAsValidated' /\ Staged(s)'
<1>1. CASE ReadTexts(s)
  <2>1. /\ session'[s].pc = "load" /\ session'[s].job = "texts"
        /\ session'[s].made = TextRowsOf(Version(s), Universe(s))
        /\ Version(s)' = Version(s) /\ Universe(s)' = Universe(s)
    BY <1>1 DEF ReadTexts, At, Good, Typed, TypeOK, SessionStates, Version, Universe
  <2>2. TextRowsOf(Version(s), Universe(s))
          \in {Nothing, [of |-> Universe(s), rules |-> Version(s)]}
    BY OwnCandidates, ArgumentsTyped DEF TextRowsOf, Good
  <2>3. Staged(s)'
    BY <2>1, <2>2 DEF Staged, TextsOf
  <2>4. QED
    BY <1>1, <2>3, SameTables DEF ReadTexts, Good
<1>2. CASE LoadTexts(s)
  <2>1. /\ session'[s].pc = "publish" /\ session'[s].job = "texts"
        /\ Version(s)' = Version(s) /\ Universe(s)' = Universe(s)
    BY <1>2, GotoMoves DEF LoadTexts, At, Good
  <2>2. stg'.texts = session[s].made /\ TextsOf(s, session[s].made)
    BY <1>2 DEF LoadTexts, Staged, At, Good, Typed, TypeOK, StagingTables
  <2>3. Staged(s)'
    BY <2>1, <2>2 DEF Staged, TextsOf
  <2>4. QED
    BY <1>2, <2>3, SameTables DEF LoadTexts, Good
<1>3. CASE PublishTexts(s)
  <2>1. CASE Absent(s, {"texts"})
    BY <2>1, AbsentGood
  <2>2. CASE ~Absent(s, {"texts"})
    <3>1. session'[s].pc = "drop" /\ session'[s].job = "texts"
      BY <1>3, <2>2, GotoMoves DEF PublishTexts, At, Good
    <3>2. Staged(s)'
      BY <3>1 DEF Staged
    <3>3. TextsOf(s, stg.texts)
      BY <1>3 DEF Staged, PublishTexts, At
    <3>4. /\ table'.listens = table.listens /\ table'.candidates = table.candidates
          /\ table'.features = table.features
          /\ \/ table'.texts = Nothing
             \/ table'.texts = [universe |-> Universe(s), version |-> Version(s),
                                of |-> Universe(s), rules |-> Version(s)]
      BY <1>3, <2>2, <3>3 DEF PublishTexts, TextsOf, Good, Typed, TypeOK, Tables
    <3>5. PublishedAsValidated'
      BY <3>4 DEF PublishedAsValidated, FullSize, Good
    <3>6. QED
      BY <3>2, <3>5
  <2>3. QED
    BY <2>1, <2>2
<1>4. CASE Drop(s, "texts", "texts", "check")
  <2>1. session'[s].pc = "check" /\ session'[s].job = "texts" /\ UNCHANGED table
    BY <1>4, GotoMoves DEF Drop, At, Good
  <2>2. Staged(s)'
    BY <2>1 DEF Staged
  <2>3. QED
    BY <2>1, <2>2, SameTables DEF Good
<1>5. CASE CheckTexts(s)
  BY <1>5, StopStaged, SameTables DEF CheckTexts, Good
<1>6. QED
  BY <1>1, <1>2, <1>3, <1>4, <1>5 DEF BuildTexts

LEMMA BuildFeaturesGood ==
  ASSUME Good, NEW s \in Sessions, Staged(s), BuildFeatures(s)
  PROVE  PublishedAsValidated' /\ Staged(s)'
<1>1. CASE StageFeatures(s)
  <2>1. session'[s].pc = "validate" /\ session'[s].job = "features"
    BY <1>1, GotoMoves DEF StageFeatures, At, Good
  <2>2. stg'.features = FeatureRows(Version(s), Universe(s))
    BY <1>1 DEF StageFeatures, Good, Typed, TypeOK, StagingTables
  <2>3. \/ FeatureRows(Version(s), Universe(s)) = Nothing
        \/ /\ FeatureRows(Version(s), Universe(s)).of = Universe(s)
           /\ FeatureRows(Version(s), Universe(s)).universe = Universe(s)
    BY OwnCandidates, ArgumentsTyped DEF FeatureRows, Good
  <2>4. Staged(s)'
    BY <2>1, <2>2, <2>3 DEF Staged
  <2>5. QED
    BY <1>1, <2>4, SameTables DEF StageFeatures, Good
<1>2. CASE ValidateFeatures(s)
  <2>1. CASE Absent(s, {"features"})
    BY <2>1, AbsentGood
  <2>2. CASE FullSize(stg.features) /\ Goto(s, "publish") /\ UNCHANGED <<table, stg>>
    <3>1. session'[s].pc = "publish" /\ session'[s].job = "features"
      BY <1>2, <2>2, GotoMoves DEF ValidateFeatures, At, Good
    <3>2. stg.features # Nothing => stg.features.of = stg.features.universe
      BY <1>2 DEF Staged, ValidateFeatures, At
    <3>3. Staged(s)'
      BY <2>2, <3>1, <3>2 DEF Staged, FullSize
    <3>4. QED
      BY <2>2, <3>3, SameTables DEF Good
  <2>3. CASE Stop(s, "refused") /\ UNCHANGED table
    BY <2>3, StopStaged, SameTables DEF Good
  <2>4. QED
    BY <1>2, <2>1, <2>2, <2>3 DEF ValidateFeatures, GotoIf
<1>3. CASE PublishFeatures(s)
  <2>1. CASE Absent(s, {"features"})
    BY <2>1, AbsentGood
  <2>2. CASE ~Absent(s, {"features"})
    <3>1. session'[s].pc = "drop" /\ session'[s].job = "features"
      BY <1>3, <2>2, GotoMoves DEF PublishFeatures, At, Good
    <3>2. Staged(s)'
      BY <3>1 DEF Staged
    <3>3. FullSize(stg.features) /\ stg.features.of = stg.features.universe
      BY <1>3 DEF Staged, PublishFeatures, At, FullSize
    <3>4. /\ table'.listens = table.listens /\ table'.candidates = table.candidates
          /\ table'.texts = table.texts /\ table'.features = stg.features
      BY <1>3, <2>2 DEF PublishFeatures, Good, Typed, TypeOK, Tables
    <3>5. PublishedAsValidated'
      BY <3>3, <3>4 DEF PublishedAsValidated, FullSize, Good
    <3>6. QED
      BY <3>2, <3>5
  <2>3. QED
    BY <2>1, <2>2
<1>4. CASE Drop(s, "features", "features", "idle")
  BY <1>4, StopStaged, SameTables DEF Drop, Good
<1>5. QED
  BY <1>1, <1>2, <1>3, <1>4 DEF BuildFeatures

LEMMA BuildMatchesGood ==
  ASSUME Good, NEW s \in Sessions, Staged(s), BuildMatches(s)
  PROVE  PublishedAsValidated' /\ Staged(s)'
<1>1. session[s].job = "matches"
  BY DEF BuildMatches, StageMatches, ValidateMatches, PublishMatches, Drop, At
<1>2. Staged(s)'
  <2>1. CASE \E pc : Goto(s, pc)
    <3>1. session'[s].job = "matches"
      BY <1>1, <2>1, GotoMoves DEF Good
    <3>2. QED
      BY <3>1 DEF Staged
  <2>2. CASE \E o : Stop(s, o)
    BY <2>2, StopStaged DEF Good
  <2>3. QED
    BY <2>1, <2>2 DEF BuildMatches, StageMatches, ValidateMatches, PublishMatches,
       Drop, Absent, GotoIf
<1>3. PublishedAsValidated'
  <2>1. CASE PublishMatches(s) /\ ~Absent(s, {"matches"})
    <3>1. /\ table'.listens = table.listens /\ table'.candidates = table.candidates
          /\ table'.texts = table.texts /\ table'.features = table.features
      BY <2>1 DEF PublishMatches, Good, Typed, TypeOK, Tables
    <3>2. QED
      BY <3>1 DEF PublishedAsValidated, FullSize, Good
  <2>2. CASE ~(PublishMatches(s) /\ ~Absent(s, {"matches"}))
    <3>1. UNCHANGED table
      BY <2>2 DEF BuildMatches, StageMatches, ValidateMatches, Drop, Absent
    <3>2. QED
      BY <3>1, SameTables DEF Good
  <2>3. QED
    BY <2>1, <2>2
<1>4. QED
  BY <1>2, <1>3

LEMMA InspectGood ==
  ASSUME Good, NEW s \in Sessions, Inspect(s)
  PROVE  PublishedAsValidated' /\ Staged(s)'
<1>1. CASE Goto(s, "stage")
  <2>1. session'[s].pc = "stage"
    BY <1>1, GotoMoves DEF Good
  <2>2. Staged(s)'
    BY <2>1 DEF Staged
  <2>3. QED
    BY <2>2, SameTables DEF Inspect, Good
<1>2. CASE Stop(s, "done")
  BY <1>2, StopStaged, SameTables DEF Inspect, Good
<1>3. QED
  BY <1>1, <1>2 DEF Inspect

\* A program that takes a step was not idle, and moves no other.
LEMMA ContinueMoves ==
  ASSUME Typed, NEW s \in Sessions, Continue(s)
  PROVE  ~Idle(s) /\ \A t \in Sessions \ {s} : session'[t] = session[t]
<1>1. ~Idle(s)
  BY DEF Continue, Inspect, Blocking, StageListens, ValidateListens, StageCandidates,
     ValidateCandidates, PublishCandidates, Drop, DropCandidates, BuildTexts, ReadTexts,
     LoadTexts, PublishTexts, CheckTexts, BuildFeatures, StageFeatures, ValidateFeatures,
     PublishFeatures, BuildMatches, StageMatches, ValidateMatches, PublishMatches, At, Idle
<1>2. CASE ReadTexts(s)
  <2>1. \A t \in Sessions \ {s} : session'[t] = session[t]
    BY <1>2 DEF ReadTexts, Typed, TypeOK
  <2>2. QED
    BY <1>1, <2>1
<1>3. CASE ~ReadTexts(s)
  <2>1. (\E pc : Goto(s, pc)) \/ (\E o : Stop(s, o))
    BY <1>3 DEF Continue, Inspect, Blocking, StageListens, ValidateListens,
       StageCandidates, ValidateCandidates, PublishCandidates, Drop, DropCandidates,
       BuildTexts, LoadTexts, PublishTexts, CheckTexts, BuildFeatures, StageFeatures,
       ValidateFeatures, PublishFeatures, BuildMatches, StageMatches, ValidateMatches,
       PublishMatches, Absent, GotoIf
  <2>2. QED
    BY <1>1, <2>1, GotoMoves, StopMoves
<1>4. QED
  BY <1>2, <1>3

LEMMA ContinueGood ==
  ASSUME Good, NEW s \in Sessions, Staged(s), Continue(s)
  PROVE  PublishedAsValidated' /\ Staged(s)'
BY InspectGood, BlockingGood, BuildTextsGood, BuildFeaturesGood, BuildMatchesGood DEF Continue

\* A step of the one program that runs: the others rest, before it and after.
LEMMA AloneStaged ==
  ASSUME InTurn, NEW s \in Sessions, ~Idle(s), Staged(s)',
         \A t \in Sessions \ {s} : session'[t] = session[t]
  PROVE  \A t \in Sessions : Staged(t)'
<1>1. ASSUME NEW t \in Sessions \ {s}
      PROVE  Staged(t)'
  <2>1. session'[t].pc = "idle"
    BY DEF InTurn, Idle
  <2>2. QED
    BY <2>1, RestStaged
<1>2. QED
  BY <1>1

\* A step that starts or ends a program, and leaves the staging tables alone.
LEMMA OthersStaged ==
  ASSUME \A t \in Sessions : Staged(t), UNCHANGED stg,
         NEW s \in Sessions, Staged(s)',
         \A t \in Sessions \ {s} : session'[t] = session[t]
  PROVE  \A t \in Sessions : Staged(t)'
BY DEF Staged, TextsOf, FullSize, Version, Universe

LEMMA TurnStep ==
  ASSUME TurnInvariant, MatchingAssumption, [Next /\ InTurn']_vars
  PROVE  TurnInvariant'
<1> USE DEF TurnInvariant
<1>1. Typed /\ Good
  BY DEF Typed, Good
<1>2. TypeOK'
  BY <1>1, NextTyped
<1>3. InTurn'
  BY DEF InTurn, Idle, vars
<1>4. PublishedAsValidated' /\ \A t \in Sessions : Staged(t)'
  <2>1. ASSUME NEW s \in Sessions, Continue(s)
        PROVE  PublishedAsValidated' /\ \A t \in Sessions : Staged(t)'
    BY <1>1, <2>1, ContinueGood, ContinueMoves, AloneStaged
  <2>2. ASSUME NEW s \in Sessions, StartByHand(s)
        PROVE  PublishedAsValidated' /\ \A t \in Sessions : Staged(t)'
    <3>1. /\ UNCHANGED <<table, stg>>
          /\ session'[s].pc = "inspect"
          /\ \A t \in Sessions \ {s} : session'[t] = session[t]
      BY <1>1, <2>2, BeginMoves DEF StartByHand
    <3>2. QED
      BY <3>1, SameTables, RestStaged, OthersStaged
  <2>3. ASSUME NEW s \in Sessions, Abort(s)
        PROVE  PublishedAsValidated' /\ \A t \in Sessions : Staged(t)'
    <3>1. /\ UNCHANGED <<table, stg>>
          /\ session'[s].pc = "idle"
          /\ \A t \in Sessions \ {s} : session'[t] = session[t]
      BY <1>1, <2>3, StopMoves DEF Abort
    <3>2. QED
      BY <3>1, SameTables, RestStaged, OthersStaged
  <2>4. CASE Schedule
    <3>1. Scheduler \in Sessions
      BY DEF Sessions
    <3>2. /\ UNCHANGED <<table, stg>>
          /\ session'[Scheduler].pc \in {"idle", "inspect"}
          /\ \A t \in Sessions \ {Scheduler} : session'[t] = session[t]
      BY <1>1, <2>4, <3>1, BeginMoves, StopMoves
         DEF Schedule, StartRun, NextTask, RetryOrFail, BeginTask, EndRun
    <3>3. QED
      BY <3>1, <3>2, SameTables, RestStaged, OthersStaged
  <2>5. CASE Remap \/ UNCHANGED vars
    <3>1. UNCHANGED <<table, stg, session>>
      BY <2>5 DEF Remap, vars
    <3>2. QED
      BY <3>1, SameTables DEF Staged, TextsOf, FullSize, Version, Universe
  <2>6. QED
    BY <2>1, <2>2, <2>3, <2>4, <2>5 DEF Next
<1>5. QED
  BY <1>2, <1>3, <1>4

LEMMA TurnInit ==
  ASSUME Init, MatchingAssumption
  PROVE  TurnInvariant
<1>1. TypeOK
  BY InitTyped
<1>2. \A s \in Sessions : session[s].pc = "idle"
  BY DEF Init, Resting
<1>3. InTurn /\ \A s \in Sessions : Staged(s)
  BY <1>2 DEF InTurn, Idle, Staged
<1>4. PublishedAsValidated
  BY DEF Init, PublishedAsValidated
<1>5. QED
  BY <1>1, <1>3, <1>4 DEF TurnInvariant

\* As long as nobody starts a program while another one runs, whatever is killed,
\* retried or run by hand under whatever arguments: the candidates, listens, texts
\* and features in force are those of the identity they carry.
THEOREM InTurnPublishedAsValidated == TurnSpec => []PublishedAsValidated
<1>1. Init => TurnInvariant
  BY TurnInit, MatchingAssumption
<1>2. TurnInvariant /\ [Next /\ InTurn']_vars => TurnInvariant'
  BY TurnStep, MatchingAssumption
<1>3. TurnInvariant => PublishedAsValidated
  BY DEF TurnInvariant
<1>4. QED
  BY <1>1, <1>2, <1>3, PTL DEF TurnSpec

-----------------------------------------------------------------------------
(* The scheduler alone                                                         *)

\* What features and matches of one version are, when every table they were made
\* of is of that version.
TextsUnder(v) == [universe |-> v, version |-> v, of |-> v, rules |-> v]
FeaturesUnder(v) ==
  [version |-> v, universe |-> v, of |-> v, texts |-> TextsUnder(v), listens |-> v]
MatchesUnder(v) ==
  [version |-> v, universe |-> v, of |-> v, features |-> FeaturesUnder(v), listens |-> v]

\* What a task of the run in progress has brought about once it ends well.
Brought(job) ==
  CASE job = "texts"    -> table.texts # Nothing =>
                             /\ table.texts.universe = dag.universe
                             /\ table.texts.version = dag.version
    [] job = "blocking" -> table.candidates # Nothing /\ table.candidates.run = dag.version
    [] job = "features" -> dag.universe = dag.version
                             /\ table.features = FeaturesUnder(dag.version)
    [] job = "matches"  -> table.matches = MatchesUnder(dag.version)

\* A program runs for the task the run is at, under the params of the run.
OnTask ==
  ~Idle(Scheduler) =>
    /\ dag.at > 0 /\ session[Scheduler].job = Tasks[dag.at]
    /\ Version(Scheduler) = dag.version /\ Universe(Scheduler) = dag.universe

\* The tasks before that one have brought about what they are for.
TasksInOrder == \A i \in 1 .. 4 : i < dag.at => Brought(Tasks[i])

\* So has the task the run is at, past its publication or its end.
TaskBrought ==
  LET now == session[Scheduler] IN
  /\ dag.at > 0 /\ now.pc = "idle" /\ now.outcome = "done" => Brought(Tasks[dag.at])
  /\ now.pc \in {"drop", "drop_candidates", "check"} => Brought(Tasks[dag.at])

\* What is staged is of the version of the run.
StagedUnder ==
  LET now == session[Scheduler] IN
  /\ now.job = "features" /\ now.pc \in {"validate", "publish"} /\ stg.features # Nothing
       => dag.universe = dag.version /\ stg.features = FeaturesUnder(dag.version)
  /\ now.job = "matches" /\ now.pc \in {"validate", "publish"}
       => stg.matches = MatchesUnder(dag.version)

\* So is what is in force, of the version of the run that published it.
InForceUnder ==
  /\ table.features # Nothing => table.features = FeaturesUnder(table.features.version)
  /\ table.matches # Nothing => table.matches = MatchesUnder(table.matches.version)

RunInvariant ==
  TurnInvariant /\ OnTask /\ TasksInOrder /\ TaskBrought /\ StagedUnder /\ InForceUnder

RunFacts == OnTask /\ TasksInOrder /\ TaskBrought /\ StagedUnder /\ InForceUnder
Running == Good /\ RunFacts

\* The tasks of a run, by their places.
LEMMA TaskPlaces ==
  ASSUME Typed
  PROVE  /\ Scheduler \in Sessions
         /\ Tasks[1] = "texts" /\ Tasks[2] = "blocking"
         /\ Tasks[3] = "features" /\ Tasks[4] = "matches"
         /\ dag.at \in 0 .. 4
         /\ dag.version \in Versions /\ dag.universe \in Versions
         /\ dag.at > 0 => Tasks[dag.at] \in Jobs
<1>1. dag.at \in 0 .. 4 /\ dag.version \in Versions /\ dag.universe \in Versions
  BY DEF Typed, TypeOK, DagStates, Tasks
<1>2. /\ Tasks[1] = "texts" /\ Tasks[2] = "blocking"
      /\ Tasks[3] = "features" /\ Tasks[4] = "matches"
  BY DEF Tasks
<1>3. dag.at > 0 => dag.at = 1 \/ dag.at = 2 \/ dag.at = 3 \/ dag.at = 4
  BY <1>1
<1>4. QED
  BY <1>1, <1>2, <1>3 DEF Sessions, Jobs

\* Where the run is, told by the program that runs.
LEMMA TaskPlace ==
  ASSUME Typed, OnTask, ~Idle(Scheduler)
  PROVE  /\ dag.at > 0 /\ session[Scheduler].job = Tasks[dag.at]
         /\ session[Scheduler].job = "texts" => dag.at = 1
         /\ session[Scheduler].job = "blocking" => dag.at = 2
         /\ session[Scheduler].job = "features" => dag.at = 3
         /\ session[Scheduler].job = "matches" => dag.at = 4
<1>1. dag.at > 0 /\ session[Scheduler].job = Tasks[dag.at]
  BY DEF OnTask
<1>2. dag.at = 1 \/ dag.at = 2 \/ dag.at = 3 \/ dag.at = 4
  BY <1>1, TaskPlaces
<1>3. QED
  BY <1>1, <1>2, TaskPlaces

\* A step that leaves the tables and the run alone leaves what was brought about.
LEMMA SameBrought ==
  ASSUME UNCHANGED <<table, dag>>
  PROVE  /\ \A job : Brought(job)' <=> Brought(job)
         /\ TasksInOrder => TasksInOrder'
         /\ InForceUnder => InForceUnder'
<1>1. \A job : Brought(job)' <=> Brought(job)
  BY DEF Brought
<1>2. TasksInOrder => TasksInOrder'
  BY <1>1 DEF TasksInOrder
<1>3. InForceUnder => InForceUnder'
  BY DEF InForceUnder
<1>4. QED
  BY <1>1, <1>2, <1>3

\* A program that fails brings nothing about, and takes nothing back.
LEMMA FailureRuns ==
  ASSUME Running, NEW o, o # "done", Stop(Scheduler, o), UNCHANGED <<table, dag>>
  PROVE  RunFacts'
<1>1. session'[Scheduler] = [Resting EXCEPT !.outcome = o]
  BY TaskPlaces DEF Running, Good, Stop, Typed, TypeOK
<1>2. session'[Scheduler].pc = "idle" /\ session'[Scheduler].outcome = o
  BY <1>1 DEF Resting
<1>3. OnTask' /\ TaskBrought' /\ StagedUnder'
  BY <1>2 DEF OnTask, TaskBrought, StagedUnder, Idle
<1>4. QED
  BY <1>3, SameBrought DEF Running, RunFacts

\* A program ends well once its task has brought about what it is for.
LEMMA SuccessRuns ==
  ASSUME Running, Stop(Scheduler, "done"), UNCHANGED <<table, dag>>,
         dag.at > 0 => Brought(Tasks[dag.at])
  PROVE  RunFacts'
<1>1. session'[Scheduler] = [Resting EXCEPT !.outcome = "done"]
  BY TaskPlaces DEF Running, Good, Stop, Typed, TypeOK
<1>2. session'[Scheduler].pc = "idle"
  BY <1>1 DEF Resting
<1>3. OnTask' /\ StagedUnder'
  BY <1>2 DEF OnTask, StagedUnder, Idle
<1>4. TaskBrought'
  BY <1>2, SameBrought DEF TaskBrought
<1>5. QED
  BY <1>3, <1>4, SameBrought DEF Running, RunFacts

\* A program that goes on stays on its task.
LEMMA GotoRuns ==
  ASSUME Running, NEW pc, Goto(Scheduler, pc), UNCHANGED dag, ~Idle(Scheduler)
  PROVE  /\ OnTask'
         /\ session'[Scheduler].pc = pc
         /\ session'[Scheduler].job = session[Scheduler].job
<1>1. /\ session'[Scheduler].pc = pc /\ session'[Scheduler].job = session[Scheduler].job
      /\ Version(Scheduler)' = Version(Scheduler)
      /\ Universe(Scheduler)' = Universe(Scheduler)
  BY GotoMoves, TaskPlaces DEF Running, Good
<1>2. QED
  BY <1>1 DEF OnTask, Running, RunFacts

\* A step past the publication of its task.
LEMMA PublishedRuns ==
  ASSUME Running, NEW pc \in {"drop", "drop_candidates", "check"}, Goto(Scheduler, pc),
         ~Idle(Scheduler), UNCHANGED dag, TasksInOrder', InForceUnder',
         NEW job, session[Scheduler].job = job, Brought(job)'
  PROVE  RunFacts'
<1>1. /\ OnTask' /\ session'[Scheduler].pc = pc
      /\ session'[Scheduler].job = session[Scheduler].job
  BY GotoRuns
<1>2. session[Scheduler].job = Tasks[dag.at]
  BY TaskPlace DEF Running, Good, RunFacts
<1>3. TaskBrought' /\ StagedUnder'
  BY <1>1, <1>2 DEF TaskBrought, StagedUnder
<1>4. QED
  BY <1>1, <1>3 DEF RunFacts

\* A step before it.
LEMMA UnpublishedRuns ==
  ASSUME Running, NEW pc, pc \notin {"idle", "drop", "drop_candidates", "check"},
         Goto(Scheduler, pc), ~Idle(Scheduler), UNCHANGED <<table, dag>>, StagedUnder'
  PROVE  RunFacts'
<1>1. OnTask' /\ session'[Scheduler].pc = pc
  BY GotoRuns
<1>2. TaskBrought'
  BY <1>1 DEF TaskBrought
<1>3. QED
  BY <1>1, <1>2, SameBrought DEF Running, RunFacts

LEMMA AbsentRuns ==
  ASSUME Running, NEW tables, Absent(Scheduler, tables)
  PROVE  RunFacts'
BY FailureRuns DEF Absent

\* A target that carries the identity asked for is what the task is for.
LEMMA AlreadyBrought ==
  ASSUME Running, ~Idle(Scheduler),
         Already(session[Scheduler].job, Version(Scheduler), Universe(Scheduler))
  PROVE  Brought(session[Scheduler].job)
<1>1. Version(Scheduler) = dag.version /\ Universe(Scheduler) = dag.universe
  BY DEF Running, RunFacts, OnTask
<1>2. session[Scheduler].job \in Jobs
  BY ArgumentsTyped, TaskPlaces DEF Running, Good
<1>3. CASE session[Scheduler].job = "texts"
  BY <1>1, <1>3 DEF Already, TextsDone, Brought
<1>4. CASE session[Scheduler].job = "blocking"
  <2>1. [run |-> Ratified, of |-> Ratified] # Nothing
    BY RowsAssumption, MatchingAssumption DEF Candidates, MatchingAssumption
  <2>2. QED
    BY <1>1, <1>4, <2>1 DEF Already, BlockingDone, Brought
<1>5. CASE session[Scheduler].job = "features"
  <2>1. /\ table.features # Nothing
        /\ table.features.version = dag.version /\ table.features.universe = dag.universe
    BY <1>1, <1>5 DEF Already, FeaturesDone, FullSize
  <2>2. QED
    BY <1>5, <2>1 DEF Running, RunFacts, InForceUnder, FeaturesUnder, Brought
<1>6. CASE session[Scheduler].job = "matches"
  BY <1>1, <1>6 DEF Already, MatchesDone, Running, RunFacts, InForceUnder, Brought
<1>7. QED
  BY <1>2, <1>3, <1>4, <1>5, <1>6 DEF Jobs

LEMMA InspectRuns ==
  ASSUME Running, Inspect(Scheduler)
  PROVE  RunFacts'
<1>1. ~Idle(Scheduler) /\ UNCHANGED <<table, dag>>
  BY DEF Inspect, Idle
<1>2. CASE Already(session[Scheduler].job, Version(Scheduler), Universe(Scheduler))
  <2>1. Brought(Tasks[dag.at])
    BY <1>1, <1>2, AlreadyBrought, TaskPlace DEF Running, Good, RunFacts
  <2>2. QED
    BY <1>1, <1>2, <2>1, SuccessRuns DEF Inspect
<1>3. CASE ~Already(session[Scheduler].job, Version(Scheduler), Universe(Scheduler))
  <2>1. Goto(Scheduler, "stage")
    BY <1>3 DEF Inspect
  <2>2. StagedUnder'
    BY <1>1, <2>1, GotoRuns DEF StagedUnder
  <2>3. QED
    BY <1>1, <2>1, <2>2, UnpublishedRuns
<1>4. QED
  BY <1>2, <1>3

LEMMA TextsRun ==
  ASSUME Running, BuildTexts(Scheduler)
  PROVE  RunFacts'
<1>1. ~Idle(Scheduler) /\ UNCHANGED dag /\ session[Scheduler].job = "texts"
  BY DEF BuildTexts, ReadTexts, LoadTexts, PublishTexts, Absent, Drop, CheckTexts, At, Idle
<1>2. dag.at = 1
  BY <1>1, TaskPlace DEF Running, Good, RunFacts
<1>3. CASE ReadTexts(Scheduler)
  <2>1. /\ session'[Scheduler].pc = "load" /\ session'[Scheduler].job = "texts"
        /\ Version(Scheduler)' = Version(Scheduler)
        /\ Universe(Scheduler)' = Universe(Scheduler)
    BY <1>1, <1>3, TaskPlaces
       DEF ReadTexts, Running, Good, Typed, TypeOK, SessionStates, Version, Universe
  <2>2. OnTask' /\ TaskBrought' /\ StagedUnder'
    BY <1>1, <2>1 DEF OnTask, TaskBrought, StagedUnder, Running, RunFacts
  <2>3. UNCHANGED <<table, dag>>
    BY <1>3 DEF ReadTexts
  <2>4. QED
    BY <2>2, <2>3, SameBrought DEF Running, RunFacts
<1>4. CASE LoadTexts(Scheduler)
  <2>1. Goto(Scheduler, "publish") /\ UNCHANGED <<table, dag>>
    BY <1>4 DEF LoadTexts
  <2>2. StagedUnder'
    BY <1>1, <2>1, GotoRuns DEF StagedUnder
  <2>3. QED
    BY <1>1, <2>1, <2>2, UnpublishedRuns
<1>5. CASE PublishTexts(Scheduler)
  <2>1. CASE Absent(Scheduler, {"texts"})
    BY <2>1, AbsentRuns
  <2>2. CASE ~Absent(Scheduler, {"texts"})
    <3>1. /\ Goto(Scheduler, "drop")
          /\ table' = [table EXCEPT !.texts =
               IF stg.texts = Nothing THEN Nothing
               ELSE [universe |-> Universe(Scheduler), version |-> Version(Scheduler),
                     of |-> stg.texts.of, rules |-> stg.texts.rules]]
      BY <1>5, <2>2 DEF PublishTexts
    <3>2. /\ table'.texts # Nothing => /\ table'.texts.universe = dag.universe
                                       /\ table'.texts.version = dag.version
          /\ table'.features = table.features /\ table'.matches = table.matches
      BY <1>1, <3>1 DEF Running, Good, RunFacts, OnTask, Typed, TypeOK, Tables
    <3>3. Brought("texts")'
      BY <1>1, <3>2 DEF Brought
    <3>4. TasksInOrder' /\ InForceUnder'
      BY <1>1, <1>2, <3>2 DEF TasksInOrder, InForceUnder, Running, RunFacts
    <3>5. QED
      BY <1>1, <3>1, <3>3, <3>4, PublishedRuns
  <2>3. QED
    BY <2>1, <2>2
<1>6. CASE Drop(Scheduler, "texts", "texts", "check")
  <2>1. Goto(Scheduler, "check") /\ UNCHANGED <<table, dag>>
        /\ session[Scheduler].pc = "drop"
    BY <1>6 DEF Drop, At
  <2>2. Brought("texts")'
    BY <1>2, <2>1, SameBrought, TaskPlaces DEF Running, Good, RunFacts, TaskBrought
  <2>3. QED
    BY <1>1, <2>1, <2>2, SameBrought, PublishedRuns DEF Running, RunFacts
<1>7. CASE CheckTexts(Scheduler)
  <2>1. UNCHANGED <<table, dag>> /\ Brought(Tasks[dag.at])
    BY <1>7 DEF CheckTexts, At, Running, RunFacts, TaskBrought
  <2>2. Stop(Scheduler, "done") \/ Stop(Scheduler, "refused")
    BY <1>7 DEF CheckTexts
  <2>3. QED
    BY <2>1, <2>2, SuccessRuns, FailureRuns
<1>8. QED
  BY <1>3, <1>4, <1>5, <1>6, <1>7 DEF BuildTexts

LEMMA BlockingRuns ==
  ASSUME Running, Blocking(Scheduler)
  PROVE  RunFacts'
<1>1. ~Idle(Scheduler) /\ UNCHANGED dag /\ session[Scheduler].job = "blocking"
  BY DEF Blocking, StageListens, ValidateListens, StageCandidates, ValidateCandidates,
     PublishCandidates, Absent, Drop, DropCandidates, At, Idle
<1>2. dag.at = 2
  BY <1>1, TaskPlace DEF Running, Good, RunFacts
<1>3. ASSUME NEW pc \in {"validate", "stage_candidates", "validate_candidates", "publish"},
             Goto(Scheduler, pc), UNCHANGED table
      PROVE  RunFacts'
  <2>1. StagedUnder'
    BY <1>1, <1>3, GotoRuns DEF StagedUnder
  <2>2. QED
    BY <1>1, <1>3, <2>1, UnpublishedRuns
<1>4. CASE \E tables : Absent(Scheduler, tables)
  BY <1>4, AbsentRuns
<1>5. CASE StageListens(Scheduler)
  BY <1>5, <1>3 DEF StageListens
<1>6. CASE ValidateListens(Scheduler)
  BY <1>1, <1>3, <1>4, <1>6, FailureRuns DEF ValidateListens, GotoIf
<1>7. CASE StageCandidates(Scheduler)
  BY <1>3, <1>4, <1>7 DEF StageCandidates
<1>8. CASE ValidateCandidates(Scheduler)
  BY <1>3, <1>4, <1>8 DEF ValidateCandidates
<1>9. CASE PublishCandidates(Scheduler) /\ ~(\E tables : Absent(Scheduler, tables))
  <2>1. /\ Goto(Scheduler, "drop")
        /\ Present({"listens", "candidates"})
        /\ table' = [table EXCEPT !.listens = stg.listens,
                       !.candidates = [run |-> Version(Scheduler), of |-> stg.candidates]]
    BY <1>9 DEF PublishCandidates
  <2>2. Version(Scheduler) = dag.version
    BY <1>1 DEF Running, RunFacts, OnTask
  <2>3. stg.candidates \in Versions
    BY <2>1 DEF Present, Running, Good, Typed, TypeOK, StagingTables
  <2>4. [run |-> Version(Scheduler), of |-> stg.candidates] \in Candidates
    BY <2>2, <2>3, TaskPlaces DEF Candidates, Running, Good
  <2>5. /\ table'.candidates = [run |-> dag.version, of |-> stg.candidates]
        /\ table'.candidates # Nothing /\ table'.texts = table.texts
        /\ table'.features = table.features /\ table'.matches = table.matches
    BY <2>1, <2>2, <2>4, RowsAssumption DEF Running, Good, Typed, TypeOK, Tables
  <2>6. Brought("blocking")'
    BY <1>1, <2>5 DEF Brought
  <2>7. TasksInOrder'
    <3>1. ASSUME NEW i \in 1 .. 4, i < dag.at
          PROVE  Brought(Tasks[i])'
      <4>1. i = 1
        BY <1>2, <3>1
      <4>2. Brought("texts")
        BY <1>2, <4>1, TaskPlaces DEF Running, Good, RunFacts, TasksInOrder
      <4>3. QED
        BY <1>1, <2>5, <4>1, <4>2, TaskPlaces DEF Brought, Running, Good
    <3>2. QED
      BY <1>1, <3>1 DEF TasksInOrder
  <2>8. InForceUnder'
    BY <2>5 DEF InForceUnder, Running, RunFacts
  <2>9. QED
    BY <1>1, <2>1, <2>6, <2>7, <2>8, PublishedRuns
<1>10. CASE Drop(Scheduler, "blocking", "listens", "drop_candidates")
  <2>1. /\ Goto(Scheduler, "drop_candidates") /\ UNCHANGED <<table, dag>>
        /\ session[Scheduler].pc = "drop"
    BY <1>10 DEF Drop, At
  <2>2. Brought("blocking")'
    BY <1>2, <2>1, SameBrought, TaskPlaces DEF Running, Good, RunFacts, TaskBrought
  <2>3. QED
    BY <1>1, <2>1, <2>2, SameBrought, PublishedRuns DEF Running, RunFacts
<1>11. CASE DropCandidates(Scheduler)
  <2>1. /\ Stop(Scheduler, "done") /\ UNCHANGED <<table, dag>>
        /\ Brought(Tasks[dag.at])
    BY <1>11 DEF DropCandidates, At, Running, RunFacts, TaskBrought
  <2>2. QED
    BY <2>1, SuccessRuns
<1>12. QED
  BY <1>4, <1>5, <1>6, <1>7, <1>8, <1>9, <1>10, <1>11 DEF Blocking

\* What the tables of a run in which every task before this one ended well are
\* joined to: the features and the matches of its version.
LEMMA FeaturesOfTheRun ==
  ASSUME Running, ~Idle(Scheduler), session[Scheduler].job = "features",
         NEW rows, rows = FeatureRows(Version(Scheduler), Universe(Scheduler)),
         rows # Nothing
  PROVE  dag.universe = dag.version /\ rows = FeaturesUnder(dag.version)
<1>1. dag.at = 3 /\ Version(Scheduler) = dag.version /\ Universe(Scheduler) = dag.universe
  BY TaskPlace DEF Running, Good, RunFacts, OnTask
<1>2. Brought("texts") /\ Brought("blocking")
  BY <1>1, TaskPlaces DEF Running, Good, RunFacts, TasksInOrder
<1>3. /\ CandidatesOf(dag.universe) # Nothing
      /\ table.texts # Nothing
      /\ rows = [version |-> dag.version, universe |-> dag.universe,
                 of |-> CandidatesOf(dag.universe), texts |-> table.texts,
                 listens |-> table.listens]
  BY <1>1 DEF FeatureRows
<1>4. /\ table.candidates # Nothing /\ table.candidates.run = dag.version
      /\ dag.universe = dag.version
      /\ CandidatesOf(dag.universe) = table.candidates.of
  BY <1>2, <1>3 DEF Brought, CandidatesOf
<1>5. table.candidates.of = dag.version /\ table.listens = dag.version
  BY <1>4 DEF Running, Good, PublishedAsValidated
<1>6. /\ table.texts.universe = dag.version /\ table.texts.version = dag.version
      /\ table.texts.of = dag.version /\ table.texts.rules = dag.version
  BY <1>2, <1>3, <1>4 DEF Brought, Running, Good, PublishedAsValidated
<1>7. table.texts = TextsUnder(dag.version)
  BY <1>3, <1>6 DEF TextsUnder, Texts, Running, Good, Typed, TypeOK, Tables
<1>8. QED
  BY <1>3, <1>4, <1>5, <1>7 DEF FeaturesUnder

LEMMA MatchesOfTheRun ==
  ASSUME Running, dag.at = 4
  PROVE  MatchRows(dag.version, dag.universe) = MatchesUnder(dag.version)
<1>1. Brought("blocking") /\ Brought("features")
  BY TaskPlaces DEF Running, Good, RunFacts, TasksInOrder
<1>2. /\ table.candidates # Nothing /\ table.candidates.run = dag.version
      /\ dag.universe = dag.version /\ table.features = FeaturesUnder(dag.version)
  BY <1>1 DEF Brought
<1>3. table.candidates.of = dag.version /\ table.listens = dag.version
  BY <1>2 DEF Running, Good, PublishedAsValidated
<1>4. CandidatesOf(dag.universe) = dag.version /\ table.listens # Nothing
  BY <1>2, <1>3, TaskPlaces, MatchingAssumption
     DEF CandidatesOf, Running, Good, MatchingAssumption
<1>5. table.features # Nothing
  BY <1>2, RowsAssumption, TaskPlaces
     DEF FeaturesUnder, TextsUnder, Features, Texts, Running, Good
<1>6. table.features.universe = dag.universe
  BY <1>2 DEF FeaturesUnder
<1>7. QED
  BY <1>2, <1>3, <1>4, <1>5, <1>6 DEF MatchRows, MatchesUnder

LEMMA FeaturesRun ==
  ASSUME Running, Staged(Scheduler), BuildFeatures(Scheduler)
  PROVE  RunFacts'
<1>1. ~Idle(Scheduler) /\ UNCHANGED dag /\ session[Scheduler].job = "features"
  BY DEF BuildFeatures, StageFeatures, ValidateFeatures, PublishFeatures, Absent, Drop,
     At, Idle
<1>2. dag.at = 3 /\ Tasks[dag.at] = "features"
  BY <1>1, TaskPlace, TaskPlaces DEF Running, Good, RunFacts
<1>3. CASE StageFeatures(Scheduler)
  <2>1. Goto(Scheduler, "validate") /\ UNCHANGED <<table, dag>>
        /\ stg'.features = FeatureRows(Version(Scheduler), Universe(Scheduler))
    BY <1>3 DEF StageFeatures, Running, Good, Typed, TypeOK, StagingTables
  <2>2. StagedUnder'
    BY <1>1, <2>1, GotoRuns, FeaturesOfTheRun DEF StagedUnder
  <2>3. QED
    BY <1>1, <2>1, <2>2, UnpublishedRuns
<1>4. CASE ValidateFeatures(Scheduler)
  <2>1. CASE Absent(Scheduler, {"features"}) \/ Stop(Scheduler, "refused")
    BY <1>4, <2>1, AbsentRuns, FailureRuns DEF ValidateFeatures
  <2>2. CASE ~Absent(Scheduler, {"features"}) /\ ~Stop(Scheduler, "refused")
    <3>1. /\ Goto(Scheduler, "publish") /\ UNCHANGED <<table, stg, dag>>
          /\ session[Scheduler].pc = "validate"
      BY <1>4, <2>2 DEF ValidateFeatures, GotoIf, At
    <3>2. StagedUnder'
      BY <1>1, <3>1, GotoRuns DEF StagedUnder, Running, RunFacts
    <3>3. QED
      BY <1>1, <3>1, <3>2, UnpublishedRuns
  <2>3. QED
    BY <2>1, <2>2
<1>5. CASE PublishFeatures(Scheduler)
  <2>1. CASE Absent(Scheduler, {"features"})
    BY <2>1, AbsentRuns
  <2>2. CASE ~Absent(Scheduler, {"features"})
    <3>1. /\ Goto(Scheduler, "drop") /\ session[Scheduler].pc = "publish"
          /\ table' = [table EXCEPT !.features = stg.features]
      BY <1>5, <2>2 DEF PublishFeatures, At
    <3>2. stg.features # Nothing
      BY <1>1, <3>1 DEF Staged, FullSize
    <3>3. dag.universe = dag.version /\ stg.features = FeaturesUnder(dag.version)
      BY <1>1, <3>1, <3>2 DEF Running, RunFacts, StagedUnder
    <3>4. /\ table'.features = FeaturesUnder(dag.version)
          /\ table'.texts = table.texts /\ table'.candidates = table.candidates
          /\ table'.matches = table.matches
      BY <3>1, <3>3 DEF Running, Good, Typed, TypeOK, Tables
    <3>5. Brought("features")'
      BY <1>1, <3>3, <3>4 DEF Brought
    <3>6. TasksInOrder'
      <4>1. ASSUME NEW i \in 1 .. 4, i < dag.at
            PROVE  Brought(Tasks[i])'
        <5>1. Brought(Tasks[i]) /\ Tasks[i] \in {"texts", "blocking"}
          BY <1>2, <4>1, TaskPlaces DEF Running, Good, RunFacts, TasksInOrder
        <5>2. QED
          BY <1>1, <3>4, <5>1 DEF Brought
      <4>2. QED
        BY <1>1, <4>1 DEF TasksInOrder
    <3>7. InForceUnder'
      <4>1. table'.features.version = dag.version
        BY <3>4 DEF FeaturesUnder
      <4>2. QED
        BY <3>4, <4>1 DEF InForceUnder, Running, RunFacts
    <3>8. QED
      BY <1>1, <3>1, <3>5, <3>6, <3>7, PublishedRuns
  <2>3. QED
    BY <2>1, <2>2
<1>6. CASE Drop(Scheduler, "features", "features", "idle")
  <2>1. Stop(Scheduler, "done") /\ UNCHANGED <<table, dag>> /\ Brought(Tasks[dag.at])
    BY <1>6 DEF Drop, At, Running, RunFacts, TaskBrought
  <2>2. QED
    BY <2>1, SuccessRuns
<1>7. QED
  BY <1>3, <1>4, <1>5, <1>6 DEF BuildFeatures

LEMMA MatchesRun ==
  ASSUME Running, BuildMatches(Scheduler)
  PROVE  RunFacts'
<1>1. ~Idle(Scheduler) /\ UNCHANGED dag /\ session[Scheduler].job = "matches"
  BY DEF BuildMatches, StageMatches, ValidateMatches, PublishMatches, Absent, Drop, At, Idle
<1>2. /\ dag.at = 4 /\ Tasks[dag.at] = "matches"
      /\ Version(Scheduler) = dag.version /\ Universe(Scheduler) = dag.universe
  BY <1>1, TaskPlace, TaskPlaces DEF Running, Good, RunFacts, OnTask
<1>3. CASE StageMatches(Scheduler)
  <2>1. Goto(Scheduler, "validate") /\ UNCHANGED <<table, dag>>
        /\ stg'.matches = MatchRows(Version(Scheduler), Universe(Scheduler))
    BY <1>3 DEF StageMatches, Running, Good, Typed, TypeOK, StagingTables
  <2>2. stg'.matches = MatchesUnder(dag.version)
    BY <1>2, <2>1, MatchesOfTheRun
  <2>3. StagedUnder'
    BY <1>1, <2>1, <2>2, GotoRuns DEF StagedUnder
  <2>4. QED
    BY <1>1, <2>1, <2>3, UnpublishedRuns
<1>4. CASE ValidateMatches(Scheduler)
  <2>1. CASE Absent(Scheduler, {"matches"}) \/ Stop(Scheduler, "refused")
    BY <1>4, <2>1, AbsentRuns, FailureRuns DEF ValidateMatches
  <2>2. CASE ~Absent(Scheduler, {"matches"}) /\ ~Stop(Scheduler, "refused")
    <3>1. /\ Goto(Scheduler, "publish") /\ UNCHANGED <<table, stg, dag>>
          /\ session[Scheduler].pc = "validate"
      BY <1>4, <2>2 DEF ValidateMatches, GotoIf, At
    <3>2. StagedUnder'
      BY <1>1, <3>1, GotoRuns DEF StagedUnder, Running, RunFacts
    <3>3. QED
      BY <1>1, <3>1, <3>2, UnpublishedRuns
  <2>3. QED
    BY <2>1, <2>2
<1>5. CASE PublishMatches(Scheduler)
  <2>1. CASE Absent(Scheduler, {"matches"})
    BY <2>1, AbsentRuns
  <2>2. CASE ~Absent(Scheduler, {"matches"})
    <3>1. /\ Goto(Scheduler, "drop") /\ session[Scheduler].pc = "publish"
          /\ table' = [table EXCEPT !.matches = stg.matches]
      BY <1>5, <2>2 DEF PublishMatches, At
    <3>2. stg.matches = MatchesUnder(dag.version)
      BY <1>1, <3>1 DEF Running, RunFacts, StagedUnder
    <3>3. /\ table'.matches = MatchesUnder(dag.version)
          /\ table'.texts = table.texts /\ table'.candidates = table.candidates
          /\ table'.features = table.features
      BY <3>1, <3>2 DEF Running, Good, Typed, TypeOK, Tables
    <3>4. Brought("matches")'
      BY <1>1, <3>3 DEF Brought
    <3>5. TasksInOrder'
      <4>1. ASSUME NEW i \in 1 .. 4, i < dag.at
            PROVE  Brought(Tasks[i])'
        <5>1. Brought(Tasks[i]) /\ Tasks[i] \in {"texts", "blocking", "features"}
          BY <1>2, <4>1, TaskPlaces DEF Running, Good, RunFacts, TasksInOrder
        <5>2. QED
          BY <1>1, <3>3, <5>1 DEF Brought
      <4>2. QED
        BY <1>1, <4>1 DEF TasksInOrder
    <3>6. InForceUnder'
      <4>1. table'.matches.version = dag.version
        BY <3>3 DEF MatchesUnder
      <4>2. QED
        BY <3>3, <4>1 DEF InForceUnder, Running, RunFacts
    <3>7. QED
      BY <1>1, <3>1, <3>4, <3>5, <3>6, PublishedRuns
  <2>3. QED
    BY <2>1, <2>2
<1>6. CASE Drop(Scheduler, "matches", "matches", "idle")
  <2>1. Stop(Scheduler, "done") /\ UNCHANGED <<table, dag>> /\ Brought(Tasks[dag.at])
    BY <1>6 DEF Drop, At, Running, RunFacts, TaskBrought
  <2>2. QED
    BY <2>1, SuccessRuns
<1>7. QED
  BY <1>3, <1>4, <1>5, <1>6 DEF BuildMatches

\* A task that begins: what is brought about before it is known, and it has
\* neither staged nor published anything.
LEMMA BegunRuns ==
  ASSUME Running, NEW at \in 1 .. 4, NEW tries, BeginTask(at, tries), UNCHANGED table,
         \A i \in 1 .. 4 : i < at => Brought(Tasks[i])
  PROVE  RunFacts'
<1>1. /\ dag'.at = at /\ dag'.version = dag.version /\ dag'.universe = dag.universe
      /\ session'[Scheduler] = [Resting EXCEPT !.job = Tasks[at], !.version = dag.version,
                                 !.universe = dag.universe, !.pc = "inspect"]
  BY TaskPlaces DEF BeginTask, Begin, Running, Good, Typed, TypeOK, DagStates
<1>2. /\ session'[Scheduler].pc = "inspect" /\ session'[Scheduler].job = Tasks[at]
      /\ Version(Scheduler)' = dag.version /\ Universe(Scheduler)' = dag.universe
  BY <1>1 DEF Resting, Version, Universe
<1>3. OnTask' /\ TaskBrought' /\ StagedUnder'
  BY <1>1, <1>2 DEF OnTask, TaskBrought, StagedUnder
<1>4. TasksInOrder'
  BY <1>1 DEF TasksInOrder, Brought
<1>5. InForceUnder'
  BY DEF InForceUnder, Running, RunFacts
<1>6. QED
  BY <1>3, <1>4, <1>5 DEF RunFacts

LEMMA EndedRuns ==
  ASSUME Running, NEW o, EndRun(o), UNCHANGED table
  PROVE  RunFacts'
<1>1. dag'.at = 0 /\ session'[Scheduler].pc = "idle"
  BY StopMoves, TaskPlaces DEF EndRun, NoRun, Running, Good
<1>2. OnTask' /\ TaskBrought' /\ StagedUnder' /\ TasksInOrder'
  BY <1>1 DEF OnTask, TaskBrought, StagedUnder, TasksInOrder, Idle
<1>3. InForceUnder'
  BY DEF InForceUnder, Running, RunFacts
<1>4. QED
  BY <1>2, <1>3 DEF RunFacts

LEMMA ScheduleRuns ==
  ASSUME Running, Schedule
  PROVE  RunFacts'
<1>1. CASE StartRun
  <2>1. PICK version \in Versions, universe \in Versions :
          /\ dag' = [version |-> version, universe |-> universe, at |-> 1, tries |-> 0]
          /\ Begin(Scheduler, Tasks[1], version, universe)
    BY <1>1 DEF StartRun
  <2>2. session'[Scheduler] = [Resting EXCEPT !.job = Tasks[1], !.version = version,
                                 !.universe = universe, !.pc = "inspect"]
    BY <2>1, TaskPlaces DEF Begin, Running, Good, Typed, TypeOK
  <2>3. /\ session'[Scheduler].pc = "inspect" /\ session'[Scheduler].job = Tasks[1]
        /\ Version(Scheduler)' = dag'.version /\ Universe(Scheduler)' = dag'.universe
        /\ dag'.at = 1
    BY <2>1, <2>2 DEF Resting, Version, Universe
  <2>4. OnTask' /\ TaskBrought' /\ StagedUnder' /\ TasksInOrder'
    BY <2>3, TaskPlaces DEF OnTask, TaskBrought, StagedUnder, TasksInOrder, Running, Good
  <2>5. InForceUnder'
    BY <1>1 DEF StartRun, InForceUnder, Running, RunFacts
  <2>6. QED
    BY <2>4, <2>5 DEF RunFacts
<1>2. CASE NextTask
  <2>1. CASE dag.at < Len(Tasks)
    <3>1. BeginTask(dag.at + 1, 0) /\ UNCHANGED table
      BY <1>2, <2>1 DEF NextTask
    <3>2. dag.at + 1 \in 1 .. 4 /\ dag.at \in 1 .. 3
      BY <1>2, <2>1, TaskPlaces DEF NextTask, Ended, Tasks, Running, Good
    <3>3. Brought(Tasks[dag.at])
      BY <1>2 DEF NextTask, Ended, Idle, TaskBrought, Running, RunFacts
    <3>4. \A i \in 1 .. 4 : i < dag.at + 1 => i < dag.at \/ i = dag.at
      BY <3>2
    <3>5. \A i \in 1 .. 4 : i < dag.at + 1 => Brought(Tasks[i])
      BY <3>3, <3>4 DEF TasksInOrder, Running, RunFacts
    <3>6. QED
      BY <3>1, <3>2, <3>5, BegunRuns
  <2>2. CASE ~(dag.at < Len(Tasks))
    BY <1>2, <2>2, EndedRuns DEF NextTask
  <2>3. QED
    BY <2>1, <2>2
<1>3. CASE RetryOrFail
  <2>1. CASE dag.tries < Retries[Tasks[dag.at]]
    <3>1. BeginTask(dag.at, dag.tries + 1) /\ UNCHANGED table /\ dag.at \in 1 .. 4
      BY <1>3, <2>1, TaskPlaces DEF RetryOrFail, Ended, Running, Good
    <3>2. QED
      BY <3>1, BegunRuns DEF TasksInOrder, Running, RunFacts
  <2>2. CASE ~(dag.tries < Retries[Tasks[dag.at]])
    BY <1>3, <2>2, EndedRuns DEF RetryOrFail
  <2>3. QED
    BY <2>1, <2>2
<1>4. QED
  BY <1>1, <1>2, <1>3 DEF Schedule

LEMMA RunInit ==
  ASSUME Init, MatchingAssumption
  PROVE  RunInvariant
<1>1. dag.at = 0 /\ session[Scheduler].pc = "idle"
  BY DEF Init, NoRun, Resting, Sessions
<1>2. OnTask /\ TasksInOrder /\ TaskBrought /\ StagedUnder
  BY <1>1 DEF OnTask, TasksInOrder, TaskBrought, StagedUnder, Idle
<1>3. InForceUnder
  BY DEF Init, InForceUnder
<1>4. QED
  BY <1>2, <1>3, TurnInit DEF RunInvariant

LEMMA RunStep ==
  ASSUME RunInvariant, MatchingAssumption, Operators = {}, [Next]_vars
  PROVE  RunInvariant'
<1>1. Sessions = {Scheduler}
  BY DEF Sessions
<1>2. TurnInvariant'
  <2>1. InTurn'
    BY <1>1 DEF InTurn
  <2>2. QED
    BY <2>1, TurnStep DEF RunInvariant
<1>3. Running
  BY DEF Running, RunFacts, Good, Typed, RunInvariant, TurnInvariant
<1>4. Staged(Scheduler)
  BY <1>1 DEF RunInvariant, TurnInvariant
<1>5. RunFacts'
  <2>1. CASE Continue(Scheduler)
    BY <1>3, <1>4, <2>1, InspectRuns, BlockingRuns, TextsRun, FeaturesRun, MatchesRun
       DEF Continue
  <2>2. CASE Abort(Scheduler)
    BY <1>3, <2>2, FailureRuns DEF Abort
  <2>3. CASE Schedule
    BY <1>3, <2>3, ScheduleRuns
  <2>4. CASE Remap \/ UNCHANGED vars
    <3>1. UNCHANGED <<table, stg, session, dag>>
      BY <2>4 DEF Remap, vars
    <3>2. OnTask' /\ StagedUnder'
      BY <1>3, <3>1 DEF Running, RunFacts, OnTask, StagedUnder, Idle, Version, Universe
    <3>3. TaskBrought'
      BY <1>3, <3>1, SameBrought DEF Running, RunFacts, TaskBrought
    <3>4. QED
      BY <1>3, <3>1, <3>2, <3>3, SameBrought DEF Running, RunFacts
  <2>5. QED
    BY <1>1, <2>1, <2>2, <2>3, <2>4 DEF Next, StartByHand
<1>6. QED
  BY <1>2, <1>5 DEF RunInvariant, RunFacts

\* As long as the scheduler alone runs the programs, whatever is killed, refused
\* or retried on the way and whenever the mapping is replaced: the match results
\* in force were decided from the candidates they name and from scores under their
\* own normalization version, on both sides of the comparison. The programs check
\* none of this; it follows from the order of the tasks, each of which looks only
\* at the labels of the target it writes.
THEOREM ScheduledScoresAreOfOneVersion ==
  ASSUME Operators = {}
  PROVE  Spec => []ScoredUnderOneVersion
<1>1. Init => RunInvariant
  BY RunInit, MatchingAssumption
<1>2. RunInvariant /\ [Next]_vars => RunInvariant'
  BY RunStep, MatchingAssumption
<1>3. RunInvariant => ScoredUnderOneVersion
  <2>1. SUFFICES ASSUME RunInvariant, table.matches # Nothing
                 PROVE  ScoredUnderOneVersion
    BY DEF ScoredUnderOneVersion
  <2>2. /\ table.matches = MatchesUnder(table.matches.version)
        /\ table.matches.version \in Versions
    BY <2>1 DEF RunInvariant, InForceUnder, TurnInvariant, TypeOK, Tables, Matches
  <2>3. FeaturesUnder(table.matches.version) # Nothing
    BY <2>2, RowsAssumption DEF FeaturesUnder, TextsUnder, Features, Texts
  <2>4. PICK v : v = table.matches.version
    OBVIOUS
  <2>5. table.matches = MatchesUnder(v) /\ FeaturesUnder(v) # Nothing
    BY <2>2, <2>3, <2>4
  <2>6. QED
    BY <2>5 DEF MatchesUnder, FeaturesUnder, TextsUnder, ScoredUnderOneVersion
<1>4. QED
  BY <1>1, <1>2, <1>3, PTL DEF Spec

\* Under the scheduler alone, a run that ends green leaves the match results its
\* params ask for as they would be built from the tables that then stand, also
\* when the last task found its target done and built nothing.
THEOREM GreenRunsAreCurrent ==
  ASSUME Operators = {}
  PROVE  Spec => GreenRunIsCurrent
<1>1. Init => RunInvariant
  BY RunInit, MatchingAssumption
<1>2. RunInvariant /\ [Next]_vars => RunInvariant'
  BY RunStep, MatchingAssumption
<1>3. RunInvariant =>
        (NextTask /\ dag.at = Len(Tasks)
           => table.matches = MatchRows(dag.version, dag.universe))
  <2>1. SUFFICES ASSUME RunInvariant, NextTask, dag.at = Len(Tasks)
                 PROVE  table.matches = MatchRows(dag.version, dag.universe)
    OBVIOUS
  <2>2. Running
    BY <2>1, MatchingAssumption
       DEF Running, RunFacts, Good, Typed, RunInvariant, TurnInvariant
  <2>3. dag.at = 4 /\ Tasks[dag.at] = "matches"
    BY <2>1 DEF Tasks
  <2>4. Brought("matches")
    BY <2>1, <2>3 DEF NextTask, Ended, Idle, RunInvariant, TaskBrought
  <2>5. QED
    BY <2>2, <2>3, <2>4, MatchesOfTheRun DEF Brought
<1>4. RunInvariant /\ [Next]_vars =>
        [NextTask /\ dag.at = Len(Tasks)
           => table.matches = MatchRows(dag.version, dag.universe)]_vars
  BY <1>3
<1>5. QED
  BY <1>1, <1>2, <1>4, PTL DEF Spec, GreenRunIsCurrent

=============================================================================
