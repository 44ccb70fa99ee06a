----------------------------- MODULE PeriodLoad -----------------------------
(***************************************************************************)
(* How a month of listens gets into the warehouse:                         *)
(*                                                                         *)
(*   upload         src/preservation/upload_slice.py                       *)
(*   verify_source  src/recon/verify_slice.py                              *)
(*   verify_gcs     src/preservation/verify_gcs_slice.py                   *)
(*   load           src/ingestion/load_period.py                           *)
(*   cleanup        the same, --cleanup-orphan-staging                     *)
(*                                                                         *)
(* A slice is a sequence of files with a manifest of their checksums; the  *)
(* run id of a load is hashed from those checksums, and its staging tables *)
(* are named by the run id, so a slice stands for its manifest and for its *)
(* run id too. Rows are abstracted to the slice each member came from.     *)
(*                                                                         *)
(* The scheduler runs verify_source, verify_gcs and load of one manifest;  *)
(* operators run any program with any manifest. Every query is one step.   *)
(***************************************************************************)
EXTENDS Naturals, Sequences

CONSTANTS
  Slices,
  Members,     \* how many files a slice has
  Counted,     \* the slices of the EXPECTED_* sizes
  Unique,      \* the slices in which no two listens have the same hash
  SameListens, \* <<s, t>>: a member of s holds the listens of that member of t
  Scheduled,   \* the slice of the scheduler's manifest
  Operators,
  Scheduler,
  Missing,     \* in place of a member, or of a table without rows
  NoTable,     \* a staging table that does not exist
  MaxMishaps   \* bounds the processes killed and the cleanups started

ASSUME PeriodLoadAssumption ==
  /\ Members \in Nat \ {0}
  /\ Counted \subseteq Slices /\ Unique \subseteq Slices
  /\ SameListens \subseteq Slices \X Slices
  /\ Scheduled \in Slices
  /\ Scheduler \notin Operators
  /\ Missing \notin Slices
  /\ MaxMishaps \in Nat

VARIABLES
  raw,      \* the local directory the members were extracted to
  objects,  \* the objects of the bucket; ext_listens_2026_06 reads them in place
  stg,      \* the staging tables, by run id
  table,    \* bronze_listens and mapper_reference_labels
  session,  \* what runs in each shell, and in the scheduler's worker
  dag,      \* the DAG run, if one is active
  mishaps

vars == <<raw, objects, stg, table, session, dag, mishaps>>
data == <<raw, objects, stg, table>>

Sessions == Operators \cup {Scheduler}
Files == [1 .. Members -> Slices \cup {Missing}]
Whole(slice) == [k \in 1 .. Members |-> slice]

Jobs == {"upload", "verify_source", "verify_gcs", "load", "cleanup"}
Steps == {"idle", "begin", "member", "reconcile", "inspect", "stage_bronze", "stage_labels",
          "validate", "publish", "drop_bronze", "drop_labels", "list_labels"}

\* The first tasks of the graph; each is tried again twice.
Tasks == <<"verify_source", "verify_gcs", "load">>
Retries == 2

NoTables == [bronze |-> NoTable, labels |-> NoTable]
Empty == [rows |-> Missing, run |-> Missing]

SessionStates ==
  [job : Jobs, slice : Slices, force : BOOLEAN, pc : Steps,
   at : 0 .. Members,       \* upload: the members that are in the bucket
   listed : SUBSET Slices,  \* cleanup: the staging tables still to be dropped
   outcome : {"none", "done", "refused", "crashed", "killed"}]

TypeOK ==
  /\ raw \in Files /\ objects \in Files
  /\ stg \in [Slices -> [bronze : Files \cup {NoTable}, labels : Files \cup {NoTable}]]
  /\ table.bronze \in [rows : Files \cup {Missing}, run : Slices \cup {Missing}]
  /\ table.labels \in Files \cup {Missing}
  /\ session \in [Sessions -> SessionStates]
  /\ dag \in [at : 0 .. Len(Tasks), tries : 0 .. Retries]
  /\ mishaps \in 0 .. MaxMishaps

Resting == [job |-> "load", slice |-> Scheduled, force |-> FALSE, pc |-> "idle",
            at |-> 0, listed |-> {}, outcome |-> "none"]

NoRun == [at |-> 0, tries |-> 0]

\* The empty bucket and the tables as Terraform creates them.
Init ==
  /\ raw = Whole(Scheduled)
  /\ objects = Whole(Missing)
  /\ stg = [r \in Slices |-> NoTables]
  /\ table = [bronze |-> Empty, labels |-> Missing]
  /\ session = [s \in Sessions |-> Resting]
  /\ dag = NoRun
  /\ mishaps = 0

-----------------------------------------------------------------------------
(* Moving a session along *)

Idle(s) == session[s].pc = "idle"
At(s, job, pc) == session[s].job = job /\ session[s].pc = pc
Slice(s) == session[s].slice

Goto(s, pc) == session' = [session EXCEPT ![s].pc = pc]
Stop(s, outcome) == session' = [session EXCEPT ![s] = [Resting EXCEPT !.outcome = outcome]]
GotoIf(s, condition, pc) == IF condition THEN Goto(s, pc) ELSE Stop(s, "refused")
StopIf(s, condition) == Stop(s, IF condition THEN "done" ELSE "refused")

Begin(s, job, slice, force) ==
  session' = [session EXCEPT ![s] =
    [Resting EXCEPT !.job = job, !.slice = slice, !.force = force, !.pc = "begin"]]

\* One query or one object of a program: it leaves the scheduler alone.
Runs(s) == ~Idle(s) /\ UNCHANGED <<dag, mishaps>>

-----------------------------------------------------------------------------
(* The bucket *)

\* Each member in the order of the manifest. A file that is not the manifest's stops
\* the program; an object that is already there is left alone, with the same result.
UploadMember(s) ==
  /\ Runs(s) /\ At(s, "upload", "begin")
  /\ LET k == session[s].at + 1 IN
     IF k > Members THEN Stop(s, "done") /\ UNCHANGED objects
     ELSE IF raw[k] # Slice(s) THEN Stop(s, "refused") /\ UNCHANGED objects
     ELSE /\ objects' = [objects EXCEPT ![k] = Slice(s)]
          /\ session' = [session EXCEPT ![s].at = k]
  /\ UNCHANGED <<raw, stg, table>>

VerifySource(s) ==
  /\ Runs(s) /\ At(s, "verify_source", "begin")
  /\ StopIf(s, raw = Whole(Slice(s)))
  /\ UNCHANGED data

\* The objects against the manifest, and against the local files.
VerifyGcs(s) ==
  /\ Runs(s) /\ At(s, "verify_gcs", "begin")
  /\ StopIf(s, objects = Whole(Slice(s)) /\ objects = raw)
  /\ UNCHANGED data

-----------------------------------------------------------------------------
(* load *)

\* Mutant: the number of objects is compared, not what they are.
VerifyObjectCount(s) ==
  /\ Runs(s) /\ At(s, "load", "begin")
  /\ GotoIf(s, \A k \in 1 .. Members : objects[k] # Missing, "reconcile")
  /\ UNCHANGED data

VerifyContract(s) ==
  /\ Runs(s) /\ At(s, "load", "begin")
  /\ GotoIf(s, objects = Whole(Slice(s)), "reconcile")
  /\ UNCHANGED data

\* The external table has as many rows as were measured, inside and outside the period.
ReconcileSource(s) ==
  /\ Runs(s) /\ At(s, "load", "reconcile")
  /\ GotoIf(s, \A k \in 1 .. Members : objects[k] \in Counted, "inspect")
  /\ UNCHANGED data

\* Published listens are of the right number, as the validation saw to: the run id
\* decides. The labels are not looked at.
Already(run) == table.bronze.run = run

InspectTarget(s) ==
  /\ Runs(s) /\ At(s, "load", "inspect")
  /\ IF Already(Slice(s)) /\ ~session[s].force THEN Stop(s, "done") ELSE Goto(s, "stage_bronze")
  /\ UNCHANGED data

\* Mutant: the staging table is created, not replaced.
CreateBronze(s) ==
  /\ Runs(s) /\ At(s, "load", "stage_bronze")
  /\ IF stg[Slice(s)].bronze # NoTable THEN Stop(s, "crashed") /\ UNCHANGED stg
     ELSE /\ stg' = [stg EXCEPT ![Slice(s)].bronze = objects]
          /\ Goto(s, "stage_labels")
  /\ UNCHANGED <<raw, objects, table>>

StageBronze(s) ==
  /\ Runs(s) /\ At(s, "load", "stage_bronze")
  /\ stg' = [stg EXCEPT ![Slice(s)].bronze = objects]
  /\ Goto(s, "stage_labels")
  /\ UNCHANGED <<raw, objects, table>>

\* The external table is read a second time.
StageLabels(s) ==
  /\ Runs(s) /\ At(s, "load", "stage_labels")
  /\ stg' = [stg EXCEPT ![Slice(s)].labels = objects]
  /\ Goto(s, "validate")
  /\ UNCHANGED <<raw, objects, table>>

\* A query over a staging table that was dropped raises, and a transaction that
\* raises is rolled back.
Staged(s) == NoTable \notin {stg[Slice(s)].bronze, stg[Slice(s)].labels}
Raise(s) == ~Staged(s) /\ Stop(s, "crashed") /\ UNCHANGED data

\* The rows of both tables are counted, and the hashes of the listens; each listen has
\* its label.
Valid(staged) ==
  \A k \in 1 .. Members :
    /\ staged.bronze[k] \in Counted \cap Unique
    /\ staged.labels[k] \in Counted
    /\ <<staged.bronze[k], staged.labels[k]>> \in SameListens

ValidateStaging(s) ==
  /\ Runs(s) /\ At(s, "load", "validate")
  /\ \/ Raise(s)
     \/ Staged(s) /\ GotoIf(s, Valid(stg[Slice(s)]), "publish") /\ UNCHANGED data

\* Mutant: the labels are replaced in a transaction of their own, later.
PublishBronze(s) ==
  /\ Runs(s) /\ At(s, "load", "publish")
  /\ \/ Raise(s)
     \/ /\ Staged(s)
        /\ table' = [table EXCEPT !.bronze = [rows |-> stg[Slice(s)].bronze, run |-> Slice(s)]]
        /\ Goto(s, "drop_bronze")
        /\ UNCHANGED <<raw, objects, stg>>

Publish(s) ==
  /\ Runs(s) /\ At(s, "load", "publish")
  /\ \/ Raise(s)
     \/ /\ Staged(s)
        /\ table' = [bronze |-> [rows |-> stg[Slice(s)].bronze, run |-> Slice(s)],
                     labels |-> stg[Slice(s)].labels]
        /\ Goto(s, "drop_bronze")
        /\ UNCHANGED <<raw, objects, stg>>

DropBronze(s) ==
  /\ Runs(s) /\ At(s, "load", "drop_bronze")
  /\ stg' = [stg EXCEPT ![Slice(s)].bronze = NoTable]
  /\ Goto(s, "drop_labels")
  /\ UNCHANGED <<raw, objects, table>>

\* What is read of the tables after that goes into the report and stops nothing.
DropLabels(s) ==
  /\ Runs(s) /\ At(s, "load", "drop_labels")
  /\ stg' = [stg EXCEPT ![Slice(s)].labels = NoTable]
  /\ Stop(s, "done")
  /\ UNCHANGED <<raw, objects, table>>

Load(s) ==
  \/ VerifyContract(s) \/ ReconcileSource(s) \/ InspectTarget(s) \/ StageBronze(s)
  \/ StageLabels(s) \/ ValidateStaging(s) \/ Publish(s) \/ DropBronze(s) \/ DropLabels(s)

-----------------------------------------------------------------------------
(* cleanup: lists the staging tables of a dataset, then drops each             *)

List(s, pc, kind, next) ==
  /\ Runs(s) /\ At(s, "cleanup", pc)
  /\ session' = [session EXCEPT ![s].pc = next,
                                ![s].listed = {r \in Slices : stg[r][kind] # NoTable}]
  /\ UNCHANGED data

\* DROP TABLE raises when somebody else dropped it meanwhile.
DropListed(s, pc, kind, next) ==
  /\ Runs(s) /\ At(s, "cleanup", pc)
  /\ \/ /\ session[s].listed = {}
        /\ IF next = "idle" THEN Stop(s, "done") ELSE Goto(s, next)
        /\ UNCHANGED stg
     \/ \E r \in session[s].listed :
          IF stg[r][kind] = NoTable THEN Stop(s, "crashed") /\ UNCHANGED stg
          ELSE /\ stg' = [stg EXCEPT ![r][kind] = NoTable]
               /\ session' = [session EXCEPT ![s].listed = @ \ {r}]
  /\ UNCHANGED <<raw, objects, table>>

Cleanup(s) ==
  \/ List(s, "begin", "bronze", "drop_bronze")
  \/ DropListed(s, "drop_bronze", "bronze", "list_labels")
  \/ List(s, "list_labels", "labels", "drop_labels")
  \/ DropListed(s, "drop_labels", "labels", "idle")

-----------------------------------------------------------------------------
(* The scheduler *)

BeginTask(at, tries) ==
  /\ dag' = [at |-> at, tries |-> tries]
  /\ Begin(Scheduler, Tasks[at], Scheduled, FALSE)

EndRun(outcome) == dag' = NoRun /\ Stop(Scheduler, outcome)

StartRun ==
  /\ dag.at = 0 /\ Idle(Scheduler)
  /\ BeginTask(1, 0)
  /\ UNCHANGED <<data, mishaps>>

Ended(outcomes) ==
  dag.at > 0 /\ Idle(Scheduler) /\ session[Scheduler].outcome \in outcomes

NextTask ==
  /\ Ended({"done"})
  /\ IF dag.at < Len(Tasks) THEN BeginTask(dag.at + 1, 0) ELSE EndRun("done")
  /\ UNCHANGED <<data, mishaps>>

\* Mutant: the first attempt is not counted.
RetryOnceMore ==
  /\ Ended({"refused", "crashed", "killed"})
  /\ IF dag.tries <= Retries THEN BeginTask(dag.at, dag.tries + 1) ELSE EndRun("refused")
  /\ UNCHANGED <<data, mishaps>>

RetryOrFail ==
  /\ Ended({"refused", "crashed", "killed"})
  /\ IF dag.tries < Retries THEN BeginTask(dag.at, dag.tries + 1) ELSE EndRun("refused")
  /\ UNCHANGED <<data, mishaps>>

-----------------------------------------------------------------------------
(* Everything together *)

StartByHand(s) ==
  /\ s \in Operators /\ Idle(s)
  /\ \E slice \in Slices :
       \/ \E job \in {"upload", "verify_source", "verify_gcs"} : Begin(s, job, slice, FALSE)
       \/ \E force \in BOOLEAN : Begin(s, "load", slice, force)
  /\ UNCHANGED <<data, dag, mishaps>>

Mishap == mishaps < MaxMishaps /\ mishaps' = mishaps + 1

StartCleanup(s) ==
  /\ s \in Operators /\ Idle(s) /\ Mishap
  /\ Begin(s, "cleanup", Scheduled, FALSE)
  /\ UNCHANGED <<data, dag>>

\* The process is killed, a query fails, or it was told --fail-before-publish.
Abort(s) ==
  /\ ~Idle(s) /\ Mishap
  /\ Stop(s, "killed")
  /\ UNCHANGED <<data, dag>>

\* extract_period.py, run over some archive.
Extract ==
  /\ \E slice \in Slices : raw' = Whole(slice)
  /\ UNCHANGED <<objects, stg, table, session, dag, mishaps>>

Continue(s) == UploadMember(s) \/ VerifySource(s) \/ VerifyGcs(s) \/ Load(s) \/ Cleanup(s)

Schedule == StartRun \/ NextTask \/ RetryOrFail

Next ==
  \/ \E s \in Sessions : StartByHand(s) \/ StartCleanup(s) \/ Continue(s) \/ Abort(s)
  \/ Schedule \/ Extract

\* The bucket is not written while a load runs. Nothing in the code sees to that.
Loading(s) == session[s].job = "load" /\ ~Idle(s)
Preserved == (\E s \in Sessions : Loading(s)) => objects' = objects

Spec == Init /\ [][Next /\ Preserved]_vars

\* A program that runs goes on, and the scheduler runs the graph again and again.
FairSpec ==
  /\ Spec
  /\ \A s \in Sessions : WF_vars(Continue(s) /\ Preserved)
  /\ WF_vars(Schedule)

-----------------------------------------------------------------------------
(* Properties *)

\* "bronze and labels can never be left on different runs": the listens in force and
\* their labels are those of the slice whose checksums the run id was hashed from,
\* whichever loads, cleanups and failures overlapped.
OneSliceInForce ==
  table # [bronze |-> Empty, labels |-> Missing] =>
    /\ table.bronze.rows = Whole(table.bronze.run)
    /\ table.labels = Whole(table.bronze.run)

\* Both tables are replaced at once, by the slice that is in the bucket.
InForce == INSTANCE PeriodInForce WITH listens <- table.bronze.rows, labels <- table.labels
LoadsAreAtomic == InForce!Spec

\* However loads were killed, cleaned up or overtaken: once the scheduled slice stays
\* on disk and in the bucket, it gets into force for good.
LoadedInTheEnd ==
  Scheduled \in Counted \cap Unique /\ <>[](raw = Whole(Scheduled) /\ objects = raw)
    => <>[](table.bronze.run = Scheduled)

=============================================================================
