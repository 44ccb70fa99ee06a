-------------------------- MODULE PeriodLoadProofs --------------------------
(***************************************************************************)
(* For any slices, members and operators: PeriodLoad keeps its types, the  *)
(* listens and the labels in force are one slice's, and it implements      *)
(* PeriodInForce.                                                          *)
(***************************************************************************)
EXTENDS PeriodLoad, TLAPS

Typed == TypeOK /\ PeriodLoadAssumption

-----------------------------------------------------------------------------
(* Type correctness *)

LEMMA RestingTyped ==
  ASSUME PeriodLoadAssumption
  PROVE  Resting \in SessionStates
BY DEF PeriodLoadAssumption, Resting, SessionStates, Jobs, Steps

LEMMA GotoTyped ==
  ASSUME NEW s \in Sessions, NEW pc \in Steps, Typed, Goto(s, pc)
  PROVE  session' \in [Sessions -> SessionStates]
<1>1. session \in [Sessions -> SessionStates]
  BY DEF Typed, TypeOK
<1>2. [session[s] EXCEPT !.pc = pc] \in SessionStates
  BY <1>1 DEF SessionStates
<1>3. QED
  BY <1>1, <1>2 DEF Goto

\* upload moves on to a member.
LEMMA MemberTyped ==
  ASSUME NEW s \in Sessions, NEW k \in 0 .. Members, Typed,
         session' = [session EXCEPT ![s].at = k]
  PROVE  session' \in [Sessions -> SessionStates]
<1>1. session \in [Sessions -> SessionStates]
  BY DEF Typed, TypeOK
<1>2. [session[s] EXCEPT !.at = k] \in SessionStates
  BY <1>1 DEF SessionStates
<1>3. QED
  BY <1>1, <1>2

LEMMA StopTyped ==
  ASSUME NEW s \in Sessions, NEW o \in {"done", "refused", "crashed", "killed"},
         Typed, Stop(s, o)
  PROVE  session' \in [Sessions -> SessionStates]
<1>1. [Resting EXCEPT !.outcome = o] \in SessionStates
  BY RestingTyped DEF Typed, SessionStates
<1>2. QED
  BY <1>1 DEF Typed, TypeOK, Stop

LEMMA BeginTyped ==
  ASSUME NEW s \in Sessions, NEW job \in Jobs, NEW slice \in Slices, NEW force \in BOOLEAN,
         Typed, Begin(s, job, slice, force)
  PROVE  session' \in [Sessions -> SessionStates]
<1> DEFINE begun == [Resting EXCEPT !.job = job, !.slice = slice, !.force = force, !.pc = "begin"]
<1>1. begun \in SessionStates
  BY RestingTyped DEF Typed, SessionStates, Steps
<1>2. QED
  BY <1>1 DEF Typed, TypeOK, Begin

LEMMA SliceTyped ==
  ASSUME NEW s \in Sessions, Typed
  PROVE  Slice(s) \in Slices /\ session[s] \in SessionStates
BY DEF Typed, TypeOK, Slice, SessionStates

LEMMA WholeTyped ==
  ASSUME NEW slice \in Slices \cup {Missing}
  PROVE  Whole(slice) \in Files
BY DEF Whole, Files

LEMMA InitTyped ==
  ASSUME PeriodLoadAssumption, Init
  PROVE  TypeOK
<1>1. session \in [Sessions -> SessionStates]
  BY RestingTyped DEF Init
<1>2. raw \in Files /\ objects \in Files
  BY WholeTyped DEF Init, PeriodLoadAssumption
<1>3. stg \in [Slices -> [bronze : Files \cup {NoTable}, labels : Files \cup {NoTable}]]
  BY DEF Init, NoTables
<1>4. dag \in [at : 0 .. Len(Tasks), tries : 0 .. Retries]
  BY DEF Init, NoRun, Tasks, Retries
<1>5. mishaps \in 0 .. MaxMishaps
  BY DEF Init, PeriodLoadAssumption
<1>6. table.bronze \in [rows : Files \cup {Missing}, run : Slices \cup {Missing}]
  BY DEF Init, Empty
<1>7. table.labels \in Files \cup {Missing}
  BY DEF Init
<1>8. QED
  BY <1>1, <1>2, <1>3, <1>4, <1>5, <1>6, <1>7 DEF TypeOK

\* The programs that only look at the files, and upload.
LEMMA BucketTyped ==
  ASSUME Typed, NEW s \in Sessions, UploadMember(s) \/ VerifySource(s) \/ VerifyGcs(s)
  PROVE  TypeOK'
<1>1. CASE UploadMember(s)
  <2> DEFINE k == session[s].at + 1
  <2>1. CASE objects' = objects
    <3>1. CASE k > Members \/ raw[k] # Slice(s)
      <4>1. session' \in [Sessions -> SessionStates]
        BY <1>1, <3>1, StopTyped DEF UploadMember
      <4>2. QED
        BY <1>1, <2>1, <4>1 DEF UploadMember, Runs, Typed, TypeOK
    <3>2. CASE k <= Members /\ raw[k] = Slice(s)
      <4>1. session' = [session EXCEPT ![s].at = k]
        BY <1>1, <3>2, SliceTyped DEF UploadMember, SessionStates, Typed, PeriodLoadAssumption
      <4>2. k \in 0 .. Members
        BY <3>2, SliceTyped DEF SessionStates, Typed, PeriodLoadAssumption
      <4>3. session' \in [Sessions -> SessionStates]
        BY <4>1, <4>2, MemberTyped
      <4>4. QED
        BY <1>1, <2>1, <4>3 DEF UploadMember, Runs, Typed, TypeOK
    <3>3. k \in Nat /\ Members \in Nat
      BY SliceTyped DEF SessionStates, Typed, PeriodLoadAssumption
    <3>4. QED
      BY <3>1, <3>2, <3>3
  <2>2. CASE objects' # objects
    <3>1. k <= Members /\ objects' = [objects EXCEPT ![k] = Slice(s)]
          /\ session' = [session EXCEPT ![s].at = k]
      BY <1>1, <2>2, SliceTyped DEF UploadMember, SessionStates, Typed, PeriodLoadAssumption
    <3>2. k \in 0 .. Members
      BY <3>1, SliceTyped DEF SessionStates, Typed, PeriodLoadAssumption
    <3>3. session' \in [Sessions -> SessionStates]
      BY <3>1, <3>2, MemberTyped
    <3>4. objects' \in Files
      BY <3>1, SliceTyped DEF Typed, TypeOK, Files
    <3>5. QED
      BY <1>1, <3>3, <3>4 DEF UploadMember, Runs, Typed, TypeOK
  <2>3. QED
    BY <2>1, <2>2
<1>2. CASE VerifySource(s) \/ VerifyGcs(s)
  <2>1. session' \in [Sessions -> SessionStates]
    BY <1>2, StopTyped DEF VerifySource, VerifyGcs, StopIf
  <2>2. QED
    BY <1>2, <2>1 DEF VerifySource, VerifyGcs, Runs, data, Typed, TypeOK
<1>3. QED
  BY <1>1, <1>2

\* The steps of a load that change no table.
LEMMA LoadChecksTyped ==
  ASSUME Typed, NEW s \in Sessions,
         VerifyContract(s) \/ ReconcileSource(s) \/ InspectTarget(s) \/ ValidateStaging(s)
  PROVE  TypeOK'
<1>1. session' \in [Sessions -> SessionStates]
  BY StopTyped, GotoTyped
  DEF VerifyContract, ReconcileSource, InspectTarget, ValidateStaging, Raise, GotoIf, Steps
<1>2. UNCHANGED <<raw, objects, stg, table>> /\ UNCHANGED <<dag, mishaps>>
  BY DEF VerifyContract, ReconcileSource, InspectTarget, ValidateStaging, Raise, Runs, data
<1>3. QED
  BY <1>1, <1>2 DEF Typed, TypeOK

\* The steps of a load that stage, publish and drop.
LEMMA LoadWritesTyped ==
  ASSUME Typed, NEW s \in Sessions,
         StageBronze(s) \/ StageLabels(s) \/ Publish(s) \/ DropBronze(s) \/ DropLabels(s)
  PROVE  TypeOK'
<1>1. session' \in [Sessions -> SessionStates]
  BY StopTyped, GotoTyped
  DEF StageBronze, StageLabels, Publish, DropBronze, DropLabels, Raise, Steps
<1>2. UNCHANGED <<raw, objects>> /\ UNCHANGED <<dag, mishaps>>
  BY DEF StageBronze, StageLabels, Publish, DropBronze, DropLabels, Raise, Runs, data
<1>3. stg' \in [Slices -> [bronze : Files \cup {NoTable}, labels : Files \cup {NoTable}]]
  BY SliceTyped
  DEF StageBronze, StageLabels, Publish, DropBronze, DropLabels, Raise, data, Typed, TypeOK
<1>4. /\ table'.bronze \in [rows : Files \cup {Missing}, run : Slices \cup {Missing}]
      /\ table'.labels \in Files \cup {Missing}
  <2>1. CASE table' = table
    BY <2>1 DEF Typed, TypeOK
  <2>2. CASE table' # table
    <3>1. /\ Staged(s)
          /\ table' = [bronze |-> [rows |-> stg[Slice(s)].bronze, run |-> Slice(s)],
                       labels |-> stg[Slice(s)].labels]
      BY <2>2 DEF StageBronze, StageLabels, Publish, DropBronze, DropLabels, Raise, data
    <3>2. stg[Slice(s)].bronze \in Files /\ stg[Slice(s)].labels \in Files
      BY <3>1, SliceTyped DEF Staged, Typed, TypeOK
    <3>3. QED
      BY <3>1, <3>2, SliceTyped
  <2>3. QED
    BY <2>1, <2>2
<1>5. QED
  BY <1>1, <1>2, <1>3, <1>4 DEF Typed, TypeOK

LEMMA ListTyped ==
  ASSUME Typed, NEW s \in Sessions, NEW pc, NEW kind, NEW next \in Steps, List(s, pc, kind, next)
  PROVE  TypeOK'
<1> DEFINE found == {r \in Slices : stg[r][kind] # NoTable}
<1>1. session' \in [Sessions -> SessionStates]
  <2>1. session \in [Sessions -> SessionStates]
    BY DEF Typed, TypeOK
  <2>2. [session[s] EXCEPT !.pc = next, !.listed = found] \in SessionStates
    BY <2>1 DEF SessionStates
  <2>3. session' = [session EXCEPT ![s] = [@ EXCEPT !.pc = next, !.listed = found]]
    BY <2>1 DEF List
  <2>4. QED
    BY <2>1, <2>2, <2>3
<1>2. QED
  BY <1>1 DEF List, Runs, data, Typed, TypeOK

LEMMA DropListedTyped ==
  ASSUME Typed, NEW s \in Sessions, NEW pc, NEW kind \in {"bronze", "labels"},
         NEW next \in Steps, DropListed(s, pc, kind, next)
  PROVE  TypeOK'
<1>1. session' \in [Sessions -> SessionStates]
  <2>1. CASE Stop(s, "done") \/ Stop(s, "crashed")
    BY <2>1, StopTyped
  <2>2. CASE Goto(s, next)
    BY <2>2, GotoTyped
  <2>3. CASE \E r \in session[s].listed :
               session' = [session EXCEPT ![s].listed = @ \ {r}]
    <3>1. PICK r \in session[s].listed :
                 session' = [session EXCEPT ![s].listed = @ \ {r}]
      BY <2>3
    <3>2. session \in [Sessions -> SessionStates]
      BY DEF Typed, TypeOK
    <3>3. [session[s] EXCEPT !.listed = @ \ {r}] \in SessionStates
      BY <3>2 DEF SessionStates
    <3>4. QED
      BY <3>1, <3>2, <3>3
  <2>4. QED
    BY <2>1, <2>2, <2>3 DEF DropListed
<1>2. stg' \in [Slices -> [bronze : Files \cup {NoTable}, labels : Files \cup {NoTable}]]
  <2>1. CASE stg' = stg
    BY <2>1 DEF Typed, TypeOK
  <2>2. CASE \E r \in session[s].listed : stg' = [stg EXCEPT ![r][kind] = NoTable]
    <3>1. PICK r \in session[s].listed : stg' = [stg EXCEPT ![r][kind] = NoTable]
      BY <2>2
    <3>2. r \in Slices
      BY <3>1, SliceTyped DEF SessionStates
    <3>3. CASE kind = "bronze"
      BY <3>1, <3>2, <3>3 DEF Typed, TypeOK
    <3>4. CASE kind = "labels"
      BY <3>1, <3>2, <3>4 DEF Typed, TypeOK
    <3>5. QED
      BY <3>3, <3>4
  <2>3. QED
    BY <2>1, <2>2 DEF DropListed
<1>3. QED
  BY <1>1, <1>2 DEF DropListed, Runs, Typed, TypeOK

LEMMA CleanupTyped ==
  ASSUME Typed, NEW s \in Sessions, Cleanup(s)
  PROVE  TypeOK'
BY ListTyped, DropListedTyped DEF Cleanup, Steps

LEMMA TasksTyped ==
  /\ Len(Tasks) = 3
  /\ \A at \in 1 .. 3 : Tasks[at] \in Jobs
BY DEF Tasks, Jobs

\* The scheduler's moves: a task begins, or the run ends.
LEMMA BeginTaskTyped ==
  ASSUME Typed, NEW at \in 1 .. 3, NEW tries \in 0 .. Retries, BeginTask(at, tries),
         UNCHANGED <<data, mishaps>>
  PROVE  TypeOK'
<1>1. Scheduler \in Sessions /\ Scheduled \in Slices
  BY DEF Sessions, Typed, PeriodLoadAssumption
<1>2. session' \in [Sessions -> SessionStates]
  BY <1>1, BeginTyped, TasksTyped DEF BeginTask
<1>3. dag' \in [at : 0 .. Len(Tasks), tries : 0 .. Retries]
  BY TasksTyped DEF BeginTask
<1>4. QED
  BY <1>2, <1>3 DEF data, Typed, TypeOK

LEMMA EndRunTyped ==
  ASSUME Typed, NEW o \in {"done", "refused"}, EndRun(o), UNCHANGED <<data, mishaps>>
  PROVE  TypeOK'
<1>1. session' \in [Sessions -> SessionStates]
  BY StopTyped DEF EndRun, Sessions
<1>2. dag' \in [at : 0 .. Len(Tasks), tries : 0 .. Retries]
  BY TasksTyped DEF EndRun, NoRun, Retries
<1>3. QED
  BY <1>1, <1>2 DEF data, Typed, TypeOK

LEMMA ScheduleTyped ==
  ASSUME Typed, Schedule
  PROVE  TypeOK'
<1>1. dag.at \in 0 .. 3 /\ dag.tries \in 0 .. 2
  BY TasksTyped DEF Typed, TypeOK, Retries
<1>2. CASE StartRun
  <2>1. BeginTask(1, 0) /\ UNCHANGED <<data, mishaps>>
    BY <1>2 DEF StartRun
  <2>2. 0 \in 0 .. Retries /\ 1 \in 1 .. 3
    BY DEF Retries
  <2>3. QED
    BY <2>1, <2>2, BeginTaskTyped
<1>3. CASE NextTask
  <2>1. CASE dag.at < 3
    <3>1. BeginTask(dag.at + 1, 0) /\ UNCHANGED <<data, mishaps>>
      BY <1>3, <2>1, TasksTyped DEF NextTask
    <3>2. 0 \in 0 .. Retries /\ dag.at + 1 \in 1 .. 3
      BY <1>1, <2>1 DEF Retries
    <3>3. QED
      BY <3>1, <3>2, BeginTaskTyped
  <2>2. CASE ~(dag.at < 3)
    BY <1>3, <2>2, TasksTyped, EndRunTyped DEF NextTask
  <2>3. QED
    BY <2>1, <2>2
<1>4. CASE RetryOrFail
  <2>1. CASE dag.tries < Retries
    <3>1. BeginTask(dag.at, dag.tries + 1) /\ UNCHANGED <<data, mishaps>>
      BY <1>4, <2>1 DEF RetryOrFail
    <3>2. dag.at > 0
      BY <1>4 DEF RetryOrFail, Ended
    <3>3. dag.at \in 1 .. 3 /\ dag.tries + 1 \in 0 .. Retries
      BY <1>1, <2>1, <3>2 DEF Retries
    <3>4. QED
      BY <3>1, <3>3, BeginTaskTyped
  <2>2. CASE ~(dag.tries < Retries)
    BY <1>4, <2>2, EndRunTyped DEF RetryOrFail
  <2>3. QED
    BY <2>1, <2>2
<1>5. QED
  BY <1>2, <1>3, <1>4 DEF Schedule

LEMMA ByHandTyped ==
  ASSUME Typed, NEW s \in Sessions, StartByHand(s) \/ StartCleanup(s) \/ Abort(s)
  PROVE  TypeOK'
<1>1. session' \in [Sessions -> SessionStates]
  <2>1. CASE StartByHand(s)
    BY <2>1, BeginTyped DEF StartByHand, Jobs
  <2>2. CASE StartCleanup(s)
    BY <2>2, BeginTyped DEF StartCleanup, Jobs, Typed, PeriodLoadAssumption
  <2>3. CASE Abort(s)
    BY <2>3, StopTyped DEF Abort
  <2>4. QED
    BY <2>1, <2>2, <2>3
<1>2. mishaps' \in 0 .. MaxMishaps
  <2>1. mishaps \in 0 .. MaxMishaps /\ MaxMishaps \in Nat
    BY DEF Typed, TypeOK, PeriodLoadAssumption
  <2>2. mishaps' = mishaps \/ (mishaps < MaxMishaps /\ mishaps' = mishaps + 1)
    BY DEF StartByHand, StartCleanup, Abort, Mishap
  <2>3. QED
    BY <2>1, <2>2
<1>3. QED
  BY <1>1, <1>2 DEF StartByHand, StartCleanup, Abort, data, Typed, TypeOK

LEMMA ExtractTyped ==
  ASSUME Typed, Extract
  PROVE  TypeOK'
BY WholeTyped DEF Extract, Typed, TypeOK

LEMMA StepTyped ==
  ASSUME Typed, [Next /\ Preserved]_vars
  PROVE  TypeOK'
<1>1. CASE Next
  <2>1. ASSUME NEW s \in Sessions, Continue(s)
        PROVE  TypeOK'
    BY <2>1, BucketTyped, LoadChecksTyped, LoadWritesTyped, CleanupTyped DEF Continue, Load
  <2>2. QED
    BY <1>1, <2>1, ByHandTyped, ScheduleTyped, ExtractTyped DEF Next
<1>2. CASE UNCHANGED vars
  BY <1>2 DEF vars, Typed, TypeOK
<1>3. QED
  BY <1>1, <1>2

\* The files, the tables, the sessions and the DAG run keep their types, whatever
\* overlaps and is killed; no task is tried more than three times.
THEOREM PeriodLoadTypeCorrect == Spec => []TypeOK
<1>1. Init => TypeOK
  BY InitTyped, PeriodLoadAssumption
<1>2. TypeOK /\ [Next /\ Preserved]_vars => TypeOK'
  BY StepTyped, PeriodLoadAssumption DEF Typed
<1>3. QED
  BY <1>1, <1>2, PTL DEF Spec

-----------------------------------------------------------------------------
(* What a load has seen still holds when it acts on it *)

\* The steps of a load after the bucket was compared with the manifest.
Past == {"reconcile", "inspect", "stage_bronze", "stage_labels", "validate", "publish"}

\* A load that verified the bucket has its slice there, and one that validated has a slice
\* of the measured sizes.
Knows(x, bucket) ==
  x.job = "load" =>
    /\ x.pc \in Past => bucket = Whole(x.slice)
    /\ x.pc = "publish" => x.slice \in Counted \cap Unique

Verified == \A s \in Sessions : Knows(session[s], objects)

\* Whatever is staged under a run id is that slice, also what a killed load left.
StagedWhole ==
  \A r \in Slices : stg[r].bronze \in {NoTable, Whole(r)} /\ stg[r].labels \in {NoTable, Whole(r)}

LoadInv == Verified /\ StagedWhole /\ OneSliceInForce

Sound == Typed /\ LoadInv

LEMMA KnowsKept ==
  ASSUME Sound, NEW s \in Sessions, NEW x, Knows(x, objects),
         session' = [session EXCEPT ![s] = x], objects' = objects
  PROVE  Verified'
<1>1. session \in [Sessions -> SessionStates]
  BY DEF Sound, Typed, TypeOK
<1>2. SUFFICES ASSUME NEW t \in Sessions
               PROVE  Knows(session'[t], objects)
  BY DEF Verified
<1>3. CASE t = s
  BY <1>1, <1>3
<1>4. CASE t # s
  BY <1>1, <1>4 DEF Sound, LoadInv, Verified
<1>5. QED
  BY <1>3, <1>4

LEMMA StopKept ==
  ASSUME Sound, NEW s \in Sessions, NEW o, Stop(s, o), objects' = objects
  PROVE  Verified'
<1>1. Knows([Resting EXCEPT !.outcome = o], objects)
  BY DEF Knows, Past, Resting
<1>2. QED
  BY <1>1, KnowsKept DEF Stop

LEMMA BeginKept ==
  ASSUME Sound, NEW s \in Sessions, NEW job, NEW slice, NEW force,
         Begin(s, job, slice, force), objects' = objects
  PROVE  Verified'
<1>1. Knows([Resting EXCEPT !.job = job, !.slice = slice, !.force = force, !.pc = "begin"],
            objects)
  BY DEF Knows, Past, Resting
<1>2. QED
  BY <1>1, KnowsKept DEF Begin

\* A program other than load moves on.
LEMMA OthersKept ==
  ASSUME Sound, NEW s \in Sessions, NEW x, session[s].job # "load", x.job = session[s].job,
         session' = [session EXCEPT ![s] = x], objects' = objects
  PROVE  Verified'
<1>1. Knows(x, objects)
  BY DEF Knows
<1>2. QED
  BY <1>1, KnowsKept

\* A load moves on to a step for which it knows enough.
LEMMA GotoKept ==
  ASSUME Sound, NEW s \in Sessions, NEW pc, Goto(s, pc), objects' = objects,
         pc \in Past => objects = Whole(Slice(s)),
         pc = "publish" => Slice(s) \in Counted \cap Unique
  PROVE  Verified'
<1> DEFINE x == [session[s] EXCEPT !.pc = pc]
<1>1. session[s] \in SessionStates
  BY SliceTyped DEF Sound
<1>2. x.pc = pc /\ x.slice = Slice(s)
  BY <1>1 DEF SessionStates, Slice
<1>3. Knows(x, objects)
  BY <1>2 DEF Knows
<1>4. QED
  BY <1>3, KnowsKept DEF Goto

-----------------------------------------------------------------------------
(* Each step *)

LEMMA UploadKept ==
  ASSUME Sound, Preserved, NEW s \in Sessions, UploadMember(s)
  PROVE  LoadInv'
<1>1. StagedWhole' /\ OneSliceInForce'
  BY DEF UploadMember, Sound, LoadInv, StagedWhole, OneSliceInForce
<1>2. Verified'
  <2>1. CASE Stop(s, "done") /\ UNCHANGED objects
    BY <2>1, StopKept
  <2>2. CASE Stop(s, "refused") /\ UNCHANGED objects
    BY <2>2, StopKept
  <2>3. CASE session' = [session EXCEPT ![s].at = session[s].at + 1] /\ objects' = objects
    <3>1. session[s].job # "load"
      BY DEF UploadMember, At
    <3>2. [session[s] EXCEPT !.at = session[s].at + 1].job = session[s].job
      BY SliceTyped DEF Sound, SessionStates
    <3>3. QED
      BY <2>3, <3>1, <3>2, OthersKept
  <2>4. CASE session' = [session EXCEPT ![s].at = session[s].at + 1] /\ objects' # objects
    <3>1. \A t \in Sessions : ~Loading(t)
      BY <2>4 DEF Preserved
    <3>2. session \in [Sessions -> SessionStates]
      BY DEF Sound, Typed, TypeOK
    <3>3. SUFFICES ASSUME NEW t \in Sessions
                   PROVE  Knows(session'[t], objects')
      BY DEF Verified
    <3>4. session'[t].job = session[t].job /\ session'[t].pc = session[t].pc
      BY <2>4, <3>2 DEF SessionStates
    <3>5. QED
      BY <3>1, <3>4 DEF Knows, Loading, Idle, Past
  <2>5. QED
    BY <2>1, <2>2, <2>3, <2>4 DEF UploadMember
<1>3. QED
  BY <1>1, <1>2 DEF LoadInv

\* The steps that leave the tables alone.
LEMMA LooksKept ==
  ASSUME Sound, Verified', UNCHANGED <<stg, table>>
  PROVE  LoadInv'
BY DEF Sound, LoadInv, StagedWhole, OneSliceInForce

LEMMA VerifyKept ==
  ASSUME Sound, NEW s \in Sessions, VerifySource(s) \/ VerifyGcs(s)
  PROVE  LoadInv'
<1>1. Verified'
  BY StopKept DEF VerifySource, VerifyGcs, StopIf, data
<1>2. QED
  BY <1>1, LooksKept DEF VerifySource, VerifyGcs, data

LEMMA ChecksKept ==
  ASSUME Sound, NEW s \in Sessions, VerifyContract(s) \/ ReconcileSource(s) \/ InspectTarget(s)
  PROVE  LoadInv'
<1>1. UNCHANGED data
  BY DEF VerifyContract, ReconcileSource, InspectTarget
<1>2. objects' = objects /\ UNCHANGED <<stg, table>>
  BY <1>1 DEF data
<1>3. Knows(session[s], objects)
  BY DEF Sound, LoadInv, Verified
<1>4. Verified'
  <2>1. CASE VerifyContract(s)
    BY <1>2, <2>1, StopKept, GotoKept DEF VerifyContract, GotoIf
  <2>2. CASE ReconcileSource(s)
    BY <1>2, <1>3, <2>2, StopKept, GotoKept DEF ReconcileSource, GotoIf, At, Knows, Past, Slice
  <2>3. CASE InspectTarget(s)
    BY <1>2, <1>3, <2>3, StopKept, GotoKept DEF InspectTarget, At, Knows, Past, Slice
  <2>4. QED
    BY <2>1, <2>2, <2>3
<1>5. QED
  BY <1>2, <1>4, LooksKept

\* What is staged is whole, so the size of one member is the size of all.
LEMMA StagedSlice ==
  ASSUME Sound, NEW s \in Sessions, Staged(s)
  PROVE  stg[Slice(s)].bronze = Whole(Slice(s)) /\ stg[Slice(s)].labels = Whole(Slice(s))
<1>1. Slice(s) \in Slices
  BY SliceTyped DEF Sound
<1>2. QED
  BY <1>1 DEF Sound, LoadInv, StagedWhole, Staged

LEMMA ValidateKept ==
  ASSUME Sound, NEW s \in Sessions, ValidateStaging(s)
  PROVE  LoadInv'
<1>1. UNCHANGED data
  BY DEF ValidateStaging, Raise
<1>2. objects' = objects /\ UNCHANGED <<stg, table>>
  BY <1>1 DEF data
<1>3. Verified'
  <2>1. CASE Raise(s)
    BY <1>2, <2>1, StopKept DEF Raise
  <2>2. CASE Staged(s) /\ ~Valid(stg[Slice(s)])
    BY <1>2, <2>2, StopKept DEF ValidateStaging, Raise, GotoIf
  <2>3. CASE Staged(s) /\ Valid(stg[Slice(s)])
    <3>1. 1 \in 1 .. Members
      BY DEF Sound, Typed, PeriodLoadAssumption
    <3>2. Slice(s) \in Counted \cap Unique
      <4>1. stg[Slice(s)].bronze[1] \in Counted \cap Unique
        BY <2>3, <3>1 DEF Valid
      <4>2. stg[Slice(s)].bronze = Whole(Slice(s))
        BY <2>3, StagedSlice
      <4>3. Whole(Slice(s))[1] = Slice(s)
        BY <3>1 DEF Whole
      <4>4. QED
        BY <4>1, <4>2, <4>3
    <3>3. objects = Whole(Slice(s))
      BY DEF Sound, LoadInv, Verified, ValidateStaging, At, Knows, Past, Slice
    <3>4. Goto(s, "publish")
      BY <2>3 DEF ValidateStaging, Raise, GotoIf
    <3>5. QED
      BY <1>2, <3>2, <3>3, <3>4, GotoKept
  <2>4. QED
    BY <2>1, <2>2, <2>3 DEF ValidateStaging
<1>4. QED
  BY <1>2, <1>3, LooksKept

LEMMA StageKept ==
  ASSUME Sound, NEW s \in Sessions, StageBronze(s) \/ StageLabels(s)
  PROVE  LoadInv'
<1>1. objects = Whole(Slice(s))
  BY DEF Sound, LoadInv, Verified, StageBronze, StageLabels, At, Knows, Past, Slice
<1>2. Verified'
  BY <1>1, GotoKept DEF StageBronze, StageLabels
<1>3. StagedWhole'
  <2>1. /\ stg \in [Slices -> [bronze : Files \cup {NoTable}, labels : Files \cup {NoTable}]]
        /\ StagedWhole
    BY DEF Sound, LoadInv, Typed, TypeOK
  <2>2. CASE StageBronze(s)
    BY <1>1, <2>1, <2>2 DEF StageBronze, StagedWhole
  <2>3. CASE StageLabels(s)
    BY <1>1, <2>1, <2>3 DEF StageLabels, StagedWhole
  <2>4. QED
    BY <2>2, <2>3
<1>4. OneSliceInForce'
  BY DEF StageBronze, StageLabels, Sound, LoadInv, OneSliceInForce
<1>5. QED
  BY <1>2, <1>3, <1>4 DEF LoadInv

LEMMA PublishKept ==
  ASSUME Sound, NEW s \in Sessions, Publish(s)
  PROVE  LoadInv'
<1>1. objects' = objects /\ UNCHANGED stg
  BY DEF Publish, Raise, data
<1>2. CASE Raise(s)
  BY <1>1, <1>2, StopKept, LooksKept DEF Raise, data
<1>3. CASE ~Raise(s)
  <2>1. /\ Staged(s) /\ Goto(s, "drop_bronze")
        /\ table' = [bronze |-> [rows |-> stg[Slice(s)].bronze, run |-> Slice(s)],
                     labels |-> stg[Slice(s)].labels]
    BY <1>3 DEF Publish
  <2>2. OneSliceInForce'
    <3>1. table' = [bronze |-> [rows |-> Whole(Slice(s)), run |-> Slice(s)],
                    labels |-> Whole(Slice(s))]
      BY <2>1, StagedSlice
    <3>2. /\ table'.bronze.rows = Whole(table'.bronze.run)
          /\ table'.labels = Whole(table'.bronze.run)
      BY <3>1
    <3>3. QED
      BY <3>2 DEF OneSliceInForce, Whole
  <2>3. Verified'
    BY <1>1, <2>1, GotoKept DEF Past
  <2>4. StagedWhole'
    BY <1>1 DEF Sound, LoadInv, StagedWhole
  <2>5. QED
    BY <2>2, <2>3, <2>4 DEF LoadInv
<1>4. QED
  BY <1>2, <1>3

LEMMA DropKept ==
  ASSUME Sound, NEW s \in Sessions, DropBronze(s) \/ DropLabels(s)
  PROVE  LoadInv'
<1>1. Verified'
  BY StopKept, GotoKept DEF DropBronze, DropLabels, Past
<1>2. StagedWhole'
  <2>1. /\ stg \in [Slices -> [bronze : Files \cup {NoTable}, labels : Files \cup {NoTable}]]
        /\ StagedWhole
    BY DEF Sound, LoadInv, Typed, TypeOK
  <2>2. CASE DropBronze(s)
    BY <2>1, <2>2 DEF DropBronze, StagedWhole
  <2>3. CASE DropLabels(s)
    BY <2>1, <2>3 DEF DropLabels, StagedWhole
  <2>4. QED
    BY <2>2, <2>3
<1>3. OneSliceInForce'
  BY DEF DropBronze, DropLabels, Sound, LoadInv, OneSliceInForce
<1>4. QED
  BY <1>1, <1>2, <1>3 DEF LoadInv

LEMMA ListKept ==
  ASSUME Sound, NEW s \in Sessions, NEW pc, NEW kind, NEW next, List(s, pc, kind, next)
  PROVE  LoadInv'
<1> DEFINE found == {r \in Slices : stg[r][kind] # NoTable}
           x == [session[s] EXCEPT !.pc = next, !.listed = found]
<1>1. session[s] \in SessionStates /\ session \in [Sessions -> SessionStates]
  BY DEF Sound, Typed, TypeOK
<1>2. session' = [session EXCEPT ![s] = x]
  BY <1>1 DEF List
<1>3. session[s].job # "load" /\ x.job = session[s].job
  BY <1>1 DEF List, At, SessionStates
<1>4. objects' = objects /\ UNCHANGED <<stg, table>>
  BY DEF List, data
<1>5. QED
  BY <1>2, <1>3, <1>4, OthersKept, LooksKept

LEMMA DropListedKept ==
  ASSUME Sound, NEW s \in Sessions, NEW pc, NEW kind \in {"bronze", "labels"},
         NEW next \in Steps \ Past, DropListed(s, pc, kind, next)
  PROVE  LoadInv'
<1>1. objects' = objects /\ UNCHANGED table /\ session[s] \in SessionStates
  BY DEF DropListed, Sound, Typed, TypeOK
<1>2. Verified'
  <2>1. CASE Stop(s, "done") \/ Stop(s, "crashed")
    BY <1>1, <2>1, StopKept
  <2>2. CASE Goto(s, next)
    BY <1>1, <2>2, GotoKept DEF Past
  <2>3. CASE \E r \in session[s].listed :
               session' = [session EXCEPT ![s].listed = @ \ {r}]
    <3>1. PICK r \in session[s].listed :
                 session' = [session EXCEPT ![s].listed = session[s].listed \ {r}]
      BY <2>3
    <3> DEFINE x == [session[s] EXCEPT !.listed = session[s].listed \ {r}]
    <3>2. session' = [session EXCEPT ![s] = x]
      BY <3>1 DEF Sound, Typed, TypeOK
    <3>3. session[s].job # "load" /\ x.job = session[s].job
      BY <1>1 DEF DropListed, At, SessionStates
    <3>4. QED
      BY <1>1, <3>2, <3>3, OthersKept
  <2>4. QED
    BY <2>1, <2>2, <2>3 DEF DropListed
<1>3. StagedWhole'
  <2>1. /\ stg \in [Slices -> [bronze : Files \cup {NoTable}, labels : Files \cup {NoTable}]]
        /\ StagedWhole
    BY DEF Sound, LoadInv, Typed, TypeOK
  <2>2. CASE stg' = stg
    BY <2>1, <2>2 DEF StagedWhole
  <2>3. CASE \E r \in session[s].listed : stg' = [stg EXCEPT ![r][kind] = NoTable]
    <3>1. PICK r \in session[s].listed : stg' = [stg EXCEPT ![r][kind] = NoTable]
      BY <2>3
    <3>2. CASE kind = "bronze"
      BY <2>1, <3>1, <3>2 DEF StagedWhole
    <3>3. CASE kind = "labels"
      BY <2>1, <3>1, <3>3 DEF StagedWhole
    <3>4. QED
      BY <3>2, <3>3
  <2>4. QED
    BY <2>2, <2>3 DEF DropListed
<1>4. OneSliceInForce'
  BY <1>1 DEF Sound, LoadInv, OneSliceInForce
<1>5. QED
  BY <1>2, <1>3, <1>4 DEF LoadInv

LEMMA CleanupKept ==
  ASSUME Sound, NEW s \in Sessions, Cleanup(s)
  PROVE  LoadInv'
<1>1. {"list_labels", "idle"} \subseteq Steps \ Past
  BY DEF Steps, Past
<1>2. QED
  BY <1>1, ListKept, DropListedKept DEF Cleanup

LEMMA ByHandKept ==
  ASSUME Sound, NEW s \in Sessions, StartByHand(s) \/ StartCleanup(s) \/ Abort(s)
  PROVE  LoadInv'
<1>1. UNCHANGED data
  BY DEF StartByHand, StartCleanup, Abort
<1>2. objects' = objects /\ UNCHANGED <<stg, table>>
  BY <1>1 DEF data
<1>3. Verified'
  BY <1>2, BeginKept, StopKept DEF StartByHand, StartCleanup, Abort
<1>4. QED
  BY <1>2, <1>3, LooksKept

LEMMA ScheduleKept ==
  ASSUME Sound, Schedule
  PROVE  LoadInv'
<1>1. UNCHANGED data /\ Scheduler \in Sessions
  BY DEF Schedule, StartRun, NextTask, RetryOrFail, Sessions
<1>2. objects' = objects /\ UNCHANGED <<stg, table>>
  BY <1>1 DEF data
<1>3. Verified'
  BY <1>1, <1>2, BeginKept, StopKept
  DEF Schedule, StartRun, NextTask, RetryOrFail, BeginTask, EndRun
<1>4. QED
  BY <1>2, <1>3, LooksKept

LEMMA ExtractKept ==
  ASSUME Sound, Extract
  PROVE  LoadInv'
<1>1. Verified'
  BY DEF Extract, Sound, LoadInv, Verified
<1>2. QED
  BY <1>1, LooksKept DEF Extract

LEMMA StepKept ==
  ASSUME Sound, [Next /\ Preserved]_vars
  PROVE  LoadInv'
<1>1. CASE Next /\ Preserved
  <2>1. ASSUME NEW s \in Sessions, Continue(s)
        PROVE  LoadInv'
    BY <1>1, <2>1, UploadKept, VerifyKept, ChecksKept, ValidateKept, StageKept, PublishKept,
       DropKept, CleanupKept DEF Continue, Load
  <2>2. QED
    BY <1>1, <2>1, ByHandKept, ScheduleKept, ExtractKept DEF Next
<1>2. CASE UNCHANGED vars
  BY <1>2 DEF vars, Sound, LoadInv, Verified, StagedWhole, OneSliceInForce
<1>3. QED
  BY <1>1, <1>2

LEMMA LoadInvHolds == Spec => [](TypeOK /\ LoadInv)
<1>1. Init => TypeOK /\ LoadInv
  <2>1. ASSUME Init
        PROVE  LoadInv
    <3>1. Verified
      BY <2>1 DEF Init, Verified, Knows, Resting, Past
    <3>2. StagedWhole
      BY <2>1 DEF Init, StagedWhole, NoTables
    <3>3. OneSliceInForce
      BY <2>1 DEF Init, OneSliceInForce
    <3>4. QED
      BY <3>1, <3>2, <3>3 DEF LoadInv
  <2>2. QED
    BY <2>1, InitTyped, PeriodLoadAssumption
<1>2. TypeOK /\ LoadInv /\ [Next /\ Preserved]_vars => (TypeOK /\ LoadInv)'
  BY StepTyped, StepKept, PeriodLoadAssumption DEF Typed, Sound
<1>3. QED
  BY <1>1, <1>2, PTL DEF Spec

\* The listens and the labels in force are those of the slice whose checksums the run id was
\* hashed from, however many loads and cleanups overlap, as long as the bucket is not
\* written while a load runs.
THEOREM OneSliceIsInForce == Spec => []OneSliceInForce
BY LoadInvHolds, PTL DEF LoadInv

-----------------------------------------------------------------------------
(* The refinement *)

LEMMA PublishLoads ==
  ASSUME Sound, NEW s \in Sessions, Publish(s), ~Raise(s)
  PROVE  InForce!Load
<1>1. /\ objects = Whole(Slice(s))
      /\ Slice(s) \in Counted \cap Unique
  BY DEF Sound, LoadInv, Verified, Publish, At, Knows, Past, Slice
<1>2. /\ Staged(s) /\ UNCHANGED objects
      /\ table' = [bronze |-> [rows |-> stg[Slice(s)].bronze, run |-> Slice(s)],
                   labels |-> stg[Slice(s)].labels]
  BY DEF Publish
<1>3. table' = [bronze |-> [rows |-> objects, run |-> Slice(s)], labels |-> objects]
  BY <1>1, <1>2, StagedSlice
<1>4. table'.bronze.rows = objects /\ table'.labels = objects
  BY <1>3
<1>5. QED
  BY <1>1, <1>2, <1>4 DEF InForce!Load, InForce!Whole, Whole

LEMMA UploadUploads ==
  ASSUME Sound, NEW s \in Sessions, UploadMember(s), objects' # objects
  PROVE  InForce!Upload
<1>1. session[s].at \in 0 .. Members /\ Members \in Nat /\ Slice(s) \in Slices
  BY SliceTyped DEF Sound, Typed, PeriodLoadAssumption, SessionStates
<1>2. /\ ~(session[s].at + 1 > Members)
      /\ objects' = [objects EXCEPT ![session[s].at + 1] = Slice(s)]
      /\ UNCHANGED table
  BY DEF UploadMember
<1>3. session[s].at + 1 \in 1 .. Members
  BY <1>1, <1>2
<1>4. QED
  BY <1>1, <1>2, <1>3 DEF InForce!Upload

Hidden == UNCHANGED <<objects, table.bronze.rows, table.labels>>

LEMMA OthersStutter ==
  ASSUME NEW s \in Sessions,
         \/ VerifySource(s) \/ VerifyGcs(s) \/ VerifyContract(s) \/ ReconcileSource(s)
         \/ InspectTarget(s) \/ StageBronze(s) \/ StageLabels(s) \/ ValidateStaging(s)
         \/ DropBronze(s) \/ DropLabels(s) \/ Cleanup(s) \/ StartByHand(s)
         \/ StartCleanup(s) \/ Abort(s)
  PROVE  Hidden
<1>1. UNCHANGED <<objects, table>>
  BY DEF VerifySource, VerifyGcs, VerifyContract, ReconcileSource, InspectTarget, StageBronze,
         StageLabels, ValidateStaging, Raise, DropBronze, DropLabels, Cleanup, List, DropListed,
         StartByHand, StartCleanup, Abort, data
<1>2. QED
  BY <1>1 DEF Hidden

LEMMA StepImplements ==
  ASSUME Sound, [Next /\ Preserved]_vars
  PROVE  InForce!Next \/ Hidden
<1>1. CASE Next
  <2>1. ASSUME NEW s \in Sessions, UploadMember(s)
        PROVE  InForce!Next \/ Hidden
    <3>1. UNCHANGED table
      BY <2>1 DEF UploadMember
    <3>2. QED
      BY <2>1, <3>1, UploadUploads DEF InForce!Next, Hidden
  <2>2. ASSUME NEW s \in Sessions, Publish(s)
        PROVE  InForce!Next \/ Hidden
    BY <2>2, PublishLoads DEF InForce!Next, Hidden, Raise, data
  <2>3. CASE Schedule \/ Extract
    BY <2>3 DEF Schedule, StartRun, NextTask, RetryOrFail, Extract, data, Hidden
  <2>4. QED
    BY <1>1, <2>1, <2>2, <2>3, OthersStutter DEF Next, Continue, Load
<1>2. CASE UNCHANGED vars
  BY <1>2 DEF vars, Hidden
<1>3. QED
  BY <1>1, <1>2

\* The programs implement PeriodInForce: what is in force is replaced whole, by what the
\* bucket holds of one slice of the measured sizes.
THEOREM LoadsImplementPeriodInForce == Spec => LoadsAreAtomic
<1>1. Init => InForce!Init
  BY DEF Init, InForce!Init, InForce!Whole, Whole, Empty
<1>2. TypeOK /\ LoadInv /\ [Next /\ Preserved]_vars
        => [InForce!Next]_<<objects, table.bronze.rows, table.labels>>
  BY StepImplements, PeriodLoadAssumption DEF Typed, Sound, Hidden
<1>3. QED
  BY <1>1, <1>2, LoadInvHolds, PTL DEF Spec, LoadsAreAtomic, InForce!Spec

=============================================================================
